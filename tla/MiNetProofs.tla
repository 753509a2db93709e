----------------------------- MODULE MiNetProofs -----------------------------
(***************************************************************************)
(* What TLAPS proves about the message layer for any number of hosts, any  *)
(* programs, any size of the queue and any losses:                         *)
(*                                                                         *)
(*   TypeCorrect   Spec => []TypeOK, wherever SIGIO is open: in particular *)
(*                 two sendMsg of a host never take one message from the   *)
(*                 queue twice, so that its count stays above zero;        *)
(*                                                                         *)
(* and with SIGIO masked between two accesses to the queue (Masked):       *)
(*                                                                         *)
(*   Drained       a sendMsg that returns to a program leaves an empty     *)
(*                 queue;                                                  *)
(*   SlotKept      the slot that a caller fills is its own until sendMsg   *)
(*                 has counted it in;                                      *)
(*   ProgramsRun   nextFreeMsgInQueue never returns NULL to a program;     *)
(*   AcksAreOfReceived                                                     *)
(*                 with no late timeout (MaxLate = 0) and nothing given    *)
(*                 up, what was acknowledged has arrived.                  *)
(*                                                                         *)
(* The first two invariants follow pc: NetInv says who may be inside the   *)
(* loop of sendMsg, MaskInv what the queue is like outside of it. The last *)
(* theorem needs three more: RingInv, which messages lie between sndHead   *)
(* and sndTail, RecvInv, what has been dispatched, and WireInv, what the   *)
(* sockets hold.                                                           *)
(***************************************************************************)
EXTENDS MiNet, SequenceTheorems, FiniteSetTheorems, TLAPS

-----------------------------------------------------------------------------
(* The invariant behind TypeOK *)

Op == [command : Command \ {"GRANT"}, to : Host]

(* The points between the test of isSendingMsg and its reset. *)
LoopPoints == {"transmit", "await", "acked", "unset"}

(* Only one of the two threads of a host is in the loop of sendMsg, it has  *)
(* set isSendingMsg, and it only transmits from a queue that is not empty.  *)
OneLoops(h) ==
  /\ pc[h].main \in LoopPoints =>
       isSendingMsg[h] = 1 /\ pc[h].sigio \notin LoopPoints \cup {"set"}
  /\ pc[h].sigio \in LoopPoints => isSendingMsg[h] = 1
  /\ {pc[h].main, pc[h].sigio} \cap {"transmit", "await", "acked"} # {} => sndQueueSize[h] > 0

(* A thread that sends a message still has what it composes it from. *)
HasWork(h) ==
  /\ pc[h].main \notin {"app", "crashed"} => todo[h] # << >>
  /\ pc[h].sigio \notin {"idle", "dispatch"} => recvQueue[h] # << >>

NetInv == /\ TypeOK
          /\ todo \in [Host -> Seq(Op)]
          /\ \A h \in Host : OneLoops(h) /\ HasWork(h)

-----------------------------------------------------------------------------
(* The two threads of a host *)

PcType == pc \in [Host -> [main : Points, sigio : HandlerPoints]]

(* Where the running thread of a host is. *)
LEMMA AtPoint ==
  ASSUME PcType, NEW h \in Host, NEW p
  PROVE  At(h, p) <=> \/ pc[h].sigio = "idle" /\ pc[h].main = p
                      \/ pc[h].sigio # "idle" /\ pc[h].sigio = p
  BY DEF PcType, At, Running

(* Goto moves the running thread of one host. *)
LEMMA GotoPoint ==
  ASSUME PcType, NEW h \in Host, NEW p, Goto(h, p),
         pc[h].sigio = "idle" => p \in Points,
         pc[h].sigio # "idle" => p \in HandlerPoints
  PROVE  /\ PcType'
         /\ \A g \in Host \ {h} : pc'[g] = pc[g]
         /\ pc[h].sigio = "idle" => pc'[h].main = p /\ pc'[h].sigio = "idle"
         /\ pc[h].sigio # "idle" => pc'[h].main = pc[h].main /\ pc'[h].sigio = p
  BY DEF PcType, Goto, Running

-----------------------------------------------------------------------------
(* Messages *)

LEMMA ZeroHost == 0 \in Host /\ NoHost \notin Host
  BY HostNumAssumption DEF Host, NoHost

LEMMA MessageForms ==
  /\ ZeroMsg \in Message
  /\ BlankMsg \in Message
  /\ \A m \in Message : /\ m.seqno \in Int
                        /\ m.from \in Host \cup {NoHost}
                        /\ m.to \in Host \cup {NoHost}
                        /\ m.body \in Host \X Nat
                        /\ \A n \in Int : [m EXCEPT !.seqno = n] \in Message
  BY ZeroHost DEF Message, ZeroMsg, BlankMsg, NoBody, Command, NoCommand

(* What a caller composes is a message of its host, and complete. *)
LEMMA ComposedType ==
  ASSUME NetInv, NEW h \in Host,
         pc[h].sigio = "idle" => pc[h].main \notin {"app", "crashed"}
  PROVE  Composed(h) \in Message
<1>1. CASE Running(h) = "main"
  <2>1. todo[h] # << >> /\ todo[h] \in Seq(Op)
    BY <1>1 DEF NetInv, HasWork, Running
  <2>2. Head(todo[h]) \in Op /\ Len(todo[h]) \in Nat
    BY <2>1, HeadTailProperties
  <2>3. Head(todo[h]).to \in Host /\ Head(todo[h]).command \in Command
    BY <2>2 DEF Op
  <2> QED BY <1>1, <2>2, <2>3 DEF Composed, Message
<1>2. CASE Running(h) # "main"
  <2>1. question[h] \in Message
    BY DEF NetInv, TypeOK
  <2>2. "GRANT" \in Command
    BY DEF Command
  <2> QED BY <1>2, <2>1, <2>2, MessageForms DEF Composed, Message
<1> QED BY <1>1, <1>2

(* What Return leaves behind: the threads are out of sendMsg, and those of  *)
(* the other hosts where they were.                                         *)
LEMMA ReturnPoint ==
  ASSUME NetInv, NEW h \in Host, Return(h),
         pc[h].sigio = "idle" => pc[h].main \notin {"app", "crashed"},
         pc[h].sigio # "dispatch"
  PROVE  /\ PcType'
         /\ todo' \in [Host -> Seq(Op)]
         /\ recvQueue' \in [Host -> Seq(Message)]
         /\ \A g \in Host \ {h} : pc'[g] = pc[g]
         /\ pc[h].sigio = "idle" => pc'[h].main \in {"app", "wait"} /\ pc'[h].sigio = "idle"
         /\ pc[h].sigio # "idle" => pc'[h].main = pc[h].main /\ pc'[h].sigio = "dispatch"
         /\ \A g \in Host : HasWork(g)'
<1> USE DEF PcType
<1>0. PcType /\ todo \in [Host -> Seq(Op)] /\ recvQueue \in [Host -> Seq(Message)]
  BY DEF NetInv, TypeOK
<1>a. \A g \in Host : HasWork(g)
  BY DEF NetInv
<1>1. CASE Running(h) = "sigio"
  <2>1. pc[h].sigio # "idle"
    BY <1>1 DEF Running
  <2>2. recvQueue[h] # << >> /\ recvQueue[h] \in Seq(Message)
    BY <2>1, <1>0, <1>a DEF HasWork
  <2>3. Tail(recvQueue[h]) \in Seq(Message)
    BY <2>2, HeadTailProperties
  <2>4. /\ Goto(h, "dispatch") /\ todo' = todo
        /\ recvQueue' = [recvQueue EXCEPT ![h] = Tail(@)]
    BY <1>1 DEF Return
  <2>5. /\ PcType'
        /\ \A g \in Host \ {h} : pc'[g] = pc[g]
        /\ pc'[h].main = pc[h].main /\ pc'[h].sigio = "dispatch"
    BY <1>0, <2>1, <2>4, GotoPoint DEF HandlerPoints
  <2>6. recvQueue' \in [Host -> Seq(Message)]
    BY <2>3, <2>4, <1>0
  <2>7. \A g \in Host : HasWork(g)'
    BY <2>4, <2>5, <1>0, <1>a DEF HasWork
  <2> QED BY <2>1, <2>4, <2>5, <2>6, <2>7, <1>0
<1>2. CASE Running(h) # "sigio"
  <2>1. pc[h].sigio = "idle"
    BY <1>2 DEF Running
  <2>2. todo[h] # << >> /\ todo[h] \in Seq(Op)
    BY <2>1, <1>0, <1>a DEF HasWork
  <2>3. Tail(todo[h]) \in Seq(Op)
    BY <2>2, HeadTailProperties
  <2> DEFINE asks == Head(todo[h]).command \in Question
  <2>4. /\ Goto(h, IF asks THEN "wait" ELSE "app")
        /\ todo' = [todo EXCEPT ![h] = IF asks THEN @ ELSE Tail(@)]
        /\ recvQueue' = recvQueue
    BY <1>2 DEF Return
  <2> HIDE DEF asks
  <2>5. /\ PcType'
        /\ \A g \in Host \ {h} : pc'[g] = pc[g]
        /\ pc'[h].main = (IF asks THEN "wait" ELSE "app") /\ pc'[h].sigio = "idle"
    BY <1>0, <2>1, <2>4, GotoPoint DEF Points
  <2>6. todo' \in [Host -> Seq(Op)]
    BY <2>2, <2>3, <2>4, <1>0
  <2>7. \A g \in Host : HasWork(g)'
    BY <2>2, <2>4, <2>5, <1>0, <1>a DEF HasWork
  <2> QED BY <2>1, <2>4, <2>5, <2>6, <2>7, <1>0
<1> QED BY <1>1, <1>2

(* What nextFreeMsgInQueue leaves behind. *)
LEMMA NextFreePoint ==
  ASSUME NetInv, NEW h \in Host, nextFreeMsgInQueue(h)
  PROVE  /\ PcType'
         /\ sndQueue' \in [Host -> [Slot -> Message]]
         /\ msg' \in [Host -> [main : Slot, sigio : Slot]]
         /\ \A g \in Host \ {h} : pc'[g] = pc[g]
         /\ pc[h].sigio = "idle" => pc'[h].main \in {"fill", "crashed"} /\ pc'[h].sigio = "idle"
         /\ pc[h].sigio # "idle" => pc'[h].main = pc[h].main /\ pc'[h].sigio \in {"fill", "crashed"}
<1>0. /\ PcType /\ sndQueue \in [Host -> [Slot -> Message]]
      /\ msg \in [Host -> [main : Slot, sigio : Slot]] /\ sndTail[h] \in Slot
  BY DEF NetInv, TypeOK, PcType
<1>1. CASE sndQueueSize[h] = MAX_QUEUE_SIZE
  <2>1. Goto(h, "crashed") /\ sndQueue' = sndQueue /\ msg' = msg
    BY <1>1 DEF nextFreeMsgInQueue
  <2> QED BY <2>1, <1>0, GotoPoint DEF Points, HandlerPoints
<1>2. CASE sndQueueSize[h] # MAX_QUEUE_SIZE
  <2>1. /\ Goto(h, "fill")
        /\ sndQueue' = [sndQueue EXCEPT ![h][sndTail[h]] = BlankMsg]
        /\ msg' = [msg EXCEPT ![h][Running(h)] = sndTail[h]]
    BY <1>2 DEF nextFreeMsgInQueue
  <2>2. sndQueue' \in [Host -> [Slot -> Message]]
    BY <2>1, <1>0, MessageForms
  <2>3. msg' \in [Host -> [main : Slot, sigio : Slot]]
    BY <2>1, <1>0 DEF Running
  <2> QED BY <2>1, <2>2, <2>3, <1>0, GotoPoint DEF Points, HandlerPoints, RacePoints
<1> QED BY <1>1, <1>2

-----------------------------------------------------------------------------
(* Every step keeps NetInv *)

(* The next slot of the ring. *)
LEMMA NextSlot == \A s \in Slot : (s + 1) % MAX_QUEUE_SIZE \in Slot
  BY QueueAssumption DEF Slot

(* An array of arrays that is written to, inside of its bounds or outside. *)
LEMMA PairExcept ==
  ASSUME NEW S, NEW T, NEW F \in [S -> [S -> T]], NEW a, NEW b, NEW v,
         a \in S /\ b \in S => v \in T
  PROVE  [F EXCEPT ![a][b] = v] \in [S -> [S -> T]]
<1>1. CASE a \in S
  <2>1. [F[a] EXCEPT ![b] = v] \in [S -> T]
    BY <1>1
  <2> QED BY <2>1, <1>1
<1>2. CASE a \notin S
  BY <1>2
<1> QED BY <1>1, <1>2

LEMMA BeginNet ==
  ASSUME NetInv, NEW h \in Host, Begin(h)
  PROVE  NetInv'
<1>0. PcType
  BY DEF NetInv, TypeOK, PcType
<1>1. pc[h].sigio = "idle" /\ pc[h].main = "app" /\ todo[h] # << >>
  BY <1>0, AtPoint DEF Begin, Running
<1>2. /\ PcType'
      /\ sndQueue' \in [Host -> [Slot -> Message]]
      /\ msg' \in [Host -> [main : Slot, sigio : Slot]]
      /\ \A g \in Host \ {h} : pc'[g] = pc[g]
      /\ pc'[h].main \in {"fill", "crashed"} /\ pc'[h].sigio = "idle"
  BY <1>1, NextFreePoint DEF Begin
<1>3. TypeOK'
  BY <1>2 DEF NetInv, TypeOK, Begin, netVars, lockVars, PcType
<1>4. \A g \in Host : OneLoops(g)'
  BY <1>1, <1>2 DEF NetInv, OneLoops, LoopPoints, Begin
<1>5. \A g \in Host : HasWork(g)'
  BY <1>1, <1>2 DEF NetInv, HasWork, Begin
<1> QED BY <1>3, <1>4, <1>5 DEF NetInv, Begin

LEMMA FillNet ==
  ASSUME NetInv, NEW h \in Host, Fill(h)
  PROVE  NetInv'
<1>0. PcType /\ sndQueue \in [Host -> [Slot -> Message]]
  BY DEF NetInv, TypeOK, PcType
<1>1. \/ pc[h].sigio = "idle" /\ pc[h].main = "fill"
      \/ pc[h].sigio = "fill"
  BY <1>0, AtPoint DEF Fill
<1>2. Composed(h) \in Message
  BY <1>1, ComposedType
<1>3. /\ PcType'
      /\ \A g \in Host \ {h} : pc'[g] = pc[g]
      /\ pc[h].sigio = "idle" => pc'[h].main = "send" /\ pc'[h].sigio = "idle"
      /\ pc[h].sigio # "idle" => pc'[h].main = pc[h].main /\ pc'[h].sigio = "send"
  BY <1>0, GotoPoint DEF Fill, Points, HandlerPoints, RacePoints
<1>4. msg[h][Running(h)] \in Slot
  BY DEF NetInv, TypeOK, Running
<1>5. sndQueue' \in [Host -> [Slot -> Message]]
  BY <1>0, <1>2, <1>4 DEF Fill
<1>6. waitFlag' \in [Host -> {0, 1}]
  BY DEF Fill, FlagRaised, NetInv, TypeOK
<1>7. TypeOK'
  BY <1>3, <1>5, <1>6 DEF NetInv, TypeOK, Fill, netVars, lockVars, PcType
<1>8. \A g \in Host : OneLoops(g)'
  BY <1>1, <1>3 DEF NetInv, OneLoops, LoopPoints, Fill
<1>9. \A g \in Host : HasWork(g)'
  BY <1>1, <1>3 DEF NetInv, HasWork, Fill
<1> QED BY <1>7, <1>8, <1>9 DEF NetInv, Fill

LEMMA SendNet ==
  ASSUME NetInv, NEW h \in Host, Send(h)
  PROVE  NetInv'
<1>0. PcType /\ sndQueue \in [Host -> [Slot -> Message]]
  BY DEF NetInv, TypeOK, PcType
<1>1. \/ pc[h].sigio = "idle" /\ pc[h].main = "send"
      \/ pc[h].sigio = "send"
  BY <1>0, AtPoint DEF Send
<1> DEFINE s == msg[h][Running(h)]
           m == sndQueue[h][s]
<1>2. s \in Slot
  BY DEF NetInv, TypeOK, Running
<1>3. m \in Message
  BY <1>0, <1>2
<1>4. CASE m.from # h \/ m.to = NoHost \/ m.command = NoCommand
  <2>1. Return(h) /\ sndQueue' = sndQueue /\ sndTail' = sndTail
    BY <1>4 DEF Send
  <2>2. /\ PcType'
        /\ todo' \in [Host -> Seq(Op)]
        /\ recvQueue' \in [Host -> Seq(Message)]
        /\ \A g \in Host \ {h} : pc'[g] = pc[g]
        /\ pc[h].sigio = "idle" => pc'[h].main \in {"app", "wait"} /\ pc'[h].sigio = "idle"
        /\ pc[h].sigio # "idle" => pc'[h].main = pc[h].main /\ pc'[h].sigio = "dispatch"
        /\ \A g \in Host : HasWork(g)'
    BY <1>1, <2>1, ReturnPoint
  <2>3. TypeOK'
    BY <2>1, <2>2 DEF NetInv, TypeOK, Send, netVars, lockVars, PcType
  <2>4. \A g \in Host : OneLoops(g)'
    BY <1>1, <2>2 DEF NetInv, OneLoops, LoopPoints, Send
  <2> QED BY <2>2, <2>3, <2>4 DEF NetInv
<1>5. CASE ~(m.from # h \/ m.to = NoHost \/ m.command = NoCommand)
  <2>1. /\ sndQueue' = [sndQueue EXCEPT ![h][s].seqno = snd_seqs[h][m.to]]
        /\ sndTail' = [sndTail EXCEPT ![h] = IF sndQueueSize[h] = MAX_QUEUE_SIZE
                                             THEN @ ELSE (@ + 1) % MAX_QUEUE_SIZE]
        /\ Goto(h, "count")
        /\ UNCHANGED <<recvQueue, todo>>
    BY <1>5 DEF Send
  <2>2. /\ PcType'
        /\ \A g \in Host \ {h} : pc'[g] = pc[g]
        /\ pc[h].sigio = "idle" => pc'[h].main = "count" /\ pc'[h].sigio = "idle"
        /\ pc[h].sigio # "idle" => pc'[h].main = pc[h].main /\ pc'[h].sigio = "count"
    BY <1>0, <2>1, GotoPoint DEF Points, HandlerPoints, RacePoints
  <2>3. snd_seqs[h][m.to] \in Int
    <3>1. m.to \in Host
      BY <1>3, <1>5, MessageForms
    <3>2. snd_seqs \in [Host -> [Host -> Nat]]
      BY DEF NetInv, TypeOK
    <3> QED BY <3>1, <3>2
  <2>4. sndQueue' \in [Host -> [Slot -> Message]]
    <3>1. [m EXCEPT !.seqno = snd_seqs[h][m.to]] \in Message
      BY <1>3, <2>3, MessageForms
    <3>2. sndQueue' = [sndQueue EXCEPT ![h] =
                         [sndQueue[h] EXCEPT ![s] = [m EXCEPT !.seqno = snd_seqs[h][m.to]]]]
      BY <2>1, <1>0, <1>2
    <3> HIDE DEF m, s
    <3> QED BY <3>1, <3>2, <1>0, <1>2
  <2>5. sndTail' \in [Host -> Slot]
    BY <2>1, NextSlot DEF NetInv, TypeOK
  <2>6. TypeOK'
    BY <2>1, <2>2, <2>4, <2>5 DEF NetInv, TypeOK, Send, netVars, lockVars, PcType
  <2>7. \A g \in Host : OneLoops(g)'
    BY <1>1, <2>2 DEF NetInv, OneLoops, LoopPoints, Send
  <2>8. \A g \in Host : HasWork(g)'
    BY <1>1, <2>1, <2>2 DEF NetInv, HasWork
  <2> QED BY <2>1, <2>6, <2>7, <2>8 DEF NetInv
<1> QED BY <1>4, <1>5

LEMMA CountNet ==
  ASSUME NetInv, NEW h \in Host, Count(h)
  PROVE  NetInv'
<1>0. PcType
  BY DEF NetInv, TypeOK, PcType
<1>1. \/ pc[h].sigio = "idle" /\ pc[h].main = "count"
      \/ pc[h].sigio = "count"
  BY <1>0, AtPoint DEF Count
<1>2. sndQueueSize' \in [Host -> 0 .. MAX_QUEUE_SIZE]
  BY QueueAssumption DEF NetInv, TypeOK, Count
<1>3. \A g \in Host : sndQueueSize[g] > 0 => sndQueueSize'[g] > 0
  BY QueueAssumption DEF NetInv, TypeOK, Count
<1>4. CASE isSendingMsg[h] = 1
  <2>1. Return(h)
    BY <1>4 DEF Count
  <2>2. /\ PcType'
        /\ todo' \in [Host -> Seq(Op)]
        /\ recvQueue' \in [Host -> Seq(Message)]
        /\ \A g \in Host \ {h} : pc'[g] = pc[g]
        /\ pc[h].sigio = "idle" => pc'[h].main \in {"app", "wait"} /\ pc'[h].sigio = "idle"
        /\ pc[h].sigio # "idle" => pc'[h].main = pc[h].main /\ pc'[h].sigio = "dispatch"
        /\ \A g \in Host : HasWork(g)'
    BY <1>1, <2>1, ReturnPoint
  <2>3. TypeOK'
    BY <1>2, <2>2 DEF NetInv, TypeOK, Count, netVars, lockVars, PcType
  <2>4. \A g \in Host : OneLoops(g)'
    BY <1>1, <1>3, <2>2 DEF NetInv, OneLoops, LoopPoints, Count
  <2> QED BY <2>2, <2>3, <2>4 DEF NetInv
<1>5. CASE isSendingMsg[h] # 1
  <2>1. Goto(h, "set") /\ UNCHANGED <<recvQueue, todo>>
    BY <1>5 DEF Count
  <2>2. /\ PcType'
        /\ \A g \in Host \ {h} : pc'[g] = pc[g]
        /\ pc[h].sigio = "idle" => pc'[h].main = "set" /\ pc'[h].sigio = "idle"
        /\ pc[h].sigio # "idle" => pc'[h].main = pc[h].main /\ pc'[h].sigio = "set"
    BY <1>0, <2>1, GotoPoint DEF Points, HandlerPoints, RacePoints
  <2>3. TypeOK'
    BY <1>2, <2>1, <2>2 DEF NetInv, TypeOK, Count, netVars, lockVars, PcType
  <2>4. \A g \in Host : OneLoops(g)'
    BY <1>1, <1>3, <1>5, <2>2 DEF NetInv, OneLoops, LoopPoints, Count
  <2>5. \A g \in Host : HasWork(g)'
    BY <1>1, <2>1, <2>2 DEF NetInv, HasWork
  <2> QED BY <2>1, <2>3, <2>4, <2>5 DEF NetInv
<1> QED BY <1>4, <1>5

LEMMA SetSendingNet ==
  ASSUME NetInv, NEW h \in Host, SetSending(h)
  PROVE  NetInv'
<1>0. PcType
  BY DEF NetInv, TypeOK, PcType
<1>1. \/ pc[h].sigio = "idle" /\ pc[h].main = "set"
      \/ pc[h].sigio = "set"
  BY <1>0, AtPoint DEF SetSending
<1> DEFINE p == IF sndQueueSize[h] > 0 THEN "transmit" ELSE "unset"
<1>2. Goto(h, p) /\ retryNum' = [retryNum EXCEPT ![h] = 0]
  BY DEF SetSending, Loop
<1>3. p \in {"transmit", "unset"} /\ (p = "transmit" => sndQueueSize[h] > 0)
  OBVIOUS
<1> HIDE DEF p
<1>4. /\ PcType'
      /\ \A g \in Host \ {h} : pc'[g] = pc[g]
      /\ pc[h].sigio = "idle" => pc'[h].main = p /\ pc'[h].sigio = "idle"
      /\ pc[h].sigio # "idle" => pc'[h].main = pc[h].main /\ pc'[h].sigio = p
  BY <1>0, <1>2, <1>3, GotoPoint DEF Points, HandlerPoints, RacePoints
<1>5. retryNum' \in [Host -> 0 .. MAX_RETRY_NUM - 1]
  BY <1>2, RetryAssumption DEF NetInv, TypeOK
<1>6. isSendingMsg' = [isSendingMsg EXCEPT ![h] = 1]
  BY DEF SetSending
<1>7. TypeOK'
  BY <1>4, <1>5, <1>6 DEF NetInv, TypeOK, SetSending, netVars, lockVars, PcType
<1>8. \A g \in Host : OneLoops(g)'
  <2>1. isSendingMsg \in [Host -> {0, 1}]
    BY DEF NetInv, TypeOK
  <2> QED BY <1>1, <1>3, <1>4, <1>6, <2>1 DEF NetInv, OneLoops, LoopPoints, SetSending
<1>9. \A g \in Host : HasWork(g)'
  BY <1>1, <1>4 DEF NetInv, HasWork, SetSending
<1> QED BY <1>7, <1>8, <1>9 DEF NetInv, SetSending

LEMMA TransmitNet ==
  ASSUME NetInv, NEW h \in Host, Transmit(h)
  PROVE  NetInv'
<1>0. PcType
  BY DEF NetInv, TypeOK, PcType
<1>1. \/ pc[h].sigio = "idle" /\ pc[h].main = "transmit"
      \/ pc[h].sigio = "transmit"
  BY <1>0, AtPoint DEF Transmit
<1>2. /\ PcType'
      /\ \A g \in Host \ {h} : pc'[g] = pc[g]
      /\ pc[h].sigio = "idle" => pc'[h].main = "await" /\ pc'[h].sigio = "idle"
      /\ pc[h].sigio # "idle" => pc'[h].main = pc[h].main /\ pc'[h].sigio = "await"
  BY <1>0, GotoPoint DEF Transmit, Points, HandlerPoints
<1> DEFINE m == Top(h)
<1>3. m \in Message
  BY DEF NetInv, TypeOK, Top
<1>4. \/ data' = data /\ pending' = pending
      \/ /\ data' = [data EXCEPT ![m.from][m.to] = Append(@, m)]
         /\ pending' = [pending EXCEPT ![m.to] = TRUE]
  BY DEF Transmit
<1>5. data' \in [Host -> [Host -> Seq(Message)]] /\ pending' \in [Host -> BOOLEAN]
  <2>1. data \in [Host -> [Host -> Seq(Message)]] /\ pending \in [Host -> BOOLEAN]
    BY DEF NetInv, TypeOK
  <2> HIDE DEF m
  <2>2. \A f, t \in Host : Append(data[f][t], m) \in Seq(Message)
    BY <2>1, <1>3, AppendProperties
  <2>3. ASSUME NEW f, NEW t
        PROVE  [data EXCEPT ![f][t] = Append(data[f][t], m)] \in [Host -> [Host -> Seq(Message)]]
    <3> DEFINE v == Append(data[f][t], m)
    <3>1. f \in Host /\ t \in Host => v \in Seq(Message)
      BY <2>2
    <3> HIDE DEF v
    <3>2. [data EXCEPT ![f][t] = v] \in [Host -> [Host -> Seq(Message)]]
      BY <2>1, <3>1, PairExcept
    <3> QED BY <3>2 DEF v
  <2>4. pending' \in [Host -> BOOLEAN]
    BY <2>1, <1>4
  <2>5. data' = data \/ data' = [data EXCEPT ![m.from][m.to] = Append(data[m.from][m.to], m)]
    BY <1>4
  <2>6. [data EXCEPT ![m.from][m.to] = Append(data[m.from][m.to], m)]
          \in [Host -> [Host -> Seq(Message)]]
    BY <2>3
  <2> QED BY <2>1, <2>4, <2>5, <2>6
<1>6. TypeOK'
  BY <1>2, <1>5 DEF NetInv, TypeOK, Transmit, queueVars, lockVars, PcType
<1>7. \A g \in Host : OneLoops(g)'
  BY <1>1, <1>2 DEF NetInv, OneLoops, LoopPoints, Transmit, queueVars
<1>8. \A g \in Host : HasWork(g)'
  BY <1>1, <1>2 DEF NetInv, HasWork, Transmit
<1> QED BY <1>6, <1>7, <1>8 DEF NetInv, Transmit

(* The loop goes on after msgDequeue. *)
LEMMA DequeuePoint ==
  ASSUME NetInv, NEW h \in Host, At(h, "await") \/ At(h, "acked"), Dequeue(h),
         UNCHANGED <<isSendingMsg, recvQueue, todo>>
  PROVE  /\ PcType'
         /\ sndHead' \in [Host -> Slot]
         /\ sndQueueSize' \in [Host -> 0 .. MAX_QUEUE_SIZE]
         /\ retryNum' \in [Host -> 0 .. MAX_RETRY_NUM - 1]
         /\ \A g \in Host : OneLoops(g)' /\ HasWork(g)'
<1>0. PcType /\ sndQueueSize \in [Host -> 0 .. MAX_QUEUE_SIZE]
  BY DEF NetInv, TypeOK, PcType
<1>1. \/ pc[h].sigio = "idle" /\ pc[h].main \in {"await", "acked"}
      \/ pc[h].sigio \in {"await", "acked"}
  BY <1>0, AtPoint
<1> DEFINE p == IF sndQueueSize[h] - 1 > 0 THEN "transmit" ELSE "unset"
<1>2. /\ Goto(h, p)
      /\ retryNum' = [retryNum EXCEPT ![h] = 0]
      /\ sndHead' = [sndHead EXCEPT ![h] = (@ + 1) % MAX_QUEUE_SIZE]
      /\ sndQueueSize' = [sndQueueSize EXCEPT ![h] = @ - 1]
  BY DEF Dequeue, Loop
<1>3. sndQueueSize[h] > 0
  BY <1>1 DEF NetInv, OneLoops
<1>4. sndQueueSize' \in [Host -> 0 .. MAX_QUEUE_SIZE]
  BY <1>0, <1>2, <1>3, QueueAssumption
<1>5. p \in {"transmit", "unset"} /\ (p = "transmit" => sndQueueSize'[h] > 0)
  BY <1>0, <1>2
<1> HIDE DEF p
<1>6. /\ PcType'
      /\ \A g \in Host \ {h} : pc'[g] = pc[g]
      /\ pc[h].sigio = "idle" => pc'[h].main = p /\ pc'[h].sigio = "idle"
      /\ pc[h].sigio # "idle" => pc'[h].main = pc[h].main /\ pc'[h].sigio = p
  BY <1>0, <1>2, <1>5, GotoPoint DEF Points, HandlerPoints, RacePoints
<1>7. retryNum' \in [Host -> 0 .. MAX_RETRY_NUM - 1] /\ sndHead' \in [Host -> Slot]
  BY <1>2, RetryAssumption, NextSlot DEF NetInv, TypeOK
<1>8. \A g \in Host : OneLoops(g)'
  BY <1>0, <1>1, <1>2, <1>5, <1>6 DEF NetInv, OneLoops, LoopPoints
<1>9. \A g \in Host : HasWork(g)'
  BY <1>1, <1>5, <1>6 DEF NetInv, HasWork
<1> QED BY <1>4, <1>6, <1>7, <1>8, <1>9

LEMMA ReadAckNet ==
  ASSUME NetInv, NEW h \in Host, ReadAck(h)
  PROVE  NetInv'
<1>0. PcType
  BY DEF NetInv, TypeOK, PcType
<1> DEFINE t == Top(h).to
<1>1. t \in Host /\ acks[t][h] # << >> /\ acks' = [acks EXCEPT ![t][h] = Tail(@)]
  BY DEF ReadAck
<1>2. acks' \in [Host -> [Host -> Seq(Int)]]
  <2>1. acks \in [Host -> [Host -> Seq(Int)]]
    BY DEF NetInv, TypeOK
  <2> HIDE DEF t
  <2>2. Tail(acks[t][h]) \in Seq(Int)
    BY <1>1, <2>1, HeadTailProperties
  <2> QED BY <1>1, <2>1, <2>2
<1>3. CASE IsAckOf(Head(acks[t][h]), Top(h))
  <2>1. snd_seqs' = CountedSeqs(h) /\ Goto(h, "acked")
    BY <1>3 DEF ReadAck
  <2>2. /\ \/ pc[h].sigio = "idle" /\ pc[h].main = "await"
           \/ pc[h].sigio = "await"
        /\ UNCHANGED <<sndQueueSize, isSendingMsg, recvQueue, todo>>
    BY <1>0, AtPoint DEF ReadAck
  <2>3. snd_seqs' \in [Host -> [Host -> Nat]]
    <3> DEFINE to == sndQueue[h][msg[h][Running(h)]].to
    <3>1. snd_seqs \in [Host -> [Host -> Nat]]
      BY DEF NetInv, TypeOK
    <3>2. snd_seqs' = [snd_seqs EXCEPT ![h][to] = @ + 1]
      BY <2>1 DEF CountedSeqs
    <3> HIDE DEF to
    <3> QED BY SMTT(30), <3>1, <3>2, PairExcept
  <2>4. /\ PcType'
        /\ \A g \in Host \ {h} : pc'[g] = pc[g]
        /\ pc[h].sigio = "idle" => pc'[h].main = "acked" /\ pc'[h].sigio = "idle"
        /\ pc[h].sigio # "idle" => pc'[h].main = pc[h].main /\ pc'[h].sigio = "acked"
    BY <1>0, <2>1, GotoPoint DEF Points, HandlerPoints
  <2>5. TypeOK'
    BY <1>2, <2>3, <2>4 DEF NetInv, TypeOK, ReadAck, lockVars, PcType
  <2>6. \A g \in Host : OneLoops(g)'
    BY <2>2, <2>4 DEF NetInv, OneLoops, LoopPoints
  <2>7. \A g \in Host : HasWork(g)'
    BY <2>2, <2>4 DEF NetInv, HasWork
  <2> QED BY <2>2, <2>5, <2>6, <2>7 DEF NetInv
<1>4. CASE ~IsAckOf(Head(acks[t][h]), Top(h))
  <2>1. UNCHANGED <<snd_seqs, sndQueueSize, pc, isSendingMsg, recvQueue, todo>>
    BY <1>4 DEF ReadAck
  <2>2. TypeOK'
    BY <1>2, <2>1 DEF NetInv, TypeOK, ReadAck, lockVars
  <2>3. \A g \in Host : OneLoops(g)' /\ HasWork(g)'
    BY <2>1 DEF NetInv, OneLoops, HasWork
  <2> QED BY <2>1, <2>2, <2>3 DEF NetInv
<1> QED BY <1>3, <1>4

LEMMA DropAckedNet ==
  ASSUME NetInv, NEW h \in Host, DropAcked(h)
  PROVE  NetInv'
<1>1. At(h, "acked") /\ Dequeue(h) /\ UNCHANGED <<isSendingMsg, recvQueue, todo>>
  BY DEF DropAcked
<1>2. /\ PcType'
      /\ sndHead' \in [Host -> Slot]
      /\ sndQueueSize' \in [Host -> 0 .. MAX_QUEUE_SIZE]
      /\ retryNum' \in [Host -> 0 .. MAX_RETRY_NUM - 1]
      /\ \A g \in Host : OneLoops(g)' /\ HasWork(g)'
  BY <1>1, DequeuePoint
<1>3. TypeOK'
  BY <1>2 DEF NetInv, TypeOK, DropAcked, netVars, lockVars, PcType
<1> QED BY <1>1, <1>2, <1>3 DEF NetInv

LEMMA TimeoutNet ==
  ASSUME NetInv, NEW h \in Host, Timeout(h)
  PROVE  NetInv'
<1>0. PcType
  BY DEF NetInv, TypeOK, PcType
<1>1. At(h, "await") /\ UNCHANGED <<isSendingMsg, recvQueue, todo>>
  BY DEF Timeout
<1>2. CASE retryNum[h] + 1 < MAX_RETRY_NUM
  <2>1. /\ retryNum' = [retryNum EXCEPT ![h] = @ + 1] /\ Goto(h, "transmit")
        /\ UNCHANGED <<sndHead, sndQueueSize>>
    BY <1>2 DEF Timeout, RetryOnce
  <2>2. \/ pc[h].sigio = "idle" /\ pc[h].main = "await"
        \/ pc[h].sigio = "await"
    BY <1>0, <1>1, AtPoint
  <2>3. retryNum' \in [Host -> 0 .. MAX_RETRY_NUM - 1]
    BY <1>2, <2>1, RetryAssumption DEF NetInv, TypeOK
  <2>4. /\ PcType'
        /\ \A g \in Host \ {h} : pc'[g] = pc[g]
        /\ pc[h].sigio = "idle" => pc'[h].main = "transmit" /\ pc'[h].sigio = "idle"
        /\ pc[h].sigio # "idle" => pc'[h].main = pc[h].main /\ pc'[h].sigio = "transmit"
    BY <1>0, <2>1, GotoPoint DEF Points, HandlerPoints
  <2>5. TypeOK'
    BY <2>1, <2>3, <2>4 DEF NetInv, TypeOK, Timeout, lockVars, PcType
  <2>6. \A g \in Host : OneLoops(g)'
    BY <1>1, <2>1, <2>2, <2>4 DEF NetInv, OneLoops, LoopPoints
  <2>7. \A g \in Host : HasWork(g)'
    BY <1>1, <2>2, <2>4 DEF NetInv, HasWork
  <2> QED BY <1>1, <2>5, <2>6, <2>7 DEF NetInv
<1>3. CASE ~(retryNum[h] + 1 < MAX_RETRY_NUM)
  <2>1. Dequeue(h)
    BY <1>3 DEF Timeout
  <2>2. /\ PcType'
        /\ sndHead' \in [Host -> Slot]
        /\ sndQueueSize' \in [Host -> 0 .. MAX_QUEUE_SIZE]
        /\ retryNum' \in [Host -> 0 .. MAX_RETRY_NUM - 1]
        /\ \A g \in Host : OneLoops(g)' /\ HasWork(g)'
    BY <1>1, <2>1, DequeuePoint
  <2>3. TypeOK'
    BY <2>2 DEF NetInv, TypeOK, Timeout, lockVars, PcType
  <2> QED BY <1>1, <2>2, <2>3 DEF NetInv
<1> QED BY <1>2, <1>3

LEMMA UnsetNet ==
  ASSUME NetInv, NEW h \in Host, Unset(h)
  PROVE  NetInv'
<1>0. PcType
  BY DEF NetInv, TypeOK, PcType
<1>1. \/ pc[h].sigio = "idle" /\ pc[h].main = "unset"
      \/ pc[h].sigio = "unset"
  BY <1>0, AtPoint DEF Unset
<1>2. isSendingMsg' = [isSendingMsg EXCEPT ![h] = 0] /\ Return(h)
  BY DEF Unset
<1>3. /\ PcType'
      /\ todo' \in [Host -> Seq(Op)]
      /\ recvQueue' \in [Host -> Seq(Message)]
      /\ \A g \in Host \ {h} : pc'[g] = pc[g]
      /\ pc[h].sigio = "idle" => pc'[h].main \in {"app", "wait"} /\ pc'[h].sigio = "idle"
      /\ pc[h].sigio # "idle" => pc'[h].main = pc[h].main /\ pc'[h].sigio = "dispatch"
      /\ \A g \in Host : HasWork(g)'
  BY <1>1, <1>2, ReturnPoint
<1>4. TypeOK'
  BY <1>2, <1>3 DEF NetInv, TypeOK, Unset, netVars, lockVars, PcType
<1>5. \A g \in Host : OneLoops(g)'
  <2>1. isSendingMsg \in [Host -> {0, 1}]
    BY DEF NetInv, TypeOK
  <2> QED BY ZenonT(60), <1>1, <1>2, <1>3, <2>1 DEF NetInv, OneLoops, LoopPoints, Unset
<1> QED BY <1>3, <1>4, <1>5 DEF NetInv

LEMMA WakeNet ==
  ASSUME NetInv, NEW h \in Host, Wake(h)
  PROVE  NetInv'
<1>0. PcType /\ todo \in [Host -> Seq(Op)]
  BY DEF NetInv, TypeOK, PcType
<1>1. pc[h].sigio = "idle" /\ pc[h].main = "wait"
  BY <1>0, AtPoint DEF Wake, Running
<1>2. todo[h] # << >>
  BY <1>1 DEF NetInv, HasWork
<1>3. Tail(todo[h]) \in Seq(Op)
  BY <1>0, <1>2, HeadTailProperties
<1>4. todo' \in [Host -> Seq(Op)] /\ \A g \in Host \ {h} : todo'[g] = todo[g]
  BY <1>0, <1>3 DEF Wake
<1>5. /\ PcType'
      /\ \A g \in Host \ {h} : pc'[g] = pc[g]
      /\ pc'[h].main = "app" /\ pc'[h].sigio = "idle"
  BY <1>0, <1>1, GotoPoint DEF Wake, Points
<1>6. TypeOK'
  BY <1>5 DEF NetInv, TypeOK, Wake, queueVars, netVars, lockVars, PcType
<1>7. \A g \in Host : OneLoops(g)'
  BY <1>1, <1>5 DEF NetInv, OneLoops, LoopPoints, Wake, queueVars
<1>8. \A g \in Host : HasWork(g)'
  BY <1>1, <1>4, <1>5 DEF NetInv, HasWork, Wake
<1> QED BY <1>4, <1>6, <1>7, <1>8 DEF NetInv

(* A handler is running the dispatch loop, with a message to handle. *)
LEMMA DispatchingFacts ==
  ASSUME NetInv, NEW h \in Host, NEW c, Dispatching(h, c)
  PROVE  /\ pc[h].sigio = "dispatch"
         /\ recvQueue[h] # << >> /\ recvQueue[h] \in Seq(Message)
         /\ Head(recvQueue[h]) \in Message
         /\ Tail(recvQueue[h]) \in Seq(Message)
         /\ UNCHANGED <<data, acks, pending, retryNum, todo>>
<1>1. /\ pc[h].sigio = "dispatch" /\ recvQueue[h] # << >>
      /\ UNCHANGED <<data, acks, pending, retryNum, todo>>
  BY DEF Dispatching, netVars
<1>2. recvQueue[h] \in Seq(Message)
  BY DEF NetInv, TypeOK
<1> QED BY <1>1, <1>2, HeadTailProperties

(* A handler that answers: it takes a slot, and NetInv is kept. *)
LEMMA AnswerNet ==
  ASSUME NetInv, NEW h \in Host, NEW c, Dispatching(h, c),
         NEW m \in Message, Answer(h, m),
         lockFree' \in [Host -> BOOLEAN], waiters' \in [Host -> Seq(Message)]
  PROVE  NetInv'
<1>1. /\ pc[h].sigio = "dispatch" /\ recvQueue[h] # << >>
      /\ UNCHANGED <<data, acks, pending, retryNum, todo>>
  BY DispatchingFacts
<1>2. /\ nextFreeMsgInQueue(h)
      /\ question' = [question EXCEPT ![h] = m]
      /\ UNCHANGED <<sndHead, sndTail, sndQueueSize, isSendingMsg, snd_seqs, recvQueue, waitFlag>>
  BY DEF Answer
<1>3. /\ PcType'
      /\ sndQueue' \in [Host -> [Slot -> Message]]
      /\ msg' \in [Host -> [main : Slot, sigio : Slot]]
      /\ \A g \in Host \ {h} : pc'[g] = pc[g]
      /\ pc'[h].main = pc[h].main /\ pc'[h].sigio \in {"fill", "crashed"}
  BY <1>1, <1>2, NextFreePoint
<1>4. question' \in [Host -> Message]
  BY <1>2 DEF NetInv, TypeOK
<1>5. TypeOK'
  BY <1>1, <1>2, <1>3, <1>4 DEF NetInv, TypeOK, PcType
<1>6. \A g \in Host : OneLoops(g)'
  BY <1>1, <1>2, <1>3 DEF NetInv, OneLoops, LoopPoints
<1>7. \A g \in Host : HasWork(g)'
  BY <1>1, <1>2, <1>3 DEF NetInv, HasWork
<1> QED BY <1>1, <1>5, <1>6, <1>7 DEF NetInv

(* A handler that sends nothing. *)
LEMMA NoAnswerNet ==
  ASSUME NetInv, NEW h \in Host, NEW c, Dispatching(h, c), NoAnswer(h),
         lockFree' \in [Host -> BOOLEAN], waiters' \in [Host -> Seq(Message)],
         waitFlag' \in [Host -> {0, 1}]
  PROVE  NetInv'
<1>1. /\ pc[h].sigio = "dispatch" /\ Tail(recvQueue[h]) \in Seq(Message)
      /\ UNCHANGED <<data, acks, pending, retryNum, todo>>
  BY DispatchingFacts
<1>2. recvQueue' = [recvQueue EXCEPT ![h] = Tail(@)] /\ UNCHANGED <<queueVars, question, pc>>
  BY DEF NoAnswer
<1>3. /\ recvQueue' \in [Host -> Seq(Message)]
      /\ \A g \in Host \ {h} : recvQueue'[g] = recvQueue[g]
  BY <1>1, <1>2 DEF NetInv, TypeOK
<1>4. TypeOK'
  BY <1>1, <1>2, <1>3 DEF NetInv, TypeOK, queueVars
<1>5. \A g \in Host : OneLoops(g)'
  BY <1>2 DEF NetInv, OneLoops, queueVars
<1>6. \A g \in Host : HasWork(g)'
  BY <1>1, <1>2, <1>3 DEF NetInv, HasWork
<1> QED BY <1>1, <1>4, <1>5, <1>6 DEF NetInv

LEMMA HandlersNet ==
  ASSUME NetInv, NEW h \in Host,
         \/ HandleTest(h) \/ HandleFetch(h) \/ HandleAcquire(h)
         \/ HandleRelease(h) \/ HandleGrant(h)
  PROVE  NetInv'
<1>0. /\ lockFree \in [Host -> BOOLEAN] /\ waiters \in [Host -> Seq(Message)]
      /\ waitFlag \in [Host -> {0, 1}]
  BY DEF NetInv, TypeOK
<1>1. CASE HandleTest(h)
  BY <1>0, <1>1, NoAnswerNet DEF HandleTest
<1>2. CASE HandleFetch(h)
  <2>1. Dispatching(h, "FETCH") /\ Answer(h, Head(recvQueue[h])) /\ UNCHANGED <<lockFree, waiters>>
    BY <1>2 DEF HandleFetch
  <2>2. Head(recvQueue[h]) \in Message
    BY <2>1, DispatchingFacts
  <2> QED BY <1>0, <2>1, <2>2, AnswerNet
<1>3. CASE HandleAcquire(h)
  <2>1. Dispatching(h, "ACQ") /\ lockFree' = [lockFree EXCEPT ![h] = FALSE]
    BY <1>3 DEF HandleAcquire
  <2>2. Head(recvQueue[h]) \in Message
    BY <2>1, DispatchingFacts
  <2>3. lockFree' \in [Host -> BOOLEAN]
    BY <1>0, <2>1
  <2>4. CASE lockFree[h]
    BY <1>0, <1>3, <2>1, <2>2, <2>3, <2>4, AnswerNet DEF HandleAcquire
  <2>5. CASE ~lockFree[h]
    <3>1. /\ waiters' = [waiters EXCEPT ![h] = Append(@, Head(recvQueue[h]))]
          /\ NoAnswer(h) /\ waitFlag' = waitFlag
      BY <1>3, <2>5 DEF HandleAcquire
    <3>2. Append(waiters[h], Head(recvQueue[h])) \in Seq(Message)
      BY <1>0, <2>2, AppendProperties
    <3>3. waiters' \in [Host -> Seq(Message)]
      BY <1>0, <3>1, <3>2
    <3> QED BY <1>0, <2>1, <2>3, <3>1, <3>3, NoAnswerNet
  <2> QED BY <2>4, <2>5
<1>4. CASE HandleRelease(h)
  <2>1. /\ Dispatching(h, "RLS")
        /\ waiters' = [waiters EXCEPT ![h] = IF @ = << >> THEN @ ELSE Tail(@)]
        /\ lockFree' = [lockFree EXCEPT ![h] = waiters[h] = << >>]
    BY <1>4 DEF HandleRelease
  <2>2. lockFree' \in [Host -> BOOLEAN]
    BY <1>0, <2>1
  <2>3. CASE waiters[h] # << >>
    <3>1. Head(waiters[h]) \in Message /\ Tail(waiters[h]) \in Seq(Message)
      BY <1>0, <2>3, HeadTailProperties
    <3>2. waiters' \in [Host -> Seq(Message)]
      BY <1>0, <2>1, <3>1
    <3>3. Answer(h, Head(waiters[h]))
      BY <1>4, <2>3 DEF HandleRelease
    <3> QED BY <2>1, <2>2, <3>1, <3>2, <3>3, AnswerNet
  <2>4. CASE waiters[h] = << >>
    <3>1. waiters' \in [Host -> Seq(Message)]
      BY <1>0, <2>1, <2>4
    <3>2. NoAnswer(h) /\ waitFlag' = waitFlag
      BY <1>4, <2>4 DEF HandleRelease
    <3> QED BY <1>0, <2>1, <2>2, <3>1, <3>2, NoAnswerNet
  <2> QED BY <2>3, <2>4
<1>5. CASE HandleGrant(h)
  <2>1. /\ Dispatching(h, "GRANT") /\ NoAnswer(h)
        /\ waitFlag' = [waitFlag EXCEPT ![h] = 0] /\ UNCHANGED <<lockFree, waiters>>
    BY <1>5 DEF HandleGrant
  <2>2. waitFlag' \in [Host -> {0, 1}]
    BY <1>0, <2>1
  <2> QED BY <1>0, <2>1, <2>2, NoAnswerNet
<1> QED BY <1>1, <1>2, <1>3, <1>4, <1>5

LEMMA HandlerEndsNet ==
  ASSUME NetInv, NEW h \in Host, HandlerEnds(h)
  PROVE  NetInv'
<1>1. /\ pc[h].sigio = "dispatch" /\ pc' = [pc EXCEPT ![h].sigio = "idle"]
      /\ PcType
  BY DEF HandlerEnds, NetInv, TypeOK, PcType
<1>2. /\ PcType'
      /\ \A g \in Host \ {h} : pc'[g] = pc[g]
      /\ pc'[h].main = pc[h].main /\ pc'[h].sigio = "idle"
  BY <1>1 DEF PcType, HandlerPoints
<1>3. TypeOK'
  BY <1>2 DEF NetInv, TypeOK, HandlerEnds, queueVars, netVars, lockVars, PcType
<1>4. \A g \in Host : OneLoops(g)'
  BY <1>1, <1>2 DEF NetInv, OneLoops, LoopPoints, HandlerEnds, queueVars
<1>5. \A g \in Host : HasWork(g)'
  BY <1>1, <1>2 DEF NetInv, HasWork, HandlerEnds
<1> QED BY <1>3, <1>4, <1>5 DEF NetInv, HandlerEnds

LEMMA InterruptNet ==
  ASSUME NetInv, NEW h \in Host, Interrupt(h)
  PROVE  NetInv'
<1>0. /\ PcType /\ recvQueue \in [Host -> Seq(Message)]
      /\ data \in [Host -> [Host -> Seq(Message)]] /\ acks \in [Host -> [Host -> Seq(Int)]]
      /\ pending \in [Host -> BOOLEAN]
  BY DEF NetInv, TypeOK, PcType
<1> DEFINE from == Readable(h)
<1>1. PICK peers \in InOrder(from), lost \in SUBSET from :
        /\ recvQueue' = [recvQueue EXCEPT ![h] =
                           [i \in DOMAIN peers |-> Head(data[peers[i]][h])]]
        /\ acks' = [acks EXCEPT ![h] =
                      [f \in Host |-> IF f \in from \ lost
                                      THEN Append(acks[h][f], Head(data[f][h]).seqno)
                                      ELSE acks[h][f]]]
        /\ data' = [f \in Host |-> IF f \in from THEN [data[f] EXCEPT ![h] = Tail(@)]
                                   ELSE data[f]]
  BY DEF Interrupt
<1>2. \A f \in from : f \in Host /\ data[f][h] # << >>
  BY DEF Readable
<1> HIDE DEF from
<1>3. \A f \in from : /\ Head(data[f][h]) \in Message /\ Head(data[f][h]).seqno \in Int
                      /\ Tail(data[f][h]) \in Seq(Message)
  <2> SUFFICES ASSUME NEW f \in from
               PROVE  /\ Head(data[f][h]) \in Message /\ Head(data[f][h]).seqno \in Int
                      /\ Tail(data[f][h]) \in Seq(Message)
    OBVIOUS
  <2>1. data[f][h] \in Seq(Message) /\ data[f][h] # << >>
    BY <1>0, <1>2
  <2>2. Head(data[f][h]) \in Message /\ Tail(data[f][h]) \in Seq(Message)
    BY <2>1, HeadTailProperties
  <2> QED BY <2>2, MessageForms
<1>4. recvQueue' \in [Host -> Seq(Message)]
  <2> DEFINE taken == [i \in DOMAIN peers |-> Head(data[peers[i]][h])]
  <2>1. taken \in Seq(Message)
    <3>1. peers \in [1 .. Cardinality(from) -> from]
      BY DEF InOrder
    <3>2. Cardinality(from) \in Nat
      <4>1. IsFiniteSet(Host)
        BY FS_Interval, HostNumAssumption DEF Host
      <4>2. from \subseteq Host
        BY <1>2
      <4> QED BY <4>1, <4>2, FS_Subset, FS_CardinalityType
    <3>3. taken \in [1 .. Cardinality(from) -> Message]
      BY <3>1, <1>3
    <3> QED BY <3>2, <3>3, IsASeq
  <2>2. recvQueue' = [recvQueue EXCEPT ![h] = taken]
    BY <1>1
  <2> HIDE DEF taken
  <2> QED BY <1>0, <2>1, <2>2
<1>5. acks' \in [Host -> [Host -> Seq(Int)]]
  <2> DEFINE more == [f \in Host |-> IF f \in from \ lost
                                     THEN Append(acks[h][f], Head(data[f][h]).seqno)
                                     ELSE acks[h][f]]
  <2>1. \A f \in from : Append(acks[h][f], Head(data[f][h]).seqno) \in Seq(Int)
    BY <1>0, <1>2, <1>3, AppendProperties
  <2>2. more \in [Host -> Seq(Int)]
    BY <1>0, <2>1
  <2>3. acks' = [acks EXCEPT ![h] = more]
    BY <1>1
  <2> HIDE DEF more
  <2> QED BY <1>0, <2>2, <2>3
<1>6. data' \in [Host -> [Host -> Seq(Message)]]
  <2>1. \A f \in from : [data[f] EXCEPT ![h] = Tail(@)] \in [Host -> Seq(Message)]
    BY <1>0, <1>2, <1>3
  <2> QED BY <1>0, <1>1, <2>1
<1>7. /\ pending' \in [Host -> BOOLEAN]
      /\ UNCHANGED <<queueVars, lockVars, waitFlag, retryNum, todo>>
      /\ pc[h].sigio = "idle" /\ pc' = [pc EXCEPT ![h].sigio = "dispatch"]
      /\ \A g \in Host \ {h} : recvQueue'[g] = recvQueue[g]
  BY <1>0, <1>1 DEF Interrupt, Interruptible
<1>8. /\ PcType'
      /\ \A g \in Host \ {h} : pc'[g] = pc[g]
      /\ pc'[h].main = pc[h].main /\ pc'[h].sigio = "dispatch"
  BY <1>0, <1>7 DEF PcType, HandlerPoints
<1>9. TypeOK'
  BY <1>4, <1>5, <1>6, <1>7, <1>8 DEF NetInv, TypeOK, queueVars, lockVars, PcType
<1>10. \A g \in Host : OneLoops(g)'
  BY <1>7, <1>8 DEF NetInv, OneLoops, LoopPoints, queueVars
<1>11. \A g \in Host : HasWork(g)'
  BY <1>7, <1>8 DEF NetInv, HasWork
<1> QED BY <1>7, <1>9, <1>10, <1>11 DEF NetInv

LEMMA InitNet == Init => NetInv
<1> SUFFICES ASSUME Init PROVE NetInv
  OBVIOUS
<1>1. 0 \in Slot
  BY QueueAssumption DEF Slot
<1>2. PerPair(0) \in [Host -> [Host -> Nat]] /\ PerPair(<< >>) \in [Host -> [Host -> Seq(Message)]]
      /\ PerPair(<< >>) \in [Host -> [Host -> Seq(Int)]]
  BY EmptySeq DEF PerPair
<1>3. /\ sndQueue \in [Host -> [Slot -> Message]] /\ question \in [Host -> Message]
  BY MessageForms DEF Init
<1>4. /\ recvQueue \in [Host -> Seq(Message)] /\ waiters \in [Host -> Seq(Message)]
  BY EmptySeq DEF Init
<1>5. /\ sndHead \in [Host -> Slot] /\ sndTail \in [Host -> Slot]
      /\ msg \in [Host -> [main : Slot, sigio : Slot]]
  BY <1>1 DEF Init
<1>6. /\ sndQueueSize \in [Host -> 0 .. MAX_QUEUE_SIZE]
      /\ retryNum \in [Host -> 0 .. MAX_RETRY_NUM - 1]
  BY QueueAssumption, RetryAssumption DEF Init
<1>7. pc \in [Host -> [main : Points, sigio : HandlerPoints]]
  BY DEF Init, Points, HandlerPoints
<1>8. TypeOK
  BY <1>2, <1>3, <1>4, <1>5, <1>6, <1>7 DEF Init, TypeOK
<1>9. todo \in [Host -> Seq(Op)]
  BY ProgramAssumption DEF Init, Op
<1>10. \A h \in Host : OneLoops(h) /\ HasWork(h)
  BY DEF Init, OneLoops, HasWork, LoopPoints
<1> QED BY <1>8, <1>9, <1>10 DEF NetInv

LEMMA NextNet == NetInv /\ [Next]_vars => NetInv'
<1> SUFFICES ASSUME NetInv, [Next]_vars PROVE NetInv'
  OBVIOUS
<1>1. CASE UNCHANGED vars
  BY <1>1 DEF NetInv, TypeOK, OneLoops, HasWork, vars, queueVars, netVars, lockVars
<1>2. CASE Next
  <2> PICK h \in Host : Step(h) \/ Interrupt(h)
    BY <1>2 DEF Next
  <2> QED BY BeginNet, FillNet, SendNet, CountNet, SetSendingNet, TransmitNet, ReadAckNet,
             DropAckedNet, TimeoutNet, UnsetNet, WakeNet, HandlersNet, HandlerEndsNet, InterruptNet DEF Step
<1> QED BY <1>1, <1>2

(* Every variable of the message layer keeps its type, at whatever points   *)
(* SIGIO is open: in particular sendMsg never calls msgDequeue(0) with an   *)
(* empty queue, so that the -2 it returns then, which nobody looks at, does *)
(* not come up, and every index stays within sndQueue.                      *)
THEOREM TypeCorrect == Spec => []TypeOK
<1>1. Spec => []NetInv
  BY InitNet, NextNet, PTL DEF Spec
<1>2. NetInv => TypeOK
  BY DEF NetInv
<1> QED BY <1>1, <1>2, PTL

-----------------------------------------------------------------------------
(* With SIGIO masked between two accesses to the queue *)

Masked == SigioPoints = {}

(* No thread of h is in the loop of sendMsg or about to enter it. *)
Outside(h) == /\ pc[h].main \in {"app", "fill", "send", "count", "wait"}
              /\ pc[h].sigio \in {"idle", "dispatch", "fill", "send", "count"}

(* Outside the loop nothing waits in the queue, and nothing does when the   *)
(* loop ends.                                                               *)
Quiet(h) ==
  /\ pc[h].main # "crashed"
  /\ pc[h].sigio # "idle" => pc[h].main \notin RacePoints
  /\ Outside(h) => sndQueueSize[h] = 0 /\ isSendingMsg[h] = 0
  /\ pc[h].main = "unset" \/ pc[h].sigio = "unset" => sndQueueSize[h] = 0

(* What the program and the handler of h compose. *)
OfMain(h) == [from |-> h, to |-> Head(todo[h]).to, command |-> Head(todo[h]).command,
              seqno |-> -1, body |-> <<h, Len(todo[h])>>]
OfSigio(h) == [from |-> h, to |-> question[h].from, command |-> "GRANT",
               seqno |-> -1, body |-> question[h].body]

(* The slot a thread was given is the one at sndTail, and holds what the    *)
(* thread has put there.                                                    *)
Mine(h) ==
  /\ pc[h].main \in {"fill", "send"} => msg[h].main = sndTail[h]
  /\ pc[h].main = "send" => sndQueue[h][sndTail[h]] = OfMain(h)
  /\ pc[h].sigio \in {"fill", "send"} => msg[h].sigio = sndTail[h]
  /\ pc[h].sigio = "send" => sndQueue[h][sndTail[h]] = OfSigio(h)

MaskInv == \A h \in Host : Quiet(h) /\ Mine(h)

(* A host that does not move keeps its part of the invariant. *)
LEMMA StillMask ==
  ASSUME NEW g \in Host, Quiet(g), Mine(g),
         pc'[g] = pc[g], sndQueueSize'[g] = sndQueueSize[g], isSendingMsg'[g] = isSendingMsg[g],
         msg'[g] = msg[g], sndTail'[g] = sndTail[g], sndQueue'[g] = sndQueue[g],
         todo'[g] = todo[g], question'[g] = question[g]
  PROVE  Quiet(g)' /\ Mine(g)'
  BY DEF Quiet, Mine, Outside, OfMain, OfSigio

LEMMA NoSlotMask ==
  ASSUME NEW h \in Host,
         pc'[h].main \notin {"fill", "send"}, pc'[h].sigio \notin {"fill", "send"}
  PROVE  Mine(h)'
  BY DEF Mine

(* A thread takes a slot. *)
LEMMA NextFreeMask ==
  ASSUME NetInv, MaskInv, NEW h \in Host, nextFreeMsgInQueue(h),
         \/ pc[h].sigio = "idle" /\ pc[h].main = "app"
         \/ pc[h].sigio = "dispatch",
         UNCHANGED <<sndTail, sndQueueSize, isSendingMsg, todo>>,
         \A g \in Host \ {h} : question'[g] = question[g]
  PROVE  MaskInv'
<1>0. /\ PcType /\ sndQueueSize \in [Host -> 0 .. MAX_QUEUE_SIZE]
      /\ msg \in [Host -> [main : Slot, sigio : Slot]]
      /\ sndQueue \in [Host -> [Slot -> Message]] /\ sndTail \in [Host -> Slot]
  BY DEF NetInv, TypeOK, PcType
<1>1. /\ PcType'
      /\ \A g \in Host \ {h} : pc'[g] = pc[g]
      /\ pc[h].sigio = "idle" => pc'[h].main \in {"fill", "crashed"} /\ pc'[h].sigio = "idle"
      /\ pc[h].sigio # "idle" => pc'[h].main = pc[h].main /\ pc'[h].sigio \in {"fill", "crashed"}
  BY NextFreePoint
<1>2. \A g \in Host \ {h} : Quiet(g)' /\ Mine(g)'
  <2>1. \A g \in Host \ {h} : msg'[g] = msg[g] /\ sndQueue'[g] = sndQueue[g]
    BY <1>0 DEF nextFreeMsgInQueue
  <2> QED BY <1>1, <2>1, StillMask DEF MaskInv
<1>3. Quiet(h)
  BY DEF MaskInv
<1>4. CASE sndQueueSize[h] = MAX_QUEUE_SIZE
  <2>1. sndQueueSize[h] # 0
    BY <1>4, QueueAssumption
  <2>2. ~Outside(h)
    BY <1>3, <2>1 DEF Quiet
  <2>3. pc[h].sigio = "dispatch" /\ pc[h].main \notin {"app", "fill", "send", "count", "wait"}
    BY <2>2 DEF Outside
  <2>4. Quiet(h)'
    BY <1>1, <1>3, <2>3 DEF Quiet, Outside
  <2>5. pc'[h].sigio = "crashed"
    <3>1. Goto(h, "crashed")
      BY <1>4 DEF nextFreeMsgInQueue
    <3> QED BY <1>0, <2>3, <3>1, GotoPoint DEF HandlerPoints
  <2>6. Mine(h)'
    BY <1>1, <2>3, <2>5, NoSlotMask
  <2> QED BY <1>2, <2>4, <2>6 DEF MaskInv
<1>5. CASE sndQueueSize[h] # MAX_QUEUE_SIZE
  <2>1. Goto(h, "fill") /\ msg' = [msg EXCEPT ![h][Running(h)] = sndTail[h]]
    BY <1>5 DEF nextFreeMsgInQueue
  <2>2. /\ pc[h].sigio = "idle" => pc'[h].main = "fill" /\ pc'[h].sigio = "idle"
        /\ pc[h].sigio # "idle" => pc'[h].main = pc[h].main /\ pc'[h].sigio = "fill"
    BY <1>0, <2>1, GotoPoint DEF Points, HandlerPoints, RacePoints
  <2>3. /\ pc[h].sigio = "idle" => msg'[h].main = sndTail[h]
        /\ pc[h].sigio # "idle" => msg'[h].sigio = sndTail[h]
    BY <1>0, <2>1 DEF Running
  <2>4. Quiet(h)'
    BY <1>3, <2>2 DEF Quiet, Outside, RacePoints
  <2>5. Mine(h)'
    BY <1>3, <2>2, <2>3 DEF Mine, Quiet, RacePoints
  <2> QED BY <1>2, <2>4, <2>5 DEF MaskInv
<1> QED BY <1>4, <1>5

(* sendMsg returns. *)
LEMMA ReturnMask ==
  ASSUME NetInv, MaskInv, NEW h \in Host, Return(h),
         pc[h].sigio = "idle" => pc[h].main \notin {"app", "crashed"},
         pc[h].sigio # "dispatch",
         pc[h].sigio = "idle" => sndQueueSize'[h] = 0 /\ isSendingMsg'[h] = 0,
         pc[h].sigio # "idle" /\ pc[h].main \in {"app", "wait"} =>
           sndQueueSize'[h] = 0 /\ isSendingMsg'[h] = 0,
         UNCHANGED <<sndQueue, sndTail, msg, question>>,
         \A g \in Host \ {h} : /\ sndQueueSize'[g] = sndQueueSize[g]
                               /\ isSendingMsg'[g] = isSendingMsg[g]
  PROVE  MaskInv'
<1>0. PcType
  BY DEF NetInv, TypeOK, PcType
<1>1. /\ \A g \in Host \ {h} : pc'[g] = pc[g]
      /\ pc[h].sigio = "idle" => pc'[h].main \in {"app", "wait"} /\ pc'[h].sigio = "idle"
      /\ pc[h].sigio # "idle" => pc'[h].main = pc[h].main /\ pc'[h].sigio = "dispatch"
  BY ReturnPoint
<1>2. \A g \in Host \ {h} : todo'[g] = todo[g]
  <2>1. todo \in [Host -> Seq(Op)]
    BY DEF NetInv
  <2> QED BY <2>1 DEF Return
<1>3. \A g \in Host \ {h} : Quiet(g)' /\ Mine(g)'
  BY <1>1, <1>2, StillMask DEF MaskInv
<1>4. Quiet(h)
  BY DEF MaskInv
<1>5. Quiet(h)'
  BY <1>1, <1>4 DEF Quiet, Outside, RacePoints
<1>6. Mine(h)'
  BY <1>1, <1>4, NoSlotMask DEF Quiet, RacePoints
<1> QED BY <1>3, <1>5, <1>6 DEF MaskInv

LEMMA FillMask ==
  ASSUME NetInv, MaskInv, NEW h \in Host, Fill(h)
  PROVE  MaskInv'
<1>0. /\ PcType /\ sndQueue \in [Host -> [Slot -> Message]] /\ sndTail \in [Host -> Slot]
  BY DEF NetInv, TypeOK, PcType
<1>1. \/ pc[h].sigio = "idle" /\ pc[h].main = "fill"
      \/ pc[h].sigio = "fill"
  BY <1>0, AtPoint DEF Fill
<1>2. /\ \A g \in Host \ {h} : pc'[g] = pc[g]
      /\ pc[h].sigio = "idle" => pc'[h].main = "send" /\ pc'[h].sigio = "idle"
      /\ pc[h].sigio # "idle" => pc'[h].main = pc[h].main /\ pc'[h].sigio = "send"
  BY <1>0, GotoPoint DEF Fill, Points, HandlerPoints, RacePoints
<1>3. /\ UNCHANGED <<sndTail, sndQueueSize, isSendingMsg, msg, todo, question>>
      /\ sndQueue' = [sndQueue EXCEPT ![h][msg[h][Running(h)]] = Composed(h)]
  BY DEF Fill, lockVars
<1>4. \A g \in Host \ {h} : Quiet(g)' /\ Mine(g)'
  <2>1. \A g \in Host \ {h} : sndQueue'[g] = sndQueue[g]
    BY <1>0, <1>3
  <2> QED BY <1>2, <1>3, <2>1, StillMask DEF MaskInv
<1>5. Quiet(h) /\ Mine(h)
  BY DEF MaskInv
<1>6. Quiet(h)'
  BY <1>1, <1>2, <1>3, <1>5 DEF Quiet, Outside, RacePoints
<1>7. Mine(h)'
  <2>1. CASE pc[h].sigio = "idle"
    <3>1. msg[h][Running(h)] = sndTail[h] /\ Composed(h) = OfMain(h)
      BY <1>1, <1>5, <2>1 DEF Mine, Running, Composed, OfMain
    <3>2. sndQueue'[h][sndTail[h]] = OfMain(h)
      BY <1>0, <1>3, <3>1
    <3>3. OfMain(h)' = OfMain(h)
      BY <1>3 DEF OfMain
    <3> QED BY <1>1, <1>2, <1>3, <1>5, <2>1, <3>2, <3>3 DEF Mine
  <2>2. CASE pc[h].sigio # "idle"
    <3>1. msg[h][Running(h)] = sndTail[h] /\ Composed(h) = OfSigio(h)
      BY <1>1, <1>5, <2>2 DEF Mine, Running, Composed, OfSigio
    <3>2. sndQueue'[h][sndTail[h]] = OfSigio(h)
      BY <1>0, <1>3, <3>1
    <3>3. OfSigio(h)' = OfSigio(h)
      BY <1>3 DEF OfSigio
    <3>4. pc'[h].main \notin {"fill", "send"}
      BY <1>2, <1>5, <2>2 DEF Quiet, RacePoints
    <3> QED BY <1>1, <1>2, <1>3, <1>5, <2>2, <3>2, <3>3, <3>4 DEF Mine
  <2> QED BY <2>1, <2>2
<1> QED BY <1>4, <1>6, <1>7 DEF MaskInv

LEMMA SendMask ==
  ASSUME NetInv, MaskInv, NEW h \in Host, Send(h)
  PROVE  MaskInv'
<1>0. /\ PcType /\ sndQueue \in [Host -> [Slot -> Message]] /\ sndTail \in [Host -> Slot]
  BY DEF NetInv, TypeOK, PcType
<1>1. \/ pc[h].sigio = "idle" /\ pc[h].main = "send"
      \/ pc[h].sigio = "send"
  BY <1>0, AtPoint DEF Send
<1>2. UNCHANGED <<sndQueueSize, isSendingMsg, msg, question>>
  BY DEF Send, lockVars
<1>3. Quiet(h)
  BY DEF MaskInv
<1>4. pc[h].sigio = "idle" \/ pc[h].main \in {"app", "wait"} =>
        sndQueueSize[h] = 0 /\ isSendingMsg[h] = 0
  BY <1>1, <1>3 DEF Quiet, Outside
<1>5. CASE Return(h) /\ UNCHANGED <<sndQueue, sndTail>>
  BY <1>1, <1>2, <1>4, <1>5, ReturnMask
<1>6. CASE ~(Return(h) /\ UNCHANGED <<sndQueue, sndTail>>)
  <2>1. /\ Goto(h, "count") /\ todo' = todo
        /\ \A g \in Host \ {h} : sndQueue'[g] = sndQueue[g] /\ sndTail'[g] = sndTail[g]
    BY <1>0, <1>6 DEF Send
  <2>2. /\ \A g \in Host \ {h} : pc'[g] = pc[g]
        /\ pc[h].sigio = "idle" => pc'[h].main = "count" /\ pc'[h].sigio = "idle"
        /\ pc[h].sigio # "idle" => pc'[h].main = pc[h].main /\ pc'[h].sigio = "count"
    BY <1>0, <2>1, GotoPoint DEF Points, HandlerPoints, RacePoints
  <2>3. \A g \in Host \ {h} : Quiet(g)' /\ Mine(g)'
    BY <1>2, <2>1, <2>2, StillMask DEF MaskInv
  <2>4. Quiet(h)'
    BY <1>1, <1>2, <1>3, <2>2 DEF Quiet, Outside, RacePoints
  <2>5. Mine(h)'
    BY <1>3, <2>2, NoSlotMask DEF Quiet, RacePoints
  <2> QED BY <2>3, <2>4, <2>5 DEF MaskInv
<1> QED BY <1>5, <1>6

LEMMA CountMask ==
  ASSUME NetInv, MaskInv, NEW h \in Host, Count(h)
  PROVE  MaskInv'
<1>0. PcType /\ sndQueueSize \in [Host -> 0 .. MAX_QUEUE_SIZE]
  BY DEF NetInv, TypeOK, PcType
<1>1. \/ pc[h].sigio = "idle" /\ pc[h].main = "count"
      \/ pc[h].sigio = "count"
  BY <1>0, AtPoint DEF Count
<1>2. /\ UNCHANGED <<sndQueue, sndTail, isSendingMsg, msg, question>>
      /\ \A g \in Host \ {h} : sndQueueSize'[g] = sndQueueSize[g]
  BY <1>0 DEF Count, lockVars
<1>3. Quiet(h)
  BY DEF MaskInv
<1>4. CASE isSendingMsg[h] = 1
  <2>1. Return(h)
    BY <1>4 DEF Count
  <2>2. ~Outside(h)
    BY <1>3, <1>4 DEF Quiet
  <2>3. pc[h].sigio # "idle" /\ pc[h].main \notin {"app", "wait"}
    BY <1>1, <2>2 DEF Outside
  <2> QED BY <1>1, <1>2, <2>1, <2>3, ReturnMask
<1>5. CASE isSendingMsg[h] # 1
  <2>1. Goto(h, "set") /\ todo' = todo
    BY <1>5 DEF Count
  <2>2. /\ \A g \in Host \ {h} : pc'[g] = pc[g]
        /\ pc[h].sigio = "idle" => pc'[h].main = "set" /\ pc'[h].sigio = "idle"
        /\ pc[h].sigio # "idle" => pc'[h].main = pc[h].main /\ pc'[h].sigio = "set"
    BY <1>0, <2>1, GotoPoint DEF Points, HandlerPoints, RacePoints
  <2>3. \A g \in Host \ {h} : Quiet(g)' /\ Mine(g)'
    BY <1>2, <2>1, <2>2, StillMask DEF MaskInv
  <2>4. Quiet(h)'
    BY <1>1, <1>3, <2>2 DEF Quiet, Outside, RacePoints
  <2>5. Mine(h)'
    BY <1>3, <2>2, NoSlotMask DEF Quiet, RacePoints
  <2> QED BY <2>3, <2>4, <2>5 DEF MaskInv
<1> QED BY <1>4, <1>5

(* The loop of sendMsg: it goes on, or ends with an empty queue. *)
LEMMA LoopMask ==
  ASSUME NetInv, MaskInv, NEW h \in Host, NEW p \in {"transmit", "await", "acked", "unset"},
         Goto(h, p), p = "unset" => sndQueueSize'[h] = 0,
         \/ pc[h].sigio = "idle" /\ pc[h].main \in {"set", "transmit", "await", "acked"}
         \/ pc[h].sigio \in {"set", "transmit", "await", "acked"},
         UNCHANGED <<sndQueue, sndTail, msg, question, todo>>,
         \A g \in Host \ {h} : /\ sndQueueSize'[g] = sndQueueSize[g]
                               /\ isSendingMsg'[g] = isSendingMsg[g]
  PROVE  MaskInv'
<1>0. PcType
  BY DEF NetInv, TypeOK, PcType
<1>1. /\ \A g \in Host \ {h} : pc'[g] = pc[g]
      /\ pc[h].sigio = "idle" => pc'[h].main = p /\ pc'[h].sigio = "idle"
      /\ pc[h].sigio # "idle" => pc'[h].main = pc[h].main /\ pc'[h].sigio = p
  BY <1>0, GotoPoint DEF Points, HandlerPoints, RacePoints
<1>2. \A g \in Host \ {h} : Quiet(g)' /\ Mine(g)'
  BY <1>1, StillMask DEF MaskInv
<1>3. Quiet(h)
  BY DEF MaskInv
<1>4. Quiet(h)'
  BY <1>1, <1>3 DEF Quiet, Outside, RacePoints
<1>5. Mine(h)'
  BY <1>1, <1>3, NoSlotMask DEF Quiet, RacePoints
<1> QED BY <1>2, <1>4, <1>5 DEF MaskInv

LEMMA LoopStepsMask ==
  ASSUME NetInv, MaskInv, NEW h \in Host,
         SetSending(h) \/ Transmit(h) \/ ReadAck(h) \/ DropAcked(h) \/ Timeout(h)
  PROVE  MaskInv'
<1>0. /\ PcType /\ sndQueueSize \in [Host -> 0 .. MAX_QUEUE_SIZE]
      /\ isSendingMsg \in [Host -> {0, 1}]
  BY DEF NetInv, TypeOK, PcType
<1>1. CASE SetSending(h)
  <2>1. \/ pc[h].sigio = "idle" /\ pc[h].main = "set"
        \/ pc[h].sigio = "set"
    BY <1>0, <1>1, AtPoint DEF SetSending
  <2>2. /\ UNCHANGED <<sndQueue, sndTail, sndQueueSize, msg, question, todo>>
        /\ isSendingMsg' = [isSendingMsg EXCEPT ![h] = 1]
    BY <1>1 DEF SetSending, lockVars
  <2> DEFINE p == IF sndQueueSize[h] > 0 THEN "transmit" ELSE "unset"
  <2>3. Goto(h, p)
    BY <1>1 DEF SetSending, Loop
  <2>4. p \in {"transmit", "await", "acked", "unset"} /\ (p = "unset" => sndQueueSize'[h] = 0)
    BY <1>0, <2>2
  <2> HIDE DEF p
  <2>5. \A g \in Host \ {h} : isSendingMsg'[g] = isSendingMsg[g]
    BY <1>0, <2>2
  <2> QED BY <2>1, <2>2, <2>3, <2>4, <2>5, LoopMask
<1>2. CASE Transmit(h)
  <2>1. \/ pc[h].sigio = "idle" /\ pc[h].main = "transmit"
        \/ pc[h].sigio = "transmit"
    BY <1>0, <1>2, AtPoint DEF Transmit
  <2>2. /\ UNCHANGED <<sndQueue, sndTail, sndQueueSize, isSendingMsg, msg, question, todo>>
        /\ Goto(h, "await")
    BY <1>2 DEF Transmit, queueVars, lockVars
  <2> QED BY <2>1, <2>2, LoopMask
<1>3. ASSUME At(h, "await") \/ At(h, "acked"), Dequeue(h),
             UNCHANGED <<sndQueue, sndTail, isSendingMsg, msg, question, todo>>
      PROVE  MaskInv'
  <2>1. \/ pc[h].sigio = "idle" /\ pc[h].main \in {"await", "acked"}
        \/ pc[h].sigio \in {"await", "acked"}
    BY <1>0, <1>3, AtPoint
  <2>2. sndQueueSize[h] > 0
    BY <2>1 DEF NetInv, OneLoops
  <2>3. sndQueueSize' = [sndQueueSize EXCEPT ![h] = @ - 1]
    BY <1>3 DEF Dequeue
  <2> DEFINE p == IF sndQueueSize[h] - 1 > 0 THEN "transmit" ELSE "unset"
  <2>4. Goto(h, p)
    BY <1>3 DEF Dequeue, Loop
  <2>5. p \in {"transmit", "await", "acked", "unset"} /\ (p = "unset" => sndQueueSize'[h] = 0)
    BY <1>0, <2>2, <2>3
  <2> HIDE DEF p
  <2>6. \A g \in Host \ {h} : sndQueueSize'[g] = sndQueueSize[g]
    BY <1>0, <2>3
  <2> QED BY <1>3, <2>1, <2>4, <2>5, <2>6, LoopMask
<1>4. CASE ReadAck(h)
  <2>1. /\ At(h, "await")
        /\ UNCHANGED <<sndQueue, sndTail, sndQueueSize, isSendingMsg, msg, question, todo>>
        /\ Goto(h, "acked") \/ pc' = pc
    BY <1>4 DEF ReadAck, lockVars
  <2>2. CASE pc' = pc
    BY <2>1, <2>2, StillMask DEF MaskInv
  <2>3. CASE Goto(h, "acked")
    <3>1. \/ pc[h].sigio = "idle" /\ pc[h].main = "await"
          \/ pc[h].sigio = "await"
      BY <1>0, <2>1, AtPoint
    <3> QED BY <2>1, <2>3, <3>1, LoopMask
  <2> QED BY <2>1, <2>2, <2>3
<1>6. CASE DropAcked(h)
  <2>1. /\ At(h, "acked") /\ Dequeue(h)
        /\ UNCHANGED <<sndQueue, sndTail, isSendingMsg, msg, question, todo>>
    BY <1>6 DEF DropAcked, lockVars
  <2> QED BY <1>3, <2>1
<1>5. CASE Timeout(h)
  <2>1. /\ At(h, "await")
        /\ UNCHANGED <<sndQueue, sndTail, isSendingMsg, msg, question, todo>>
        /\ Dequeue(h) \/ (Goto(h, "transmit") /\ sndQueueSize' = sndQueueSize)
    <3>1. CASE retryNum[h] + 1 < MAX_RETRY_NUM
      BY <1>5, <3>1 DEF Timeout, RetryOnce, lockVars
    <3>2. CASE ~(retryNum[h] + 1 < MAX_RETRY_NUM)
      BY <1>5, <3>2 DEF Timeout, lockVars
    <3> QED BY <3>1, <3>2
  <2>2. CASE Goto(h, "transmit") /\ sndQueueSize' = sndQueueSize
    <3>1. \/ pc[h].sigio = "idle" /\ pc[h].main = "await"
          \/ pc[h].sigio = "await"
      BY <1>0, <2>1, AtPoint
    <3> QED BY <2>1, <2>2, <3>1, LoopMask
  <2> QED BY <1>3, <2>1, <2>2
<1> QED BY <1>1, <1>2, <1>4, <1>5, <1>6

LEMMA UnsetMask ==
  ASSUME NetInv, MaskInv, NEW h \in Host, Unset(h)
  PROVE  MaskInv'
<1>0. PcType /\ isSendingMsg \in [Host -> {0, 1}]
  BY DEF NetInv, TypeOK, PcType
<1>1. \/ pc[h].sigio = "idle" /\ pc[h].main = "unset"
      \/ pc[h].sigio = "unset"
  BY <1>0, AtPoint DEF Unset
<1>2. /\ Return(h) /\ UNCHANGED <<sndQueue, sndTail, sndQueueSize, msg, question>>
      /\ isSendingMsg' = [isSendingMsg EXCEPT ![h] = 0]
  BY DEF Unset, lockVars
<1>3. sndQueueSize[h] = 0
  BY <1>1 DEF MaskInv, Quiet
<1>4. isSendingMsg'[h] = 0 /\ \A g \in Host \ {h} : isSendingMsg'[g] = isSendingMsg[g]
  BY <1>0, <1>2
<1> QED BY <1>1, <1>2, <1>3, <1>4, ReturnMask

LEMMA WakeMask ==
  ASSUME NetInv, MaskInv, NEW h \in Host, Wake(h)
  PROVE  MaskInv'
<1>0. PcType /\ todo \in [Host -> Seq(Op)]
  BY DEF NetInv, TypeOK, PcType
<1>1. pc[h].sigio = "idle" /\ pc[h].main = "wait"
  BY <1>0, AtPoint DEF Wake, Running
<1>2. /\ \A g \in Host \ {h} : pc'[g] = pc[g]
      /\ pc'[h].main = "app" /\ pc'[h].sigio = "idle"
  BY <1>0, <1>1, GotoPoint DEF Wake, Points
<1>3. /\ UNCHANGED <<sndQueue, sndTail, sndQueueSize, isSendingMsg, msg, question>>
      /\ \A g \in Host \ {h} : todo'[g] = todo[g]
  BY <1>0 DEF Wake, queueVars, lockVars
<1>4. \A g \in Host \ {h} : Quiet(g)' /\ Mine(g)'
  BY <1>2, <1>3, StillMask DEF MaskInv
<1>5. Quiet(h)'
  BY <1>1, <1>2, <1>3 DEF MaskInv, Quiet, Outside
<1>6. Mine(h)'
  BY <1>2, NoSlotMask
<1> QED BY <1>4, <1>5, <1>6 DEF MaskInv

LEMMA HandlersMask ==
  ASSUME NetInv, MaskInv, NEW h \in Host,
         \/ HandleTest(h) \/ HandleFetch(h) \/ HandleAcquire(h)
         \/ HandleRelease(h) \/ HandleGrant(h)
  PROVE  MaskInv'
<1>1. ASSUME NEW c, Dispatching(h, c), NEW m, Answer(h, m)
      PROVE  MaskInv'
  <2>1. pc[h].sigio = "dispatch" /\ todo' = todo
    BY <1>1 DEF Dispatching
  <2>2. /\ nextFreeMsgInQueue(h) /\ UNCHANGED <<sndTail, sndQueueSize, isSendingMsg>>
        /\ \A g \in Host \ {h} : question'[g] = question[g]
    BY <1>1 DEF Answer, NetInv, TypeOK
  <2> QED BY <2>1, <2>2, NextFreeMask
<1>2. ASSUME NEW c, Dispatching(h, c), NoAnswer(h)
      PROVE  MaskInv'
  <2>1. UNCHANGED <<sndQueue, sndTail, sndQueueSize, isSendingMsg, msg, question, pc, todo>>
    BY <1>2 DEF Dispatching, NoAnswer, queueVars
  <2> QED BY <2>1, StillMask DEF MaskInv
<1>3. \/ \E c : Dispatching(h, c) /\ \E m : Answer(h, m)
      \/ \E c : Dispatching(h, c) /\ NoAnswer(h)
  BY DEF HandleTest, HandleFetch, HandleAcquire, HandleRelease, HandleGrant
<1> QED BY <1>1, <1>2, <1>3

LEMMA SigioMask ==
  ASSUME Masked, NetInv, MaskInv, NEW h \in Host, HandlerEnds(h) \/ Interrupt(h)
  PROVE  MaskInv'
<1>0. PcType
  BY DEF NetInv, TypeOK, PcType
<1>1. /\ UNCHANGED <<sndQueue, sndTail, sndQueueSize, isSendingMsg, msg, question, todo>>
      /\ \/ pc[h].sigio = "dispatch" /\ pc' = [pc EXCEPT ![h].sigio = "idle"]
         \/ /\ pc[h].sigio = "idle" /\ pc[h].main \notin RacePoints
            /\ pc' = [pc EXCEPT ![h].sigio = "dispatch"]
  BY DEF HandlerEnds, Interrupt, Interruptible, Masked, queueVars, lockVars
<1>2. /\ \A g \in Host \ {h} : pc'[g] = pc[g]
      /\ pc'[h].main = pc[h].main
      /\ \/ pc[h].sigio = "dispatch" /\ pc'[h].sigio = "idle"
         \/ pc[h].sigio = "idle" /\ pc[h].main \notin RacePoints /\ pc'[h].sigio = "dispatch"
  BY <1>0, <1>1 DEF PcType
<1>3. \A g \in Host \ {h} : Quiet(g)' /\ Mine(g)'
  BY <1>1, <1>2, StillMask DEF MaskInv
<1>4. Quiet(h)
  BY DEF MaskInv
<1>5. Quiet(h)'
  BY <1>1, <1>2, <1>4 DEF Quiet, Outside
<1>6. Mine(h)'
  BY <1>2, <1>4, NoSlotMask DEF Quiet, RacePoints
<1> QED BY <1>3, <1>5, <1>6 DEF MaskInv

LEMMA InitMask == Init => MaskInv
<1> SUFFICES ASSUME Init, NEW h \in Host PROVE Quiet(h) /\ Mine(h)
  BY DEF MaskInv
<1>1. pc[h].main = "app" /\ pc[h].sigio = "idle" /\ sndQueueSize[h] = 0 /\ isSendingMsg[h] = 0
  BY DEF Init
<1> QED BY <1>1 DEF Quiet, Mine

LEMMA NextMask ==
  ASSUME Masked, NetInv, MaskInv, [Next]_vars
  PROVE  MaskInv'
<1>1. CASE UNCHANGED vars
  <2>1. UNCHANGED <<sndQueue, sndTail, sndQueueSize, isSendingMsg, msg, question, todo, pc>>
    BY <1>1 DEF vars, queueVars, lockVars
  <2> QED BY <2>1, StillMask DEF MaskInv
<1>2. CASE Next
  <2> PICK h \in Host : Step(h) \/ Interrupt(h)
    BY <1>2 DEF Next
  <2>1. CASE Begin(h)
    <3>1. PcType
      BY DEF NetInv, TypeOK, PcType
    <3>2. pc[h].sigio = "idle" /\ pc[h].main = "app"
      BY <2>1, <3>1, AtPoint DEF Begin, Running
    <3> QED BY <2>1, <3>2, NextFreeMask DEF Begin, lockVars
  <2> QED BY <2>1, FillMask, SendMask, CountMask, LoopStepsMask, UnsetMask, WakeMask,
             HandlersMask, SigioMask DEF Step
<1> QED BY <1>1, <1>2

LEMMA InvariantMask == Masked /\ Spec => [](NetInv /\ MaskInv)
<1> SUFFICES ASSUME Masked PROVE Spec => [](NetInv /\ MaskInv)
  OBVIOUS
<1>1. Init => NetInv /\ MaskInv
  BY InitNet, InitMask
<1>2. NetInv /\ MaskInv /\ [Next]_vars => (NetInv /\ MaskInv)'
  BY NextNet, NextMask
<1> QED BY <1>1, <1>2, PTL DEF Spec

(* With SIGIO masked between two accesses to the queue, a program that is   *)
(* not inside sendMsg leaves nothing in its queue ("send all messages       *)
(* out"): neither a handler's answer nor its own message is stranded there, *)
(* whatever was lost and however many attempts it took.                     *)
THEOREM Drained == Masked /\ Spec => []QueueDrained
<1>1. ASSUME NetInv, MaskInv PROVE QueueDrained
  <2> SUFFICES ASSUME NEW h \in Host, Running(h) = "main",
                      pc[h].main \in {"app", "fill", "send", "wait"}
               PROVE  sndQueueSize[h] = 0
    BY DEF QueueDrained
  <2>1. Outside(h)
    BY DEF Running, Outside
  <2> QED BY <1>1, <2>1 DEF MaskInv, Quiet
<1>2. NetInv /\ MaskInv => QueueDrained
  BY <1>1
<1> QED BY <1>2, InvariantMask, PTL

(* With the same mask the slot that nextFreeMsgInQueue handed out, which    *)
(* stays at sndTail until msgEnqueue moves on, holds exactly what its       *)
(* caller wrote when sendMsg is called: no handler took the same slot.      *)
THEOREM SlotKept == Masked /\ Spec => []SlotStaysMine
<1>1. ASSUME NetInv, MaskInv PROVE SlotStaysMine
  <2> SUFFICES ASSUME NEW h \in Host, At(h, "send")
               PROVE  /\ msg[h][Running(h)] = sndTail[h]
                      /\ Label(sndQueue[h][sndTail[h]]) = Label(Composed(h))
    BY DEF SlotStaysMine
  <2>0. PcType
    BY <1>1 DEF NetInv, TypeOK, PcType
  <2>1. \/ pc[h].sigio = "idle" /\ pc[h].main = "send"
        \/ pc[h].sigio # "idle" /\ pc[h].sigio = "send"
    BY <2>0, AtPoint
  <2>2. Mine(h)
    BY <1>1 DEF MaskInv
  <2>3. CASE pc[h].sigio = "idle"
    <3>1. msg[h][Running(h)] = sndTail[h]
      BY <2>1, <2>2, <2>3 DEF Mine, Running
    <3>2. sndQueue[h][sndTail[h]] = Composed(h)
      BY <2>1, <2>2, <2>3 DEF Mine, Running, Composed, OfMain
    <3> QED BY <3>1, <3>2
  <2>4. CASE pc[h].sigio # "idle"
    <3>1. msg[h][Running(h)] = sndTail[h]
      BY <2>1, <2>2, <2>4 DEF Mine, Running
    <3>2. sndQueue[h][sndTail[h]] = Composed(h)
      BY <2>1, <2>2, <2>4 DEF Mine, Running, Composed, OfSigio
    <3> QED BY <3>1, <3>2
  <2> QED BY <2>3, <2>4
<1>2. NetInv /\ MaskInv => SlotStaysMine
  BY <1>1
<1> QED BY <1>2, InvariantMask, PTL

(* With the same mask nextFreeMsgInQueue never returns NULL to a program,   *)
(* even with a queue of a single slot: no caller of it tests the result.    *)
(* (The handler of a host may still find the queue full.)                   *)
THEOREM ProgramsRun == Masked /\ Spec => [](\A h \in Host : pc[h].main # "crashed")
<1>1. NetInv /\ MaskInv => \A h \in Host : pc[h].main # "crashed"
  BY DEF MaskInv, Quiet
<1> QED BY <1>1, InvariantMask, PTL

-----------------------------------------------------------------------------
(* The ring of messages to send, with SIGIO masked between two accesses *)

(* The number of slots from a on to b. *)
Ahead(a, b) == IF b >= a THEN b - a ELSE b - a + MAX_QUEUE_SIZE

(* msgEnqueue has moved sndTail and not yet counted the message. *)
Counting(h) == pc[h].main = "count" \/ pc[h].sigio = "count"
Filling(h) == {pc[h].main, pc[h].sigio} \cap {"fill", "send", "count"} # {}

(* The messages between sndHead and sndTail. *)
Appended(h) == IF Counting(h) THEN sndQueueSize[h] + 1 ELSE sndQueueSize[h]

(* sndTail is as far from sndHead as the messages counted say; they are of  *)
(* h and go to a host; and a slot is handed out only while one is left.     *)
RingOf(h) ==
  /\ Ahead(sndHead[h], sndTail[h]) = IF Appended(h) = MAX_QUEUE_SIZE THEN 0 ELSE Appended(h)
  /\ Filling(h) => sndQueueSize[h] < MAX_QUEUE_SIZE
  /\ \A s \in Slot : Ahead(sndHead[h], s) < Appended(h) =>
       sndQueue[h][s].from = h /\ sndQueue[h][s].to \in Host

RingInv == \A h \in Host : RingOf(h)

(* A thread in the loop of sendMsg that transmits or polls. *)
Polls(h) == {pc[h].main, pc[h].sigio} \cap {"transmit", "await"} # {}
Waits(h) == pc[h].main = "await" \/ pc[h].sigio = "await"

(* The next slot, without the remainder. *)
LEMMA NextInRing == \A s \in Slot : (s + 1) % MAX_QUEUE_SIZE = IF s + 1 = MAX_QUEUE_SIZE THEN 0 ELSE s + 1
  BY QueueAssumption DEF Slot

(* A step that leaves the heads of all the queues that are not empty. *)
TopsKept == \A g \in Host : sndQueueSize[g] > 0 => Top(g)' = Top(g)

(* A host whose ring does not change keeps its part. *)
LEMMA StillRing ==
  ASSUME RingInv, NEW h \in Host, Counting(h)' <=> Counting(h), Filling(h)' => Filling(h),
         sndQueue'[h] = sndQueue[h], sndHead'[h] = sndHead[h], sndTail'[h] = sndTail[h],
         sndQueueSize'[h] = sndQueueSize[h]
  PROVE  RingOf(h)'
<1>1. RingOf(h)
  BY DEF RingInv
<1>2. Appended(h)' = Appended(h)
  BY DEF Appended
<1> QED BY <1>1, <1>2 DEF RingOf

(* The head of the ring is a message of h to a host. *)
LEMMA TopOfRing ==
  ASSUME NetInv, RingInv, NEW h \in Host, sndQueueSize[h] > 0
  PROVE  /\ Top(h) \in Message /\ Top(h).from = h /\ Top(h).to \in Host
         /\ sndTail[h] # sndHead[h] \/ sndQueueSize[h] = MAX_QUEUE_SIZE \/ Counting(h)
<1>1. /\ RingOf(h) /\ sndHead[h] \in Slot /\ sndTail[h] \in Slot
      /\ sndQueueSize[h] \in 0 .. MAX_QUEUE_SIZE /\ sndQueue[h] \in [Slot -> Message]
  BY DEF RingInv, NetInv, TypeOK
<1>2. Ahead(sndHead[h], sndHead[h]) = 0
  BY <1>1 DEF Ahead, Slot
<1>3. Appended(h) > 0
  BY <1>1 DEF Appended
<1> QED BY <1>1, <1>2, <1>3 DEF RingOf, Top, Appended

(* A step that writes to the slot at sndTail only. *)
WritesTail(h) ==
  /\ \A s \in Slot : s # sndTail[h] => sndQueue'[h][s] = sndQueue[h][s]
  /\ \A g \in Host \ {h} : sndQueue'[g] = sndQueue[g]

LEMMA TailKeepsTops ==
  ASSUME NetInv, RingInv, NEW h \in Host, WritesTail(h), ~Counting(h),
         sndQueueSize[h] # MAX_QUEUE_SIZE, sndHead' = sndHead
  PROVE  TopsKept
<1> SUFFICES ASSUME NEW g \in Host, sndQueueSize[g] > 0 PROVE Top(g)' = Top(g)
  BY DEF TopsKept
<1>1. sndHead[g] \in Slot
  BY DEF NetInv, TypeOK
<1>2. g = h => sndTail[g] # sndHead[g]
  BY TopOfRing
<1> QED BY <1>1, <1>2 DEF WritesTail, Top

LEMMA NextFreeRing ==
  ASSUME NetInv, MaskInv, RingInv, NEW h \in Host, nextFreeMsgInQueue(h),
         \/ pc[h].sigio = "idle" /\ pc[h].main = "app"
         \/ pc[h].sigio = "dispatch",
         UNCHANGED <<sndHead, sndTail, sndQueueSize>>
  PROVE  RingInv' /\ TopsKept
<1>0. /\ PcType /\ sndQueue \in [Host -> [Slot -> Message]] /\ sndTail[h] \in Slot
      /\ sndHead[h] \in Slot /\ sndQueueSize[h] \in 0 .. MAX_QUEUE_SIZE
  BY DEF NetInv, TypeOK, PcType
<1>1. /\ \A g \in Host \ {h} : pc'[g] = pc[g]
      /\ pc[h].sigio = "idle" => pc'[h].main \in {"fill", "crashed"} /\ pc'[h].sigio = "idle"
      /\ pc[h].sigio # "idle" => pc'[h].main = pc[h].main /\ pc'[h].sigio \in {"fill", "crashed"}
  BY NextFreePoint
<1>2. pc[h].sigio # "idle" => pc[h].main \notin RacePoints
  BY DEF MaskInv, Quiet
<1>3. ~Counting(h) /\ ~Counting(h)'
  BY <1>1, <1>2 DEF Counting, RacePoints
<1>4. RingOf(h)
  BY DEF RingInv
<1>5. CASE sndQueueSize[h] = MAX_QUEUE_SIZE
  <2>1. sndQueue' = sndQueue /\ Goto(h, "crashed")
    BY <1>5 DEF nextFreeMsgInQueue
  <2>2. ~Filling(h)'
    BY <1>0, <1>1, <1>2, <2>1 DEF Goto, Running, PcType, Filling, RacePoints
  <2>3. RingOf(h)'
    BY <1>3, <2>1, <2>2, StillRing
  <2>4. \A g \in Host \ {h} : RingOf(g)'
    BY <1>1, <2>1, StillRing DEF Counting, Filling
  <2> QED BY <2>1, <2>3, <2>4 DEF RingInv, TopsKept, Top
<1>6. CASE sndQueueSize[h] # MAX_QUEUE_SIZE
  <2>1. sndQueue' = [sndQueue EXCEPT ![h][sndTail[h]] = BlankMsg]
    BY <1>6 DEF nextFreeMsgInQueue
  <2>2. WritesTail(h)
    BY <1>0, <2>1 DEF WritesTail
  <2>3. Appended(h) = sndQueueSize[h] /\ Appended(h)' = sndQueueSize[h]
    BY <1>3 DEF Appended
  <2>4. Ahead(sndHead[h], sndTail[h]) = sndQueueSize[h]
    BY <1>4, <1>6, <2>3 DEF RingOf
  <2>5. RingOf(h)'
    <3>1. \A s \in Slot : Ahead(sndHead[h], s) < sndQueueSize[h] =>
            s # sndTail[h] /\ sndQueue'[h][s] = sndQueue[h][s]
      <4>1. \A n \in 0 .. MAX_QUEUE_SIZE : ~(n < n)
        BY QueueAssumption
      <4> QED BY <1>0, <2>2, <2>4, <4>1 DEF WritesTail
    <3>2. \A s \in Slot : Ahead(sndHead[h], s) < sndQueueSize[h] =>
            sndQueue'[h][s].from = h /\ sndQueue'[h][s].to \in Host
      BY <1>4, <2>3, <3>1 DEF RingOf
    <3>3. sndQueueSize[h] < MAX_QUEUE_SIZE
      BY <1>0, <1>6, QueueAssumption
    <3> QED BY <1>6, <2>3, <2>4, <3>2, <3>3 DEF RingOf
  <2>6. \A g \in Host \ {h} : RingOf(g)'
    BY <1>1, <2>2, StillRing DEF Counting, Filling, WritesTail
  <2> QED BY <1>3, <1>6, <2>2, <2>5, <2>6, TailKeepsTops DEF RingInv
<1> QED BY <1>5, <1>6

LEMMA FillRing ==
  ASSUME NetInv, MaskInv, RingInv, NEW h \in Host, Fill(h)
  PROVE  RingInv' /\ TopsKept
<1>0. /\ PcType /\ sndQueue \in [Host -> [Slot -> Message]] /\ sndTail[h] \in Slot
      /\ sndHead[h] \in Slot /\ sndQueueSize[h] \in 0 .. MAX_QUEUE_SIZE
  BY DEF NetInv, TypeOK, PcType
<1>1. \/ pc[h].sigio = "idle" /\ pc[h].main = "fill"
      \/ pc[h].sigio = "fill"
  BY <1>0, AtPoint DEF Fill
<1>2. /\ \A g \in Host \ {h} : pc'[g] = pc[g]
      /\ pc[h].sigio = "idle" => pc'[h].main = "send" /\ pc'[h].sigio = "idle"
      /\ pc[h].sigio # "idle" => pc'[h].main = pc[h].main /\ pc'[h].sigio = "send"
  BY <1>0, GotoPoint DEF Fill, Points, HandlerPoints, RacePoints
<1>3. Quiet(h) /\ Mine(h) /\ RingOf(h)
  BY DEF MaskInv, RingInv
<1>4. ~Counting(h) /\ ~Counting(h)' /\ Filling(h)
  BY <1>1, <1>2, <1>3 DEF Counting, Quiet, RacePoints, Filling
<1>5. msg[h][Running(h)] = sndTail[h]
  BY <1>1, <1>3 DEF Mine, Running
<1>6. /\ sndQueue' = [sndQueue EXCEPT ![h][sndTail[h]] = Composed(h)]
      /\ UNCHANGED <<sndHead, sndTail, sndQueueSize>>
  BY <1>5 DEF Fill
<1>7. WritesTail(h)
  BY <1>0, <1>6 DEF WritesTail
<1>8. Appended(h) = sndQueueSize[h] /\ Appended(h)' = sndQueueSize[h] /\ sndQueueSize[h] < MAX_QUEUE_SIZE
  BY <1>3, <1>4, <1>6 DEF Appended, RingOf
<1>9. Ahead(sndHead[h], sndTail[h]) = sndQueueSize[h]
  BY <1>0, <1>3, <1>8, QueueAssumption DEF RingOf
<1>10. RingOf(h)'
  BY <1>0, <1>3, <1>6, <1>7, <1>8, <1>9 DEF RingOf, WritesTail
<1>11. \A g \in Host \ {h} : RingOf(g)'
  BY <1>2, <1>6, <1>7, StillRing DEF Counting, Filling, WritesTail
<1>12. TopsKept
  BY <1>0, <1>4, <1>6, <1>7, <1>8, QueueAssumption, TailKeepsTops
<1> QED BY <1>10, <1>11, <1>12 DEF RingInv
(* A step that leaves the queues as they are, and moves no thread of its    *)
(* host to a point where it has a slot, or out of msgEnqueue.               *)
LEMMA PointsRing ==
  ASSUME RingInv, NEW h \in Host,
         UNCHANGED <<sndQueue, sndHead, sndTail, sndQueueSize>>,
         Counting(h)' <=> Counting(h), Filling(h)' => Filling(h),
         \A g \in Host \ {h} : pc'[g] = pc[g]
  PROVE  RingInv' /\ TopsKept
<1>1. \A g \in Host : RingOf(g)'
  BY StillRing DEF Counting, Filling
<1> QED BY <1>1 DEF RingInv, TopsKept, Top

(* Where Return puts the threads, wherever it came from. *)
LEMMA ReturnRing ==
  ASSUME NetInv, MaskInv, RingInv, NEW h \in Host, Return(h),
         \/ pc[h].sigio = "idle" /\ pc[h].main \in {"send", "count", "unset"}
         \/ pc[h].sigio \in {"send", "count", "unset"}
  PROVE  /\ \A g \in Host \ {h} : pc'[g] = pc[g]
         /\ ~Counting(h)' /\ ~Filling(h)'
<1>1. /\ \A g \in Host \ {h} : pc'[g] = pc[g]
      /\ pc[h].sigio = "idle" => pc'[h].main \in {"app", "wait"} /\ pc'[h].sigio = "idle"
      /\ pc[h].sigio # "idle" => pc'[h].main = pc[h].main /\ pc'[h].sigio = "dispatch"
  BY ReturnPoint
<1>2. pc[h].sigio # "idle" => pc[h].main \notin RacePoints
  BY DEF MaskInv, Quiet
<1> QED BY <1>1, <1>2 DEF Counting, Filling, RacePoints

LEMMA SendRing ==
  ASSUME NetInv, MaskInv, RingInv, NEW h \in Host, Send(h)
  PROVE  RingInv' /\ TopsKept
<1>0. /\ PcType /\ sndQueue \in [Host -> [Slot -> Message]] /\ sndTail[h] \in Slot
      /\ sndTail \in [Host -> Slot]
      /\ sndHead[h] \in Slot /\ sndQueueSize[h] \in 0 .. MAX_QUEUE_SIZE
  BY DEF NetInv, TypeOK, PcType
<1>1. \/ pc[h].sigio = "idle" /\ pc[h].main = "send"
      \/ pc[h].sigio = "send"
  BY <1>0, AtPoint DEF Send
<1>2. Quiet(h) /\ Mine(h) /\ RingOf(h)
  BY DEF MaskInv, RingInv
<1>3. ~Counting(h) /\ Filling(h)
  BY <1>1, <1>2 DEF Counting, Quiet, RacePoints, Filling
<1>4. msg[h][Running(h)] = sndTail[h]
  BY <1>1, <1>2 DEF Mine, Running
<1>5. sndHead' = sndHead /\ sndQueueSize' = sndQueueSize
  BY DEF Send
<1> DEFINE m == sndQueue[h][sndTail[h]]
<1>6. CASE m.from # h \/ m.to = NoHost \/ m.command = NoCommand
  <2>1. Return(h) /\ sndQueue' = sndQueue /\ sndTail' = sndTail
    BY <1>4, <1>6 DEF Send
  <2>2. /\ \A g \in Host \ {h} : pc'[g] = pc[g]
        /\ ~Counting(h)' /\ ~Filling(h)'
    BY <1>1, <2>1, ReturnRing
  <2> QED BY <1>3, <1>5, <2>1, <2>2, PointsRing
<1>7. CASE ~(m.from # h \/ m.to = NoHost \/ m.command = NoCommand)
  <2>1. sndQueueSize[h] < MAX_QUEUE_SIZE
    BY <1>2, <1>3 DEF RingOf
  <2>2. /\ sndQueue' = [sndQueue EXCEPT ![h][sndTail[h]].seqno = snd_seqs[h][m.to]]
        /\ sndTail' = [sndTail EXCEPT ![h] = (@ + 1) % MAX_QUEUE_SIZE]
        /\ Goto(h, "count")
    BY <1>0, <1>4, <1>7, <2>1, QueueAssumption DEF Send
  <2>3. /\ \A g \in Host \ {h} : pc'[g] = pc[g]
        /\ pc[h].sigio = "idle" => pc'[h].main = "count" /\ pc'[h].sigio = "idle"
        /\ pc[h].sigio # "idle" => pc'[h].main = pc[h].main /\ pc'[h].sigio = "count"
    BY <1>0, <2>2, GotoPoint DEF Points, HandlerPoints, RacePoints
  <2>4. WritesTail(h)
    BY <1>0, <2>2 DEF WritesTail
  <2>5. TopsKept
    BY <1>0, <1>3, <1>5, <2>1, <2>4, QueueAssumption, TailKeepsTops
  <2>6. m \in Message
    BY <1>0
  <2>7. sndQueue'[h][sndTail[h]].from = h /\ sndQueue'[h][sndTail[h]].to \in Host
    <3>1. sndQueue'[h][sndTail[h]] = [m EXCEPT !.seqno = snd_seqs[h][m.to]]
      BY <1>0, <2>2
    <3>2. m.from = h /\ m.to \in Host
      BY <1>7, <2>6, MessageForms
    <3> QED BY <2>6, <3>1, <3>2 DEF Message
  <2>8. Appended(h) = sndQueueSize[h] /\ Appended(h)' = sndQueueSize[h] + 1
    BY <1>1, <1>3, <1>5, <2>3 DEF Appended, Counting
  <2>9. Ahead(sndHead[h], sndTail[h]) = sndQueueSize[h]
    BY <1>0, <1>2, <2>1, <2>8, QueueAssumption DEF RingOf
  <2>10. sndTail'[h] = IF sndTail[h] + 1 = MAX_QUEUE_SIZE THEN 0 ELSE sndTail[h] + 1
    BY <1>0, <2>2, NextInRing
  <2>11. Ahead(sndHead[h], sndTail'[h]) =
           IF sndQueueSize[h] + 1 = MAX_QUEUE_SIZE THEN 0 ELSE sndQueueSize[h] + 1
    <3> DEFINE a == sndHead[h]
               b == sndTail[h]
               n == sndQueueSize[h]
    <3>1. a \in Int /\ b \in Int /\ n \in Int /\ 0 <= a /\ a < MAX_QUEUE_SIZE
          /\ 0 <= b /\ b < MAX_QUEUE_SIZE /\ MAX_QUEUE_SIZE \in Int
      BY <1>0, QueueAssumption DEF Slot
    <3>2. n = IF b >= a THEN b - a ELSE b - a + MAX_QUEUE_SIZE
      BY <2>9 DEF Ahead
    <3> HIDE DEF a, b, n
    <3>3. CASE b + 1 = MAX_QUEUE_SIZE
      BY <2>10, <3>1, <3>2, <3>3 DEF Ahead, a, b, n
    <3>4. CASE b + 1 # MAX_QUEUE_SIZE
      BY <2>10, <3>1, <3>2, <3>4 DEF Ahead, a, b, n
    <3> QED BY <3>3, <3>4
  <2>12. ASSUME NEW s \in Slot, Ahead(sndHead[h], s) < sndQueueSize[h] + 1
         PROVE  sndQueue'[h][s].from = h /\ sndQueue'[h][s].to \in Host
    <3>1. CASE s = sndTail[h]
      BY <2>7, <3>1
    <3>2. CASE s # sndTail[h]
      <4>1. Ahead(sndHead[h], s) < sndQueueSize[h]
        <5> DEFINE a == sndHead[h]
                   b == sndTail[h]
                   n == sndQueueSize[h]
        <5>1. a \in Int /\ b \in Int /\ n \in Int /\ 0 <= a /\ a < MAX_QUEUE_SIZE
              /\ 0 <= b /\ b < MAX_QUEUE_SIZE /\ MAX_QUEUE_SIZE \in Int
              /\ s \in Int /\ 0 <= s /\ s < MAX_QUEUE_SIZE
          BY <1>0, QueueAssumption DEF Slot
        <5>2. n = IF b >= a THEN b - a ELSE b - a + MAX_QUEUE_SIZE
          BY <2>9 DEF Ahead
        <5>3. (IF s >= a THEN s - a ELSE s - a + MAX_QUEUE_SIZE) < n + 1
          BY <2>12 DEF Ahead
        <5>4. s # b
          BY <3>2
        <5> HIDE DEF a, b, n
        <5>5. (IF s >= a THEN s - a ELSE s - a + MAX_QUEUE_SIZE) < n
          BY <5>1, <5>2, <5>3, <5>4
        <5> QED BY <5>5 DEF Ahead, a, b, n
      <4> QED BY <1>2, <2>4, <2>8, <3>2, <4>1 DEF RingOf, WritesTail
    <3> QED BY <3>1, <3>2
  <2>13. RingOf(h)'
    BY <1>5, <2>1, <2>8, <2>11, <2>12 DEF RingOf
  <2>14. \A g \in Host \ {h} : RingOf(g)'
    BY <1>0, <1>5, <2>2, <2>3, <2>4, StillRing DEF Counting, Filling, WritesTail
  <2> QED BY <2>5, <2>13, <2>14 DEF RingInv
<1> QED BY <1>6, <1>7

LEMMA CountRing ==
  ASSUME NetInv, MaskInv, RingInv, NEW h \in Host, Count(h)
  PROVE  RingInv' /\ TopsKept
<1>0. PcType /\ sndQueueSize \in [Host -> 0 .. MAX_QUEUE_SIZE]
  BY DEF NetInv, TypeOK, PcType
<1>1. \/ pc[h].sigio = "idle" /\ pc[h].main = "count"
      \/ pc[h].sigio = "count"
  BY <1>0, AtPoint DEF Count
<1>2. Quiet(h) /\ RingOf(h)
  BY DEF MaskInv, RingInv
<1>3. Counting(h) /\ Filling(h)
  BY <1>1 DEF Counting, Filling
<1>4. sndQueueSize[h] < MAX_QUEUE_SIZE
  BY <1>2, <1>3 DEF RingOf
<1>5. /\ sndQueueSize' = [sndQueueSize EXCEPT ![h] = @ + 1]
      /\ UNCHANGED <<sndQueue, sndHead, sndTail>>
      /\ Return(h) \/ Goto(h, "set")
  <2>1. sndQueueSize[h] # MAX_QUEUE_SIZE
    BY <1>0, <1>4, QueueAssumption
  <2>2. Return(h) \/ Goto(h, "set")
    BY DEF Count
  <2> QED BY <2>1, <2>2 DEF Count
<1>6. /\ \A g \in Host \ {h} : pc'[g] = pc[g]
      /\ ~Counting(h)' /\ ~Filling(h)'
  <2>1. CASE Return(h)
    BY <1>1, <2>1, ReturnRing
  <2>2. CASE Goto(h, "set")
    <3>1. /\ \A g \in Host \ {h} : pc'[g] = pc[g]
          /\ pc[h].sigio = "idle" => pc'[h].main = "set" /\ pc'[h].sigio = "idle"
          /\ pc[h].sigio # "idle" => pc'[h].main = pc[h].main /\ pc'[h].sigio = "set"
      BY <1>0, <2>2, GotoPoint DEF Points, HandlerPoints, RacePoints
    <3> QED BY <1>2, <3>1 DEF Quiet, Counting, Filling, RacePoints
  <2> QED BY <1>5, <2>1, <2>2
<1>7. Appended(h) = sndQueueSize[h] + 1 /\ Appended(h)' = sndQueueSize[h] + 1
  BY <1>0, <1>3, <1>5, <1>6 DEF Appended
<1>8. RingOf(h)'
  BY <1>2, <1>5, <1>6, <1>7 DEF RingOf
<1>9. \A g \in Host \ {h} : RingOf(g)'
  BY <1>0, <1>5, <1>6, StillRing DEF Counting, Filling
<1> QED BY <1>5, <1>8, <1>9 DEF RingInv, TopsKept, Top

(* msgDequeue takes the head away, and the loop goes on. *)
LEMMA DequeueRing ==
  ASSUME NetInv, MaskInv, RingInv, NEW h \in Host, At(h, "await") \/ At(h, "acked"), Dequeue(h),
         UNCHANGED <<sndQueue, sndTail>>
  PROVE  RingInv'
<1>0. /\ PcType /\ sndHead \in [Host -> Slot] /\ sndTail[h] \in Slot
      /\ sndQueueSize \in [Host -> 0 .. MAX_QUEUE_SIZE]
  BY DEF NetInv, TypeOK, PcType
<1>1. \/ pc[h].sigio = "idle" /\ pc[h].main \in {"await", "acked"}
      \/ pc[h].sigio \in {"await", "acked"}
  BY <1>0, AtPoint
<1>2. Quiet(h) /\ RingOf(h) /\ sndQueueSize[h] > 0
  BY <1>1 DEF MaskInv, RingInv, NetInv, OneLoops
<1> DEFINE p == IF sndQueueSize[h] - 1 > 0 THEN "transmit" ELSE "unset"
<1>3. /\ Goto(h, p)
      /\ sndHead' = [sndHead EXCEPT ![h] = (@ + 1) % MAX_QUEUE_SIZE]
      /\ sndQueueSize' = [sndQueueSize EXCEPT ![h] = @ - 1]
  BY DEF Dequeue, Loop
<1>4. p \in {"transmit", "unset"}
  OBVIOUS
<1> HIDE DEF p
<1>5. /\ \A g \in Host \ {h} : pc'[g] = pc[g]
      /\ pc[h].sigio = "idle" => pc'[h].main = p /\ pc'[h].sigio = "idle"
      /\ pc[h].sigio # "idle" => pc'[h].main = pc[h].main /\ pc'[h].sigio = p
  BY <1>0, <1>3, <1>4, GotoPoint DEF Points, HandlerPoints, RacePoints
<1>6. ~Counting(h) /\ ~Counting(h)' /\ ~Filling(h)'
  BY <1>1, <1>2, <1>4, <1>5 DEF Quiet, Counting, Filling, RacePoints
<1>7. Appended(h) = sndQueueSize[h] /\ Appended(h)' = sndQueueSize[h] - 1
  BY <1>0, <1>3, <1>6 DEF Appended
<1>8. sndHead'[h] = IF sndHead[h] + 1 = MAX_QUEUE_SIZE THEN 0 ELSE sndHead[h] + 1
  BY <1>0, <1>3, NextInRing
<1>9. Ahead(sndHead'[h], sndTail[h]) = sndQueueSize[h] - 1
  <2>1. /\ Ahead(sndHead[h], sndTail[h]) = IF sndQueueSize[h] = MAX_QUEUE_SIZE THEN 0 ELSE sndQueueSize[h]
        /\ sndHead[h] \in Slot /\ sndQueueSize[h] \in 1 .. MAX_QUEUE_SIZE
    BY <1>0, <1>2, <1>7 DEF RingOf
  <2>2. PICK a \in Slot, b \in Slot, c \in Slot, n \in 1 .. MAX_QUEUE_SIZE :
           a = sndHead[h] /\ b = sndTail[h] /\ c = sndHead'[h] /\ n = sndQueueSize[h]
    BY <1>0, <1>8, <2>1, QueueAssumption DEF Slot
  <2>3. /\ Ahead(a, b) = IF n = MAX_QUEUE_SIZE THEN 0 ELSE n
        /\ c = IF a + 1 = MAX_QUEUE_SIZE THEN 0 ELSE a + 1
    BY <1>8, <2>1, <2>2
  <2>4. Ahead(c, b) = n - 1
    BY <2>3, QueueAssumption DEF Ahead, Slot
  <2> QED BY <2>2, <2>4
<1>10. ASSUME NEW s \in Slot, Ahead(sndHead'[h], s) < sndQueueSize[h] - 1
       PROVE  Ahead(sndHead[h], s) < sndQueueSize[h]
  BY <1>0, <1>2, <1>8, <1>10, QueueAssumption DEF Ahead, Slot
<1>11. sndQueueSize[h] - 1 # MAX_QUEUE_SIZE
  BY <1>0, QueueAssumption
<1>12. RingOf(h)'
  BY <1>2, <1>3, <1>6, <1>7, <1>9, <1>10, <1>11 DEF RingOf
<1>13. \A g \in Host \ {h} : RingOf(g)'
  BY <1>0, <1>3, <1>5, StillRing DEF Counting, Filling
<1> QED BY <1>12, <1>13 DEF RingInv
(* The steps that neither put a datagram or an acknowledgement into a       *)
(* socket nor take one out, and end no attempt.                             *)
Handles(h) == \/ HandleTest(h) \/ HandleFetch(h) \/ HandleAcquire(h)
              \/ HandleRelease(h) \/ HandleGrant(h)
StaysHome(h) == \/ Begin(h) \/ Fill(h) \/ Send(h) \/ Count(h) \/ SetSending(h)
                \/ Unset(h) \/ Wake(h) \/ Handles(h) \/ HandlerEnds(h)

(* A handler takes a slot for its answer, or drops the message at once.     *)
LEMMA HandlesForms ==
  ASSUME NEW h \in Host, Handles(h)
  PROVE  \E c : /\ Dispatching(h, c)
                /\ \/ nextFreeMsgInQueue(h) /\ UNCHANGED <<sndHead, sndTail, sndQueueSize, recvQueue>>
                   \/ NoAnswer(h)
<1>1. \/ \E c : Dispatching(h, c) /\ \E m : Answer(h, m)
      \/ \E c : Dispatching(h, c) /\ NoAnswer(h)
  BY DEF Handles, HandleTest, HandleFetch, HandleAcquire, HandleRelease, HandleGrant
<1>2. \A m : Answer(h, m) => /\ nextFreeMsgInQueue(h)
                             /\ UNCHANGED <<sndHead, sndTail, sndQueueSize, recvQueue>>
  BY DEF Answer
<1> QED BY <1>1, <1>2

LEMMA HandlesRing ==
  ASSUME NetInv, MaskInv, RingInv, NEW h \in Host, Handles(h)
  PROVE  RingInv' /\ TopsKept
<1>1. PICK c : /\ Dispatching(h, c)
               /\ \/ nextFreeMsgInQueue(h) /\ UNCHANGED <<sndHead, sndTail, sndQueueSize, recvQueue>>
                  \/ NoAnswer(h)
  BY HandlesForms
<1>2. pc[h].sigio = "dispatch"
  BY <1>1 DEF Dispatching
<1>3. CASE nextFreeMsgInQueue(h) /\ UNCHANGED <<sndHead, sndTail, sndQueueSize>>
  BY <1>2, <1>3, NextFreeRing
<1>4. CASE NoAnswer(h)
  <2>1. UNCHANGED <<sndQueue, sndHead, sndTail, sndQueueSize, pc>>
    BY <1>4 DEF NoAnswer, queueVars
  <2> QED BY <2>1, PointsRing DEF Counting, Filling
<1> QED BY <1>1, <1>3, <1>4

LEMMA StaysHomeRing ==
  ASSUME NetInv, MaskInv, RingInv, NEW h \in Host, StaysHome(h)
  PROVE  RingInv' /\ TopsKept
<1>0. PcType
  BY DEF NetInv, TypeOK, PcType
<1>a. Quiet(h)
  BY DEF MaskInv
<1>1. CASE Begin(h)
  <2>1. pc[h].sigio = "idle" /\ pc[h].main = "app"
    BY <1>0, <1>1, AtPoint DEF Begin, Running
  <2> QED BY <1>1, <2>1, NextFreeRing DEF Begin
<1>2. CASE SetSending(h)
  <2>1. \/ pc[h].sigio = "idle" /\ pc[h].main = "set"
        \/ pc[h].sigio = "set"
    BY <1>0, <1>2, AtPoint DEF SetSending
  <2> DEFINE p == IF sndQueueSize[h] > 0 THEN "transmit" ELSE "unset"
  <2>2. /\ UNCHANGED <<sndQueue, sndHead, sndTail, sndQueueSize>>
        /\ Goto(h, p)
    BY <1>2 DEF SetSending, Loop
  <2>3. p \in {"transmit", "unset"}
    OBVIOUS
  <2> HIDE DEF p
  <2>4. /\ \A g \in Host \ {h} : pc'[g] = pc[g]
        /\ pc[h].sigio = "idle" => pc'[h].main = p /\ pc'[h].sigio = "idle"
        /\ pc[h].sigio # "idle" => pc'[h].main = pc[h].main /\ pc'[h].sigio = p
    BY <1>0, <2>2, <2>3, GotoPoint DEF Points, HandlerPoints, RacePoints
  <2>5. /\ ~Counting(h) /\ ~Counting(h)' /\ ~Filling(h)'
    BY <1>a, <2>1, <2>3, <2>4 DEF Quiet, Counting, Filling, RacePoints
  <2> QED BY <2>2, <2>4, <2>5, PointsRing
<1>3. CASE Unset(h)
  <2>1. \/ pc[h].sigio = "idle" /\ pc[h].main = "unset"
        \/ pc[h].sigio = "unset"
    BY <1>0, <1>3, AtPoint DEF Unset
  <2>2. UNCHANGED <<sndQueue, sndHead, sndTail, sndQueueSize>> /\ Return(h)
    BY <1>3 DEF Unset
  <2>3. /\ \A g \in Host \ {h} : pc'[g] = pc[g]
        /\ ~Counting(h)' /\ ~Filling(h)'
    BY <2>1, <2>2, ReturnRing
  <2>4. ~Counting(h)
    BY <1>a, <2>1 DEF Quiet, Counting, RacePoints
  <2> QED BY <2>2, <2>3, <2>4, PointsRing
<1>4. CASE Wake(h)
  <2>1. pc[h].sigio = "idle" /\ pc[h].main = "wait"
    BY <1>0, <1>4, AtPoint DEF Wake, Running
  <2>2. /\ \A g \in Host \ {h} : pc'[g] = pc[g]
        /\ pc'[h].main = "app" /\ pc'[h].sigio = "idle"
    BY <1>0, <1>4, <2>1, GotoPoint DEF Wake, Points
  <2>3. UNCHANGED <<sndQueue, sndHead, sndTail, sndQueueSize>>
    BY <1>4 DEF Wake, queueVars
  <2> QED BY <2>1, <2>2, <2>3, PointsRing DEF Counting, Filling
<1>5. CASE HandlerEnds(h)
  <2>1. /\ UNCHANGED <<sndQueue, sndHead, sndTail, sndQueueSize>>
        /\ pc[h].sigio = "dispatch" /\ pc' = [pc EXCEPT ![h].sigio = "idle"]
    BY <1>5 DEF HandlerEnds, queueVars
  <2>2. /\ \A g \in Host \ {h} : pc'[g] = pc[g]
        /\ pc'[h].main = pc[h].main /\ pc'[h].sigio = "idle"
    BY <1>0, <2>1 DEF PcType
  <2> QED BY <2>1, <2>2, PointsRing DEF Counting, Filling
<1> QED BY <1>1, <1>2, <1>3, <1>4, <1>5, FillRing, SendRing, CountRing, HandlesRing DEF StaysHome

LEMMA TransmitRing ==
  ASSUME NetInv, MaskInv, RingInv, NEW h \in Host, Transmit(h)
  PROVE  RingInv' /\ TopsKept
<1>0. PcType /\ Quiet(h)
  BY DEF NetInv, TypeOK, PcType, MaskInv
<1>1. \/ pc[h].sigio = "idle" /\ pc[h].main = "transmit"
      \/ pc[h].sigio = "transmit"
  BY <1>0, AtPoint DEF Transmit
<1>2. UNCHANGED <<sndQueue, sndHead, sndTail, sndQueueSize>> /\ Goto(h, "await")
  BY DEF Transmit, queueVars
<1>3. /\ \A g \in Host \ {h} : pc'[g] = pc[g]
      /\ pc[h].sigio = "idle" => pc'[h].main = "await" /\ pc'[h].sigio = "idle"
      /\ pc[h].sigio # "idle" => pc'[h].main = pc[h].main /\ pc'[h].sigio = "await"
  BY <1>0, <1>2, GotoPoint DEF Points, HandlerPoints
<1>4. ~Counting(h) /\ ~Counting(h)' /\ ~Filling(h)'
  BY <1>0, <1>1, <1>3 DEF Quiet, Counting, Filling, RacePoints
<1> QED BY <1>2, <1>3, <1>4, PointsRing

LEMMA InterruptRing ==
  ASSUME NetInv, MaskInv, RingInv, NEW h \in Host, Interrupt(h)
  PROVE  RingInv' /\ TopsKept
<1>0. PcType
  BY DEF NetInv, TypeOK, PcType
<1>1. /\ UNCHANGED <<sndQueue, sndHead, sndTail, sndQueueSize>>
      /\ pc[h].sigio = "idle" /\ pc' = [pc EXCEPT ![h].sigio = "dispatch"]
  BY DEF Interrupt, Interruptible, queueVars
<1>2. /\ \A g \in Host \ {h} : pc'[g] = pc[g]
      /\ pc'[h].main = pc[h].main /\ pc'[h].sigio = "dispatch"
  BY <1>0, <1>1 DEF PcType
<1> QED BY <1>1, <1>2, PointsRing DEF Counting, Filling

(* An attempt ends: the head is taken from the queue or, after a timeout,   *)
(* sent again; an acknowledgement with another number changes nothing.      *)
LEMMA AttemptRing ==
  ASSUME NetInv, MaskInv, RingInv, NEW h \in Host, ReadAck(h) \/ DropAcked(h) \/ Timeout(h)
  PROVE  RingInv'
<1>0. PcType /\ Quiet(h)
  BY DEF NetInv, TypeOK, PcType, MaskInv
<1>1. /\ At(h, "await") \/ At(h, "acked")
      /\ UNCHANGED <<sndQueue, sndTail>>
      /\ \/ Dequeue(h)
         \/ UNCHANGED <<sndHead, sndQueueSize>> /\ (pc' = pc \/ Goto(h, "transmit") \/ Goto(h, "acked"))
  <2>1. CASE ReadAck(h)
    BY <2>1 DEF ReadAck
  <2>3. CASE DropAcked(h)
    BY <2>3 DEF DropAcked
  <2>2. CASE Timeout(h)
    <3>1. CASE retryNum[h] + 1 < MAX_RETRY_NUM
      BY <2>2, <3>1 DEF Timeout, RetryOnce
    <3>2. CASE ~(retryNum[h] + 1 < MAX_RETRY_NUM)
      BY <2>2, <3>2 DEF Timeout
    <3> QED BY <3>1, <3>2
  <2> QED BY <2>1, <2>2, <2>3
<1>2. CASE Dequeue(h)
  BY <1>1, <1>2, DequeueRing
<1>3. CASE UNCHANGED <<sndHead, sndQueueSize>> /\ pc' = pc
  BY <1>1, <1>3, PointsRing DEF Counting, Filling
<1>4. ASSUME NEW p \in {"transmit", "acked"}, UNCHANGED <<sndHead, sndQueueSize>>, Goto(h, p)
      PROVE  RingInv'
  <2>1. \/ pc[h].sigio = "idle" /\ pc[h].main \in {"await", "acked"}
        \/ pc[h].sigio \in {"await", "acked"}
    BY <1>0, <1>1, AtPoint
  <2>2. /\ \A g \in Host \ {h} : pc'[g] = pc[g]
        /\ pc[h].sigio = "idle" => pc'[h].main = p /\ pc'[h].sigio = "idle"
        /\ pc[h].sigio # "idle" => pc'[h].main = pc[h].main /\ pc'[h].sigio = p
    BY <1>0, <1>4, GotoPoint DEF Points, HandlerPoints
  <2>3. ~Counting(h) /\ ~Counting(h)' /\ ~Filling(h)'
    BY <1>0, <2>1, <2>2 DEF Quiet, Counting, Filling, RacePoints
  <2> QED BY <1>1, <1>4, <2>2, <2>3, PointsRing
<1> QED BY <1>1, <1>2, <1>3, <1>4

LEMMA StepForms ==
  ASSUME NEW h \in Host, Step(h) \/ Interrupt(h)
  PROVE  StaysHome(h) \/ Transmit(h) \/ ReadAck(h) \/ DropAcked(h) \/ Timeout(h) \/ Interrupt(h)
BY DEF Step, StaysHome, Handles

LEMMA InitRing == Init => RingInv
<1> SUFFICES ASSUME Init, NEW h \in Host PROVE RingOf(h)
  BY DEF RingInv
<1>1. /\ pc[h].main = "app" /\ pc[h].sigio = "idle" /\ sndQueueSize[h] = 0
      /\ sndHead[h] = 0 /\ sndTail[h] = 0
  BY DEF Init
<1>2. Appended(h) = 0 /\ ~Filling(h)
  BY <1>1 DEF Appended, Counting, Filling
<1>3. Ahead(0, 0) = 0 /\ \A s \in Slot : ~(Ahead(0, s) < 0)
  BY QueueAssumption DEF Ahead, Slot
<1> QED BY <1>1, <1>2, <1>3, QueueAssumption DEF RingOf

LEMMA NextRing ==
  ASSUME NetInv, MaskInv, RingInv, [Next]_vars
  PROVE  RingInv'
<1>1. CASE UNCHANGED vars
  <2>1. UNCHANGED <<sndQueue, sndHead, sndTail, sndQueueSize, pc>>
    BY <1>1 DEF vars, queueVars
  <2> QED BY <2>1, StillRing DEF RingInv, Counting, Filling
<1>2. CASE Next
  <2> PICK h \in Host : Step(h) \/ Interrupt(h)
    BY <1>2 DEF Next
  <2> QED BY StepForms, StaysHomeRing, TransmitRing, InterruptRing, AttemptRing
<1> QED BY <1>1, <1>2

-----------------------------------------------------------------------------
(* What has arrived *)

Tag == (Command \cup {NoCommand}) \X (Host \X Nat)

HistoryType == /\ handled \in [Host -> [Host -> Seq(Tag)]]
               /\ ended \in [Host -> [Host -> Seq(Tag \X {"acked", "dropped"})]]
               /\ faults \in [loss : Nat, ackloss : Nat, late : Nat]

(* t has dispatched the message l of f, or is going to.                     *)
Dispatched(f, t, l) == \E i \in DOMAIN handled[f][t] : handled[f][t][i] = l
Taken(f, t, l) == \E i \in DOMAIN recvQueue[t] : recvQueue[t][i].from = f /\ Label(recvQueue[t][i]) = l
Got(f, t, l) == Dispatched(f, t, l) \/ Taken(f, t, l)

GotGrows == \A f, t \in Host, l \in Tag : Got(f, t, l) => Got(f, t, l)'

(* The handler has dispatched the message it answers, and leaves nothing    *)
(* behind; what it takes from the socket for f is a message of f.           *)
RecvOf(h) ==
  /\ pc[h].sigio = "idle" => recvQueue[h] = << >>
  /\ pc[h].sigio \notin {"idle", "dispatch"} =>
       Dispatched(Head(recvQueue[h]).from, h, Label(Head(recvQueue[h])))
  /\ \A i \in DOMAIN recvQueue[h] : recvQueue[h][i].from \in Host
  /\ \A f \in Host : \A i \in DOMAIN data[f][h] : data[f][h][i].from = f

RecvInv == HistoryType /\ \A h \in Host : RecvOf(h)

LEMMA LabelType == \A m \in Message : Label(m) \in Tag
  BY DEF Message, Label, Tag

(* The members of a sequence, after Append and after Tail. *)
LEMMA AppendElems ==
  ASSUME NEW S, NEW s \in Seq(S), NEW x \in S
  PROVE  /\ Append(s, x) \in Seq(S)
         /\ \A i \in DOMAIN s : i \in DOMAIN Append(s, x) /\ Append(s, x)[i] = s[i]
         /\ \E i \in DOMAIN Append(s, x) : Append(s, x)[i] = x
         /\ \A i \in DOMAIN Append(s, x) : Append(s, x)[i] = x \/ (i \in DOMAIN s /\ Append(s, x)[i] = s[i])
<1>1. /\ Append(s, x) \in Seq(S) /\ Len(Append(s, x)) = Len(s) + 1
      /\ \A i \in 1 .. Len(s) : Append(s, x)[i] = s[i]
      /\ Append(s, x)[Len(s) + 1] = x
  BY AppendProperties
<1>2. DOMAIN s = 1 .. Len(s) /\ DOMAIN Append(s, x) = 1 .. Len(s) + 1 /\ Len(s) \in Nat
  BY <1>1, LenProperties
<1>3. Len(s) + 1 \in DOMAIN Append(s, x)
  BY <1>2
<1>4. \A i \in DOMAIN s : i \in DOMAIN Append(s, x) /\ Append(s, x)[i] = s[i]
  BY <1>1, <1>2
<1>5. \A i \in DOMAIN Append(s, x) : i = Len(s) + 1 \/ i \in DOMAIN s
  BY <1>2
<1> QED BY <1>1, <1>3, <1>4, <1>5

LEMMA TailElems ==
  ASSUME NEW S, NEW s \in Seq(S), s # << >>
  PROVE  /\ Tail(s) \in Seq(S) /\ Head(s) \in S
         /\ 1 \in DOMAIN s /\ Head(s) = s[1]
         /\ \A i \in DOMAIN s : s[i] = Head(s) \/ \E j \in DOMAIN Tail(s) : Tail(s)[j] = s[i]
         /\ \A j \in DOMAIN Tail(s) : \E i \in DOMAIN s : Tail(s)[j] = s[i]
<1>1. /\ Tail(s) \in Seq(S) /\ Head(s) \in S /\ Len(Tail(s)) = Len(s) - 1
      /\ \A i \in 1 .. Len(Tail(s)) : Tail(s)[i] = s[i + 1]
  BY HeadTailProperties
<1>2. /\ DOMAIN s = 1 .. Len(s) /\ Len(s) \in Nat /\ Len(s) # 0
      /\ DOMAIN Tail(s) = 1 .. Len(s) - 1
  BY <1>1, LenProperties, EmptySeq
<1>3. Head(s) = s[1] /\ 1 \in DOMAIN s
  BY <1>2
<1>4. ASSUME NEW i \in DOMAIN s, i # 1
      PROVE  \E j \in DOMAIN Tail(s) : Tail(s)[j] = s[i]
  <2>1. i - 1 \in DOMAIN Tail(s) /\ Tail(s)[i - 1] = s[i]
    BY <1>1, <1>2, <1>4
  <2> QED BY <2>1
<1>5. ASSUME NEW j \in DOMAIN Tail(s)
      PROVE  \E i \in DOMAIN s : Tail(s)[j] = s[i]
  <2>1. j + 1 \in DOMAIN s /\ Tail(s)[j] = s[j + 1]
    BY <1>1, <1>2, <1>5
  <2> QED BY <2>1
<1> QED BY <1>1, <1>3, <1>4, <1>5

(* The messages that the handler of a host has taken. *)
LEMMA TakenFacts ==
  ASSUME NetInv, RecvInv, NEW h \in Host, recvQueue[h] # << >>
  PROVE  /\ recvQueue[h] \in Seq(Message)
         /\ Head(recvQueue[h]) \in Message /\ Label(Head(recvQueue[h])) \in Tag
         /\ Head(recvQueue[h]).from \in Host
         /\ \A i \in DOMAIN recvQueue[h] :
              recvQueue[h][i] \in Message /\ Label(recvQueue[h][i]) \in Tag
<1>1. recvQueue[h] \in Seq(Message)
  BY DEF NetInv, TypeOK
<1>2. Head(recvQueue[h]) \in Message /\ 1 \in DOMAIN recvQueue[h] /\ Head(recvQueue[h]) = recvQueue[h][1]
  BY <1>1, TailElems
<1>3. Head(recvQueue[h]).from \in Host
  BY <1>2 DEF RecvInv, RecvOf
<1>4. \A i \in DOMAIN recvQueue[h] : recvQueue[h][i] \in Message
  BY <1>1, ElementOfSeq, LenProperties
<1> QED BY <1>1, <1>2, <1>3, <1>4, LabelType

(* A host at which nothing arrives and nothing is dispatched: its handler   *)
(* is not at the point after a dispatch unless it was there before.         *)
LEMMA StillRecv ==
  ASSUME NetInv, RecvInv, NEW h \in Host,
         pc'[h].sigio = "idle" => pc[h].sigio = "idle" \/ recvQueue[h] = << >>,
         pc'[h].sigio \notin {"idle", "dispatch"} => pc[h].sigio \notin {"idle", "dispatch"},
         recvQueue'[h] = recvQueue[h],
         \A f \in Host : handled'[f][h] = handled[f][h],
         \A f \in Host : \A i \in DOMAIN data'[f][h] : data'[f][h][i].from = f
  PROVE  RecvOf(h)' /\ \A f \in Host, l \in Tag : Got(f, h, l) => Got(f, h, l)'
<1>1. RecvOf(h)
  BY DEF RecvInv
<1>2. \A f \in Host : \A l \in Tag : Dispatched(f, h, l)' <=> Dispatched(f, h, l)
  BY DEF Dispatched
<1>3. \A f \in Host : \A l \in Tag : Taken(f, h, l)' <=> Taken(f, h, l)
  BY DEF Taken, Label
<1>4. \A f \in Host, l \in Tag : Got(f, h, l) => Got(f, h, l)'
  BY <1>2, <1>3 DEF Got
<1>5. (pc[h].sigio = "idle" => recvQueue[h] = << >>)'
  BY <1>1 DEF RecvOf
<1>6. ASSUME pc'[h].sigio \notin {"idle", "dispatch"}
      PROVE  Dispatched(Head(recvQueue[h]).from, h, Label(Head(recvQueue[h])))'
  <2>1. recvQueue[h] # << >>
    BY <1>6 DEF NetInv, HasWork
  <2>2. Dispatched(Head(recvQueue[h]).from, h, Label(Head(recvQueue[h])))
    BY <1>1, <1>6 DEF RecvOf
  <2>3. Head(recvQueue[h]).from \in Host /\ Label(Head(recvQueue[h])) \in Tag
    BY <2>1, TakenFacts
  <2> DEFINE m == Head(recvQueue[h])
  <2>4. Dispatched(m.from, h, Label(m))
    BY <2>2
  <2> QED BY <2>3, <2>4 DEF Dispatched, Label
<1>7. (\A i \in DOMAIN recvQueue[h] : recvQueue[h][i].from \in Host)'
  BY <1>1 DEF RecvOf
<1> QED BY <1>1, <1>4, <1>5, <1>6, <1>7 DEF RecvOf

(* A step in which no message arrives and none is dispatched. *)
LEMMA QuietRecv ==
  ASSUME NetInv, RecvInv, NEW h \in Host, HistoryType',
         \A g \in Host \ {h} : pc'[g] = pc[g],
         pc'[h].sigio = "idle" => pc[h].sigio = "idle" \/ recvQueue[h] = << >>,
         pc'[h].sigio \notin {"idle", "dispatch"} => pc[h].sigio \notin {"idle", "dispatch"},
         UNCHANGED <<recvQueue, handled>>,
         \A f, t \in Host : \A i \in DOMAIN data'[f][t] : data'[f][t][i].from = f
  PROVE  RecvInv' /\ GotGrows
<1>1. \A g \in Host : RecvOf(g)' /\ \A f \in Host, l \in Tag : Got(f, g, l) => Got(f, g, l)'
  BY StillRecv
<1> QED BY <1>1 DEF RecvInv, GotGrows

LEMMA ReturnRecv ==
  ASSUME NetInv, RecvInv, NEW h \in Host, HistoryType', Return(h),
         \/ pc[h].sigio = "idle" /\ pc[h].main \in {"send", "count", "unset"}
         \/ pc[h].sigio \in {"send", "count", "unset"},
         UNCHANGED <<handled, data>>
  PROVE  RecvInv' /\ GotGrows
<1>1. /\ \A g \in Host \ {h} : pc'[g] = pc[g]
      /\ pc[h].sigio = "idle" => pc'[h].main \in {"app", "wait"} /\ pc'[h].sigio = "idle"
      /\ pc[h].sigio # "idle" => pc'[h].main = pc[h].main /\ pc'[h].sigio = "dispatch"
  BY ReturnPoint
<1>2. \A f, t \in Host : \A i \in DOMAIN data[f][t] : data[f][t][i].from = f
  BY DEF RecvInv, RecvOf
<1>3. CASE Running(h) = "main"
  <2>1. recvQueue' = recvQueue /\ pc[h].sigio = "idle"
    BY <1>3 DEF Return, Running
  <2> QED BY <1>1, <1>2, <2>1, QuietRecv
<1>4. CASE Running(h) # "main"
  <2>1. /\ recvQueue' = [recvQueue EXCEPT ![h] = Tail(@)] /\ pc[h].sigio # "idle"
        /\ pc[h].sigio \notin {"idle", "dispatch"}
    BY <1>4 DEF Return, Running
  <2>2. recvQueue[h] # << >>
    BY <2>1 DEF NetInv, HasWork
  <2>3. recvQueue[h] \in Seq(Message) /\ recvQueue \in [Host -> Seq(Message)]
    BY DEF NetInv, TypeOK
  <2>4. recvQueue'[h] = Tail(recvQueue[h]) /\ \A g \in Host \ {h} : recvQueue'[g] = recvQueue[g]
    BY <2>1, <2>3
  <2>5. Dispatched(Head(recvQueue[h]).from, h, Label(Head(recvQueue[h])))
    BY <2>1 DEF RecvInv, RecvOf
  <2>6. \A g \in Host \ {h} : /\ RecvOf(g)'
                              /\ \A f \in Host, l \in Tag : Got(f, g, l) => Got(f, g, l)'
    BY <1>1, <1>2, <2>4, StillRecv
  <2>7. RecvOf(h)'
    <3>1. \A j \in DOMAIN recvQueue'[h] : recvQueue'[h][j].from \in Host
      BY <2>2, <2>3, <2>4, TailElems DEF RecvInv, RecvOf
    <3> QED BY <1>1, <1>2, <2>1, <3>1 DEF RecvOf
  <2>8. ASSUME NEW f \in Host, NEW l \in Tag, Got(f, h, l)
        PROVE  Got(f, h, l)'
    <3>1. CASE Dispatched(f, h, l)
      BY <3>1 DEF Dispatched, Got
    <3>2. CASE Taken(f, h, l)
      <4>1. PICK i \in DOMAIN recvQueue[h] : recvQueue[h][i].from = f /\ Label(recvQueue[h][i]) = l
        BY <3>2 DEF Taken
      <4>2. CASE recvQueue[h][i] = Head(recvQueue[h])
        <5>1. Dispatched(f, h, l)
          BY <2>5, <4>1, <4>2
        <5> QED BY <5>1 DEF Dispatched, Got
      <4>3. CASE recvQueue[h][i] # Head(recvQueue[h])
        <5>1. PICK j \in DOMAIN Tail(recvQueue[h]) : Tail(recvQueue[h])[j] = recvQueue[h][i]
          BY <2>2, <2>3, <4>3, TailElems
        <5> QED BY <2>4, <4>1, <5>1 DEF Taken, Got, Label
      <4> QED BY <4>2, <4>3
    <3> QED BY <2>8, <3>1, <3>2 DEF Got
  <2> QED BY <2>6, <2>7, <2>8 DEF RecvInv, GotGrows
<1> QED BY <1>3, <1>4

(* A message is dispatched, and dropped unless it is to be answered. *)
LEMMA HandlesRecv ==
  ASSUME NetInv, RecvInv, NEW h \in Host, Handles(h)
  PROVE  RecvInv' /\ GotGrows
<1>1. PICK c : /\ Dispatching(h, c)
               /\ \/ nextFreeMsgInQueue(h) /\ UNCHANGED <<sndHead, sndTail, sndQueueSize, recvQueue>>
                  \/ NoAnswer(h)
  BY HandlesForms
<1>2. /\ pc[h].sigio = "dispatch" /\ recvQueue[h] # << >>
      /\ handled' = [handled EXCEPT ![Head(recvQueue[h]).from][h] =
                       Append(@, Label(Head(recvQueue[h])))]
      /\ UNCHANGED <<data, faults, ended>>
  BY <1>1 DEF Dispatching, netVars
<1>3. PICK f0 \in Host, l0 \in Tag : f0 = Head(recvQueue[h]).from /\ l0 = Label(Head(recvQueue[h]))
  BY <1>2, TakenFacts
<1>4. HistoryType /\ recvQueue \in [Host -> Seq(Message)]
  BY DEF RecvInv, NetInv, TypeOK
<1>5. /\ handled[f0][h] \in Seq(Tag)
      /\ Append(handled[f0][h], l0) \in Seq(Tag)
  BY <1>3, <1>4, AppendProperties DEF HistoryType
<1>6. /\ HistoryType'
      /\ handled'[f0][h] = Append(handled[f0][h], l0)
      /\ \A f, t \in Host : (f # f0 \/ t # h) => handled'[f][t] = handled[f][t]
  BY <1>2, <1>3, <1>4, <1>5 DEF HistoryType
<1>7. ASSUME NEW f \in Host, NEW l \in Tag, Dispatched(f, h, l)
      PROVE  Dispatched(f, h, l)'
  <2> PICK i \in DOMAIN handled[f][h] : handled[f][h][i] = l
    BY <1>7 DEF Dispatched
  <2>1. CASE f = f0
    <3>1. i \in DOMAIN handled'[f][h] /\ handled'[f][h][i] = l
      BY <1>5, <1>6, <2>1, AppendElems
    <3> QED BY <3>1 DEF Dispatched
  <2>2. CASE f # f0
    BY <1>6, <2>2 DEF Dispatched
  <2> QED BY <2>1, <2>2
<1>8. Dispatched(f0, h, l0)'
  BY <1>5, <1>6, AppendElems DEF Dispatched
<1>9. /\ \A f, t \in Host : \A i \in DOMAIN data'[f][t] : data'[f][t][i].from = f
      /\ \A i \in DOMAIN recvQueue[h] : recvQueue[h][i].from \in Host
  BY <1>2 DEF RecvInv, RecvOf
<1>10. ASSUME \A g \in Host \ {h} : pc'[g] = pc[g] /\ recvQueue'[g] = recvQueue[g]
       PROVE  \A g \in Host \ {h} : /\ RecvOf(g)'
                                    /\ \A f \in Host, l \in Tag : Got(f, g, l) => Got(f, g, l)'
  BY <1>6, <1>9, <1>10, StillRecv
<1>11. CASE nextFreeMsgInQueue(h) /\ recvQueue' = recvQueue
  <2>1. /\ \A g \in Host \ {h} : pc'[g] = pc[g]
        /\ pc'[h].sigio \in {"fill", "crashed"}
    BY <1>2, <1>11, NextFreePoint
  <2>2. Dispatched(Head(recvQueue[h]).from, h, Label(Head(recvQueue[h])))'
    BY <1>3, <1>8, <1>11 DEF Label, Dispatched
  <2>3. RecvOf(h)'
    BY <1>9, <1>11, <2>1, <2>2 DEF RecvOf
  <2>4. \A f \in Host, l \in Tag : Taken(f, h, l) => Taken(f, h, l)'
    BY <1>11 DEF Taken, Label
  <2>5. \A f \in Host, l \in Tag : Got(f, h, l) => Got(f, h, l)'
    BY <1>7, <2>4 DEF Got
  <2> QED BY <1>6, <1>10, <1>11, <2>1, <2>3, <2>5 DEF RecvInv, GotGrows
<1>12. CASE NoAnswer(h)
  <2>1. recvQueue' = [recvQueue EXCEPT ![h] = Tail(@)] /\ pc' = pc
    BY <1>12 DEF NoAnswer
  <2>2. recvQueue'[h] = Tail(recvQueue[h]) /\ \A g \in Host \ {h} : recvQueue'[g] = recvQueue[g]
    BY <1>4, <2>1
  <2>3. recvQueue[h] \in Seq(Message)
    BY <1>4
  <2>4. \A j \in DOMAIN recvQueue'[h] : recvQueue'[h][j].from \in Host
    BY <1>2, <1>9, <2>2, <2>3, TailElems
  <2>5. RecvOf(h)'
    BY <1>2, <1>9, <2>1, <2>4 DEF RecvOf
  <2>6. ASSUME NEW f \in Host, NEW l \in Tag, Taken(f, h, l)
        PROVE  Got(f, h, l)'
    <3>1. PICK i \in DOMAIN recvQueue[h] : recvQueue[h][i].from = f /\ Label(recvQueue[h][i]) = l
      BY <2>6 DEF Taken
    <3>2. CASE recvQueue[h][i] = Head(recvQueue[h])
      BY <1>3, <1>8, <3>1, <3>2 DEF Got
    <3>3. CASE recvQueue[h][i] # Head(recvQueue[h])
      <4>1. PICK j \in DOMAIN Tail(recvQueue[h]) : Tail(recvQueue[h])[j] = recvQueue[h][i]
        BY <1>2, <2>3, <3>3, TailElems
      <4> QED BY <2>2, <3>1, <4>1 DEF Taken, Got, Label
    <3> QED BY <3>2, <3>3
  <2>7. \A f \in Host, l \in Tag : Got(f, h, l) => Got(f, h, l)'
    BY <1>7, <2>6 DEF Got
  <2> QED BY <1>6, <1>10, <2>1, <2>2, <2>5, <2>7 DEF RecvInv, GotGrows
<1> QED BY <1>1, <1>11, <1>12

LEMMA StaysHomeRecv ==
  ASSUME Masked, NetInv, MaskInv, RecvInv, NEW h \in Host, StaysHome(h)
  PROVE  RecvInv' /\ GotGrows
<1>0. /\ PcType /\ HistoryType
      /\ \A f, t \in Host : \A i \in DOMAIN data[f][t] : data[f][t][i].from = f
  BY DEF NetInv, TypeOK, PcType, RecvInv, RecvOf
<1>1. CASE Handles(h)
  BY <1>1, HandlesRecv
<1>2. ASSUME Return(h), UNCHANGED <<handled, ended, faults, data>>,
             \/ pc[h].sigio = "idle" /\ pc[h].main \in {"send", "count", "unset"}
             \/ pc[h].sigio \in {"send", "count", "unset"}
      PROVE  RecvInv' /\ GotGrows
  <2>1. HistoryType'
    BY <1>0, <1>2 DEF HistoryType
  <2> QED BY <1>2, <2>1, ReturnRecv
<1>3. ASSUME NEW p \in {"fill", "crashed", "send", "count", "set", "transmit", "unset", "app"}, Goto(h, p),
             p = "app" => pc[h].sigio = "idle",
             pc[h].sigio # "dispatch",
             UNCHANGED <<handled, ended, faults, data, recvQueue>>
      PROVE  RecvInv' /\ GotGrows
  <2>1. /\ \A g \in Host \ {h} : pc'[g] = pc[g]
        /\ pc[h].sigio = "idle" => pc'[h].sigio = "idle"
        /\ pc[h].sigio # "idle" => pc'[h].sigio = p
    BY <1>0, <1>3, GotoPoint DEF Points, HandlerPoints, RacePoints
  <2>2. HistoryType'
    BY <1>0, <1>3 DEF HistoryType
  <2> QED BY <1>0, <1>3, <2>1, <2>2, QuietRecv
<1>4. CASE Begin(h)
  <2>1. /\ Goto(h, "crashed") \/ Goto(h, "fill")
        /\ UNCHANGED <<handled, ended, faults, data, recvQueue>>
    BY <1>4 DEF Begin, nextFreeMsgInQueue, history, netVars
  <2>2. pc[h].sigio = "idle"
    BY <1>4 DEF Begin, Running
  <2> QED BY <1>3, <2>1, <2>2
<1>5. CASE Fill(h)
  <2>1. Goto(h, "send") /\ UNCHANGED <<handled, ended, faults, data, recvQueue>>
    BY <1>5 DEF Fill, history, netVars
  <2>2. pc[h].sigio # "dispatch"
    BY <1>0, <1>5, AtPoint DEF Fill
  <2> QED BY <1>3, <2>1, <2>2
<1>6. CASE Send(h)
  <2>1. /\ UNCHANGED <<handled, ended, faults, data>>
        /\ Return(h) \/ (Goto(h, "count") /\ recvQueue' = recvQueue)
    BY <1>6 DEF Send, netVars
  <2>2. \/ pc[h].sigio = "idle" /\ pc[h].main = "send"
        \/ pc[h].sigio = "send"
    BY <1>0, <1>6, AtPoint DEF Send
  <2> QED BY <1>2, <1>3, <2>1, <2>2
<1>7. CASE Count(h)
  <2>1. /\ UNCHANGED <<handled, ended, faults, data>>
        /\ Return(h) \/ (Goto(h, "set") /\ recvQueue' = recvQueue)
    BY <1>7 DEF Count, netVars, history
  <2>2. \/ pc[h].sigio = "idle" /\ pc[h].main = "count"
        \/ pc[h].sigio = "count"
    BY <1>0, <1>7, AtPoint DEF Count
  <2> QED BY <1>2, <1>3, <2>1, <2>2
<1>8. CASE SetSending(h)
  <2>1. /\ UNCHANGED <<handled, ended, faults, data, recvQueue>>
        /\ Goto(h, "transmit") \/ Goto(h, "unset")
    BY <1>8 DEF SetSending, netVars, history, Loop
  <2>2. pc[h].sigio # "dispatch"
    BY <1>0, <1>8, AtPoint DEF SetSending
  <2> QED BY <1>3, <2>1, <2>2
<1>9. CASE Unset(h)
  <2>1. UNCHANGED <<handled, ended, faults, data>> /\ Return(h)
    BY <1>9 DEF Unset, netVars, history
  <2>2. \/ pc[h].sigio = "idle" /\ pc[h].main = "unset"
        \/ pc[h].sigio = "unset"
    BY <1>0, <1>9, AtPoint DEF Unset
  <2> QED BY <1>2, <2>1, <2>2
<1>10. CASE Wake(h)
  <2>1. Goto(h, "app") /\ UNCHANGED <<handled, ended, faults, data, recvQueue>>
    BY <1>10 DEF Wake, netVars, history
  <2>2. pc[h].sigio = "idle"
    BY <1>10 DEF Wake, Running
  <2> QED BY <1>3, <2>1, <2>2
<1>11. CASE HandlerEnds(h)
  <2>1. /\ recvQueue[h] = << >> /\ pc' = [pc EXCEPT ![h].sigio = "idle"]
        /\ UNCHANGED <<handled, ended, faults, data, recvQueue>>
    BY <1>11 DEF HandlerEnds, netVars, history
  <2>2. \A g \in Host \ {h} : pc'[g] = pc[g]
    BY <1>0, <2>1 DEF PcType
  <2>3. pc'[h].sigio = "idle"
    BY <1>0, <2>1 DEF PcType
  <2>4. HistoryType'
    BY <1>0, <2>1 DEF HistoryType
  <2> QED BY <1>0, <2>1, <2>2, <2>3, <2>4, QuietRecv
<1> QED BY <1>1, <1>4, <1>5, <1>6, <1>7, <1>8, <1>9, <1>10, <1>11 DEF StaysHome

(* How the steps of the loop of sendMsg move the two threads. *)
LEMMA LoopPoint ==
  ASSUME NetInv, NEW h \in Host, Transmit(h) \/ ReadAck(h) \/ DropAcked(h) \/ Timeout(h)
  PROVE  /\ \A g \in Host \ {h} : pc'[g] = pc[g]
         /\ \/ /\ pc'[h].sigio \in LoopPoints /\ pc[h].sigio \in LoopPoints
               /\ pc'[h].main = pc[h].main
            \/ /\ pc'[h].sigio = "idle" /\ pc[h].sigio = "idle"
               /\ pc'[h].main \in LoopPoints /\ pc[h].main \in LoopPoints
         /\ UNCHANGED <<recvQueue, handled>>
<1>0. PcType
  BY DEF NetInv, TypeOK, PcType
<1>1. /\ At(h, "transmit") \/ At(h, "await") \/ At(h, "acked")
      /\ UNCHANGED <<recvQueue, handled>>
  BY DEF Transmit, ReadAck, DropAcked, Timeout, history
<1>2. pc' = pc \/ \E p \in LoopPoints : Goto(h, p)
  <2>1. Dequeue(h) => Goto(h, "transmit") \/ Goto(h, "unset")
    BY DEF Dequeue, Loop
  <2>2. \/ pc' = pc \/ Goto(h, "transmit") \/ Goto(h, "unset") \/ Goto(h, "await") \/ Goto(h, "acked")
    BY <2>1 DEF Transmit, ReadAck, DropAcked, Timeout, RetryOnce
  <2> QED BY <2>2 DEF LoopPoints
<1>3. \/ pc[h].sigio = "idle" /\ pc[h].main \in LoopPoints
      \/ pc[h].sigio \in LoopPoints
  BY <1>0, <1>1, AtPoint DEF LoopPoints
<1>4. CASE pc' = pc
  BY <1>1, <1>3, <1>4
<1>5. CASE \E p \in LoopPoints : Goto(h, p)
  <2>1. PICK p \in LoopPoints : Goto(h, p)
    BY <1>5
  <2>2. /\ \A g \in Host \ {h} : pc'[g] = pc[g]
        /\ pc[h].sigio = "idle" => pc'[h].main = p /\ pc'[h].sigio = "idle"
        /\ pc[h].sigio # "idle" => pc'[h].main = pc[h].main /\ pc'[h].sigio = p
    BY <1>0, <2>1, GotoPoint DEF LoopPoints, Points, HandlerPoints, RacePoints
  <2>3. pc[h].sigio \in LoopPoints => pc[h].sigio # "idle"
    BY DEF LoopPoints
  <2> QED BY <1>1, <1>3, <2>1, <2>2, <2>3
<1> QED BY <1>2, <1>4, <1>5

LEMMA TransmitRecv ==
  ASSUME NetInv, RingInv, RecvInv, NEW h \in Host, Transmit(h)
  PROVE  /\ RecvInv' /\ GotGrows
         /\ Top(h).from = h /\ Top(h).to \in Host /\ Top(h) \in Message
         /\ \/ data' = data /\ pending' = pending
            \/ /\ data' = [data EXCEPT ![h][Top(h).to] = Append(@, Top(h))]
               /\ pending' = [pending EXCEPT ![Top(h).to] = TRUE]
<1>0. /\ PcType /\ HistoryType /\ data \in [Host -> [Host -> Seq(Message)]]
      /\ \A f, t \in Host : \A i \in DOMAIN data[f][t] : data[f][t][i].from = f
  BY DEF NetInv, TypeOK, PcType, RecvInv, RecvOf
<1>1. sndQueueSize[h] > 0
  <2>1. {pc[h].main, pc[h].sigio} \cap {"transmit", "await", "acked"} # {}
    BY <1>0, AtPoint DEF Transmit
  <2> QED BY <2>1 DEF NetInv, OneLoops
<1>2. Top(h).from = h /\ Top(h).to \in Host /\ Top(h) \in Message
  BY <1>1, TopOfRing
<1>3. PICK m \in Message, t \in Host : m = Top(h) /\ t = m.to /\ m.from = h
  BY <1>2
<1>4. \/ data' = data /\ pending' = pending
      \/ /\ data' = [data EXCEPT ![h][t] = Append(@, m)]
         /\ pending' = [pending EXCEPT ![t] = TRUE]
  BY <1>3 DEF Transmit
<1>5. \A f, g \in Host : \A i \in DOMAIN data'[f][g] : data'[f][g][i].from = f
  <2>1. CASE data' = data
    BY <1>0, <2>1
  <2>2. CASE data' = [data EXCEPT ![h][t] = Append(@, m)]
    <3>0. \A f, g \in Host :
             data'[f][g] = IF f = h /\ g = t THEN Append(data[h][t], m) ELSE data[f][g]
      <4>1. data' = [f \in Host |-> IF f = h THEN [data[h] EXCEPT ![t] = Append(@, m)] ELSE data[f]]
        BY <1>0, <2>2
      <4>2. \A g \in Host :
              [data[h] EXCEPT ![t] = Append(@, m)][g] = IF g = t THEN Append(data[h][t], m) ELSE data[h][g]
        BY <1>0
      <4> QED BY <4>1, <4>2
    <3>1. data'[h][t] = Append(data[h][t], m)
      BY <3>0
    <3>2. \A f, g \in Host : (f # h \/ g # t) => data'[f][g] = data[f][g]
      BY <3>0
    <3>3. \A i \in DOMAIN data'[h][t] : data'[h][t][i].from = h
      <4>1. data[h][t] \in Seq(Message)
        BY <1>0
      <4>2. \A i \in DOMAIN data'[h][t] :
              data'[h][t][i] = m \/ (i \in DOMAIN data[h][t] /\ data'[h][t][i] = data[h][t][i])
        BY <3>1, <4>1, AppendElems
      <4>3. m.from = h
        BY <1>3
      <4>4. \A i \in DOMAIN data[h][t] : data[h][t][i].from = h
        BY <1>0
      <4> QED BY <4>2, <4>3, <4>4
    <3>4. ASSUME NEW f \in Host, NEW g \in Host
          PROVE  \A i \in DOMAIN data'[f][g] : data'[f][g][i].from = f
      <4>1. CASE f = h /\ g = t
        BY <3>3, <4>1
      <4>2. CASE f # h \/ g # t
        BY <1>0, <3>2, <4>2
      <4> QED BY <4>1, <4>2
    <3> QED BY <3>4
  <2> QED BY <1>4, <2>1, <2>2
<1>6. HistoryType'
  <2>1. \E n \in Nat : faults' = [faults EXCEPT !.loss = n]
    <3>1. PICK lost \in BOOLEAN : faults' = [faults EXCEPT !.loss = IF lost THEN @ + 1 ELSE @]
      BY DEF Transmit
    <3>2. (IF lost THEN faults.loss + 1 ELSE faults.loss) \in Nat
      BY <1>0 DEF HistoryType
    <3> QED BY <3>1, <3>2
  <2>2. UNCHANGED <<handled, ended>>
    BY DEF Transmit, history
  <2> QED BY <1>0, <2>1, <2>2 DEF HistoryType
<1>7. RecvInv' /\ GotGrows
  BY <1>5, <1>6, LoopPoint, QuietRecv DEF LoopPoints
<1> QED BY <1>2, <1>3, <1>4, <1>7

(* A history that is longer by one message keeps its type. *)
LEMMA EndedType ==
  ASSUME NetInv, HistoryType, NEW h \in Host, Top(h) \in Message, Top(h).to \in Host,
         NEW how \in {"acked", "dropped"}, EndedAs(h, how)
  PROVE  /\ ended' \in [Host -> [Host -> Seq(Tag \X {"acked", "dropped"})]]
         /\ ended[h][Top(h).to] \in Seq(Tag \X {"acked", "dropped"})
         /\ <<Label(Top(h)), how>> \in Tag \X {"acked", "dropped"}
         /\ ended'[h][Top(h).to] = Append(ended[h][Top(h).to], <<Label(Top(h)), how>>)
         /\ \A f, t \in Host : (f # h \/ t # Top(h).to) => ended'[f][t] = ended[f][t]
<1>1. PICK t \in Host, e \in Tag \X {"acked", "dropped"} : t = Top(h).to /\ e = <<Label(Top(h)), how>>
  BY LabelType
<1>2. ended' = [ended EXCEPT ![h][t] = Append(@, e)]
  BY <1>1 DEF EndedAs
<1>3. ended[h][t] \in Seq(Tag \X {"acked", "dropped"})
  BY DEF HistoryType
<1>4. Append(ended[h][t], e) \in Seq(Tag \X {"acked", "dropped"})
  BY <1>3, AppendProperties
<1> QED BY <1>1, <1>2, <1>3, <1>4 DEF HistoryType

LEMMA AttemptRecv ==
  ASSUME NetInv, RingInv, RecvInv, NEW h \in Host, ReadAck(h) \/ DropAcked(h) \/ Timeout(h)
  PROVE  RecvInv' /\ GotGrows
<1>0. /\ PcType /\ HistoryType
      /\ \A f, t \in Host : \A i \in DOMAIN data[f][t] : data[f][t][i].from = f
  BY DEF NetInv, TypeOK, PcType, RecvInv, RecvOf
<1>1. sndQueueSize[h] > 0
  <2>1. {pc[h].main, pc[h].sigio} \cap {"transmit", "await", "acked"} # {}
    BY <1>0, AtPoint DEF ReadAck, DropAcked, Timeout
  <2> QED BY <2>1 DEF NetInv, OneLoops
<1>2. Top(h).to \in Host /\ Top(h) \in Message
  BY <1>1, TopOfRing
<1>3. /\ ended' = ended \/ EndedAs(h, "acked") \/ EndedAs(h, "dropped")
      /\ handled' = handled /\ data' = data
  BY DEF ReadAck, DropAcked, Timeout, history, netVars
<1>4. \E n \in Nat : faults' = [faults EXCEPT !.late = n]
  <2>1. CASE ReadAck(h) \/ DropAcked(h)
    <3>1. faults' = faults
      BY <2>1 DEF ReadAck, DropAcked, netVars
    <3> QED BY <1>0, <3>1 DEF HistoryType
  <2>2. CASE Timeout(h)
    <3>1. faults' = [faults EXCEPT !.late = IF UnderWay(h) THEN @ + 1 ELSE @]
      BY <2>2 DEF Timeout
    <3>2. (IF UnderWay(h) THEN faults.late + 1 ELSE faults.late) \in Nat
      BY <1>0 DEF HistoryType
    <3> HIDE DEF UnderWay
    <3> QED BY <3>1, <3>2
  <2> QED BY <2>1, <2>2
<1>5. ended' \in [Host -> [Host -> Seq(Tag \X {"acked", "dropped"})]]
  BY <1>0, <1>2, <1>3, EndedType DEF HistoryType
<1>6. HistoryType'
  BY <1>0, <1>3, <1>4, <1>5 DEF HistoryType
<1> QED BY <1>0, <1>3, <1>6, LoopPoint, QuietRecv DEF LoopPoints

(* sigio_handler takes one datagram of every peer that has one in the       *)
(* socket, and leaves none of them out.                                     *)
LEMMA InOrderCovers ==
  ASSUME NEW from \in SUBSET Host, NEW peers \in InOrder(from), NEW f \in from
  PROVE  /\ \A i \in DOMAIN peers : peers[i] \in from
         /\ \E i \in DOMAIN peers : peers[i] = f
<1>1. IsFiniteSet(Host)
  BY FS_Interval, HostNumAssumption DEF Host
<1>2. IsFiniteSet(from) /\ Cardinality(from) \in Nat
  BY <1>1, FS_Subset, FS_CardinalityType
<1> DEFINE n == Cardinality(from)
<1>3. peers \in [1 .. n -> from] /\ \A i, j \in DOMAIN peers : i < j => peers[i] < peers[j]
  BY DEF InOrder
<1>4. \A g \in from : g \in Int
  BY DEF Host
<1>5. Cardinality(1 .. n) = n /\ n \in Nat
  BY <1>2, FS_Interval
<1> HIDE DEF n
<1>6. ASSUME NEW i \in 1 .. n, NEW j \in 1 .. n, peers[i] = peers[j]
      PROVE  i = j
  <2>1. i < j => peers[i] < peers[j]
    BY <1>3
  <2>2. j < i => peers[j] < peers[i]
    BY <1>3
  <2>3. peers[i] \in Int
    BY <1>3, <1>4
  <2> QED BY <1>5, <1>6, <2>1, <2>2, <2>3
<1>7. peers \in Injection(1 .. n, from)
  BY <1>3, <1>6 DEF Injection, IsInjective
<1>8. peers \in Surjection(1 .. n, from)
  BY <1>2, <1>5, <1>7, FS_Injection DEF n
<1> QED BY <1>3, <1>8 DEF Surjection

LEMMA InterruptFacts ==
  ASSUME NetInv, NEW h \in Host, Interrupt(h)
  PROVE  /\ pc[h].sigio = "idle" /\ pc'[h].sigio = "dispatch" /\ pc'[h].main = pc[h].main
         /\ \A g \in Host \ {h} : pc'[g] = pc[g] /\ recvQueue'[g] = recvQueue[g]
         /\ \A f, g \in Host :
              data'[f][g] = IF g = h /\ f \in Readable(h) THEN Tail(data[f][h]) ELSE data[f][g]
         /\ \A f, g \in Host :
              \/ acks'[f][g] = acks[f][g]
              \/ /\ f = h /\ g \in Readable(h)
                 /\ acks'[h][g] = Append(acks[h][g], Head(data[g][h]).seqno)
         /\ \A f \in Readable(h) : \E i \in DOMAIN recvQueue'[h] : recvQueue'[h][i] = Head(data[f][h])
         /\ \A i \in DOMAIN recvQueue'[h] : \E f \in Readable(h) : recvQueue'[h][i] = Head(data[f][h])
         /\ UNCHANGED <<handled, ended>>
         /\ \A g \in Host \ {h} : pending'[g] = pending[g]
<1>0. /\ PcType /\ recvQueue \in [Host -> Seq(Message)]
      /\ data \in [Host -> [Host -> Seq(Message)]] /\ acks \in [Host -> [Host -> Seq(Int)]]
      /\ pending \in [Host -> BOOLEAN]
  BY DEF NetInv, TypeOK, PcType
<1>1. PICK peers \in InOrder(Readable(h)), lost \in SUBSET Readable(h) :
        /\ recvQueue' = [recvQueue EXCEPT ![h] =
                           [i \in DOMAIN peers |-> Head(data[peers[i]][h])]]
        /\ acks' = [acks EXCEPT ![h] =
                      [f \in Host |-> IF f \in Readable(h) \ lost
                                      THEN Append(acks[h][f], Head(data[f][h]).seqno)
                                      ELSE acks[h][f]]]
        /\ data' = [f \in Host |-> IF f \in Readable(h) THEN [data[f] EXCEPT ![h] = Tail(@)]
                                   ELSE data[f]]
  BY DEF Interrupt
<1>2. Readable(h) \in SUBSET Host
  BY DEF Readable
<1>3. /\ pc[h].sigio = "idle" /\ pc' = [pc EXCEPT ![h].sigio = "dispatch"]
      /\ UNCHANGED <<handled, ended>> /\ pending' = [pending EXCEPT ![h] = FALSE]
  BY DEF Interrupt, Interruptible, history
<1>4. /\ \A g \in Host \ {h} : pc'[g] = pc[g] /\ recvQueue'[g] = recvQueue[g] /\ pending'[g] = pending[g]
      /\ pc'[h].sigio = "dispatch" /\ pc'[h].main = pc[h].main
  BY <1>0, <1>1, <1>3 DEF PcType
<1>5. \A f, g \in Host :
        data'[f][g] = IF g = h /\ f \in Readable(h) THEN Tail(data[f][h]) ELSE data[f][g]
  BY <1>0, <1>1
<1>6. \A f, g \in Host :
        \/ acks'[f][g] = acks[f][g]
        \/ /\ f = h /\ g \in Readable(h)
           /\ acks'[h][g] = Append(acks[h][g], Head(data[g][h]).seqno)
  BY <1>0, <1>1
<1>7. recvQueue'[h] = [i \in DOMAIN peers |-> Head(data[peers[i]][h])]
  BY <1>0, <1>1
<1>8. \A f \in Readable(h) : \E i \in DOMAIN recvQueue'[h] : recvQueue'[h][i] = Head(data[f][h])
  <2> SUFFICES ASSUME NEW f \in Readable(h)
               PROVE  \E i \in DOMAIN recvQueue'[h] : recvQueue'[h][i] = Head(data[f][h])
    OBVIOUS
  <2> PICK i \in DOMAIN peers : peers[i] = f
    BY <1>2, InOrderCovers
  <2> QED BY <1>7
<1>9. \A i \in DOMAIN recvQueue'[h] : \E f \in Readable(h) : recvQueue'[h][i] = Head(data[f][h])
  <2> SUFFICES ASSUME NEW i \in DOMAIN recvQueue'[h]
               PROVE  \E f \in Readable(h) : recvQueue'[h][i] = Head(data[f][h])
    OBVIOUS
  <2>1. peers[i] \in Readable(h)
    BY <1>7 DEF InOrder
  <2> QED BY <1>7, <2>1
<1> QED BY <1>3, <1>4, <1>5, <1>6, <1>8, <1>9

LEMMA InterruptRecv ==
  ASSUME NetInv, RecvInv, NEW h \in Host, Interrupt(h)
  PROVE  RecvInv' /\ GotGrows
<1>0. /\ HistoryType /\ data \in [Host -> [Host -> Seq(Message)]]
      /\ \A f, t \in Host : \A i \in DOMAIN data[f][t] : data[f][t][i].from = f
      /\ recvQueue[h] = << >>
  BY InterruptFacts DEF NetInv, TypeOK, RecvInv, RecvOf
<1>1. \A f \in Readable(h) : f \in Host /\ data[f][h] # << >> /\ data[f][h] \in Seq(Message)
  BY <1>0 DEF Readable
<1>2. \A f \in Readable(h) : /\ Head(data[f][h]).from = f
                             /\ \A i \in DOMAIN Tail(data[f][h]) : Tail(data[f][h])[i].from = f
  BY <1>0, <1>1, TailElems
<1>3. ASSUME NEW f \in Host, NEW g \in Host
      PROVE  \A i \in DOMAIN data'[f][g] : data'[f][g][i].from = f
  <2>1. data'[f][g] = IF g = h /\ f \in Readable(h) THEN Tail(data[f][h]) ELSE data[f][g]
    BY InterruptFacts
  <2>2. CASE g = h /\ f \in Readable(h)
    BY <1>2, <2>1, <2>2
  <2>3. CASE ~(g = h /\ f \in Readable(h))
    BY <1>0, <2>1, <2>3
  <2> QED BY <2>2, <2>3
<1>4. \A i \in DOMAIN recvQueue'[h] : recvQueue'[h][i].from \in Host
  BY <1>1, <1>2, InterruptFacts
<1>5. pc'[h].sigio = "dispatch"
  BY InterruptFacts
<1>6. RecvOf(h)'
  BY <1>3, <1>4, <1>5 DEF RecvOf
<1>7. HistoryType'
  <2>1. \E n \in Nat : faults' = [faults EXCEPT !.ackloss = n]
    <3>1. PICK lost \in SUBSET Readable(h) :
                 faults' = [faults EXCEPT !.ackloss = @ + Cardinality(lost)]
      BY DEF Interrupt
    <3>2. IsFiniteSet(Host)
      BY FS_Interval, HostNumAssumption DEF Host
    <3>3. lost \subseteq Host
      BY <1>1
    <3>4. Cardinality(lost) \in Nat
      BY <3>2, <3>3, FS_Subset, FS_CardinalityType
    <3>5. faults.ackloss + Cardinality(lost) \in Nat
      BY <1>0, <3>4 DEF HistoryType
    <3> QED BY <3>1, <3>5
  <2>2. UNCHANGED <<handled, ended>>
    BY InterruptFacts
  <2> QED BY <1>0, <2>1, <2>2 DEF HistoryType
<1>8. \A f \in Host, l \in Tag : Got(f, h, l) => Got(f, h, l)'
  <2>1. \A f \in Host, l \in Tag : ~Taken(f, h, l)
    BY <1>0 DEF Taken
  <2>2. \A f \in Host, l \in Tag : Dispatched(f, h, l) => Dispatched(f, h, l)'
    BY InterruptFacts DEF Dispatched
  <2> QED BY <2>1, <2>2 DEF Got
<1>9. \A g \in Host \ {h} : /\ RecvOf(g)'
                            /\ \A f \in Host, l \in Tag : Got(f, g, l) => Got(f, g, l)'
  <2> SUFFICES ASSUME NEW g \in Host \ {h}
               PROVE  /\ RecvOf(g)'
                      /\ \A f \in Host, l \in Tag : Got(f, g, l) => Got(f, g, l)'
    OBVIOUS
  <2>1. pc'[g] = pc[g] /\ recvQueue'[g] = recvQueue[g] /\ handled' = handled
    BY InterruptFacts
  <2> QED BY <1>3, <2>1, StillRecv
<1> QED BY <1>6, <1>7, <1>8, <1>9 DEF RecvInv, GotGrows

LEMMA InitRecv == Init => RecvInv
<1> SUFFICES ASSUME Init PROVE RecvInv
  OBVIOUS
<1>1. HistoryType
  <2>1. \A S : << >> \in Seq(S)
    OBVIOUS
  <2> QED BY <2>1 DEF Init, HistoryType, PerPair
<1>2. ASSUME NEW h \in Host PROVE RecvOf(h)
  <2>1. pc[h].sigio = "idle" /\ recvQueue[h] = << >> /\ \A f \in Host : data[f][h] = << >>
    BY DEF Init, PerPair
  <2> QED BY <2>1 DEF RecvOf
<1> QED BY <1>1, <1>2 DEF RecvInv

LEMMA NextRecv ==
  ASSUME Masked, NetInv, MaskInv, RingInv, RecvInv, [Next]_vars
  PROVE  RecvInv' /\ GotGrows
<1>1. CASE UNCHANGED vars
  <2>1. UNCHANGED <<recvQueue, handled, ended, faults, data, pc>>
    BY <1>1 DEF vars, netVars, history
  <2>2. HistoryType'
    BY <2>1 DEF RecvInv, HistoryType
  <2>3. \A f, t \in Host : \A i \in DOMAIN data'[f][t] : data'[f][t][i].from = f
    BY <2>1 DEF RecvInv, RecvOf
  <2> QED BY <2>1, <2>2, <2>3, ZeroHost, QuietRecv
<1>2. CASE Next
  <2> PICK h \in Host : Step(h) \/ Interrupt(h)
    BY <1>2 DEF Next
  <2> QED BY StepForms, StaysHomeRecv, TransmitRecv, AttemptRecv, InterruptRecv
<1> QED BY <1>1, <1>2

-----------------------------------------------------------------------------
(* What is on its way *)

(* In a set of hosts that wait for each other in a circle (Jammed) every    *)
(* handler is in the loop of sendMsg, transmitting again or polling, with   *)
(* no acknowledgement there, until somebody gives up.                       *)
Stuck(g, S) ==
  \/ pc[g].sigio = "crashed"
  \/ pc[g].sigio \in {"transmit", "await"} /\ Top(g).to \in S /\ acks[Top(g).to][g] = << >>

Jam(t) == \E S \in SUBSET Host : t \in S /\ \A g \in S : Stuck(g, S)

(* An acknowledgement in h's socket is the only one, is that of the message *)
(* that h polls for, which t has, and no second copy of it is on its way.   *)
AckOnWay(h, t) ==
  acks[t][h] # << >> => /\ t # h /\ Waits(h) /\ Top(h).to = t
                        /\ acks[t][h] = <<Top(h).seqno>>
                        /\ data[h][t] = << >>
                        /\ Got(h, t, Label(Top(h)))

(* A datagram in t's socket is the one that h sends; a second copy follows  *)
(* only where t is jammed.                                                  *)
DataOnWay(h, t) ==
  h # t /\ data[h][t] # << >> => /\ Polls(h) /\ Top(h).to = t /\ pending[t]
                                 /\ \A i \in DOMAIN data[h][t] : data[h][t][i] = Top(h)
                                 /\ Jam(t) \/ (Waits(h) /\ Len(data[h][t]) = 1)

(* What was acknowledged has arrived. *)
EndedGot(h, t) == \A i \in DOMAIN ended[h][t] : Got(h, t, ended[h][t][i][1])

WireInv == SentMeansAcked =>
  \A h, t \in Host : AckOnWay(h, t) /\ DataOnWay(h, t) /\ EndedGot(h, t)

(* A host that transmits or polls has something to send. *)
LEMMA PollsTop ==
  ASSUME NetInv, RingInv, NEW h \in Host, Polls(h) \/ Waits(h)
  PROVE  /\ Polls(h) /\ sndQueueSize[h] > 0
         /\ Top(h) \in Message /\ Label(Top(h)) \in Tag
         /\ Top(h).from = h /\ Top(h).to \in Host
<1>1. Polls(h)
  BY DEF Polls, Waits
<1>2. sndQueueSize[h] > 0
  BY <1>1 DEF NetInv, OneLoops, Polls
<1> QED BY <1>1, <1>2, TopOfRing, LabelType

(* What the steps that stay at home leave alone. *)
LEMMA StaysHomePoint ==
  ASSUME NetInv, NEW h \in Host, StaysHome(h)
  PROVE  /\ \A g \in Host \ {h} : pc'[g] = pc[g]
         /\ pc[h].sigio \notin {"crashed", "transmit", "await"}
         /\ pc[h].main \in {"transmit", "await"} => pc'[h].main = pc[h].main
         /\ UNCHANGED <<data, acks, pending, ended>>
<1>0. PcType
  BY DEF NetInv, TypeOK, PcType
<1>1. ASSUME NEW p \in {"fill", "send", "count", "set", "unset", "app"}, At(h, p),
             \E q : Goto(h, q)
      PROVE  /\ \A g \in Host \ {h} : pc'[g] = pc[g]
             /\ pc[h].sigio \notin {"crashed", "transmit", "await"}
             /\ pc[h].main \in {"transmit", "await"} => pc'[h].main = pc[h].main
  <2>1. \/ pc[h].sigio = "idle" /\ pc[h].main = p
        \/ pc[h].sigio # "idle" /\ pc[h].sigio = p
    BY <1>0, <1>1, AtPoint
  <2> QED BY <1>0, <1>1, <2>1 DEF Goto, Running, PcType
<1>2. CASE Begin(h)
  <2>1. At(h, "app") /\ \E q : Goto(h, q)
    BY <1>2 DEF Begin, nextFreeMsgInQueue
  <2>2. UNCHANGED <<data, acks, pending, ended>>
    BY <1>2 DEF Begin, netVars, history
  <2> QED BY <1>1, <2>1, <2>2
<1>3. CASE Fill(h)
  <2>1. At(h, "fill") /\ Goto(h, "send") /\ UNCHANGED <<data, acks, pending, ended>>
    BY <1>3 DEF Fill, netVars, history
  <2> QED BY <1>1, <2>1
<1>r. ASSUME Return(h) PROVE \E q : Goto(h, q)
  BY <1>r DEF Return
<1>4. CASE Send(h)
  <2>1. At(h, "send") /\ (Return(h) \/ Goto(h, "count")) /\ UNCHANGED <<data, acks, pending, ended>>
    BY <1>4 DEF Send, netVars
  <2> QED BY <1>1, <1>r, <2>1
<1>5. CASE Count(h)
  <2>1. At(h, "count") /\ (Return(h) \/ Goto(h, "set")) /\ UNCHANGED <<data, acks, pending, ended>>
    BY <1>5 DEF Count, netVars, history
  <2> QED BY <1>1, <1>r, <2>1
<1>6. CASE SetSending(h)
  <2>1. /\ At(h, "set") /\ (Goto(h, "transmit") \/ Goto(h, "unset"))
        /\ UNCHANGED <<data, acks, pending, ended>>
    BY <1>6 DEF SetSending, Loop, netVars, history
  <2> QED BY <1>1, <2>1
<1>7. CASE Unset(h)
  <2>1. At(h, "unset") /\ Return(h) /\ UNCHANGED <<data, acks, pending, ended>>
    BY <1>7 DEF Unset, netVars, history
  <2> QED BY <1>1, <1>r, <2>1
<1>8. CASE Wake(h)
  <2>1. /\ pc[h].sigio = "idle" /\ pc[h].main = "wait"
        /\ Goto(h, "app") /\ UNCHANGED <<data, acks, pending, ended>>
    BY <1>0, <1>8, AtPoint DEF Wake, Running, netVars, history
  <2> QED BY <1>0, <2>1 DEF Goto, Running, PcType
<1>9. CASE Handles(h)
  <2>1. PICK c : /\ Dispatching(h, c)
                 /\ \/ nextFreeMsgInQueue(h) /\ UNCHANGED <<sndHead, sndTail, sndQueueSize, recvQueue>>
                    \/ NoAnswer(h)
    BY <1>9, HandlesForms
  <2>2. pc[h].sigio = "dispatch" /\ UNCHANGED <<data, acks, pending, ended>>
    BY <2>1 DEF Dispatching, netVars
  <2>3. pc' = pc \/ \E q : Goto(h, q)
    BY <2>1 DEF NoAnswer, nextFreeMsgInQueue
  <2> QED BY <1>0, <2>2, <2>3 DEF Goto, Running, PcType
<1>10. CASE HandlerEnds(h)
  <2>1. /\ pc[h].sigio = "dispatch" /\ pc' = [pc EXCEPT ![h].sigio = "idle"]
        /\ UNCHANGED <<data, acks, pending, ended>>
    BY <1>10 DEF HandlerEnds, netVars, history
  <2> QED BY <1>0, <2>1 DEF PcType
<1> QED BY <1>2, <1>3, <1>4, <1>5, <1>6, <1>7, <1>8, <1>9, <1>10 DEF StaysHome

(* An attempt ends with an acknowledgement, with another attempt, or for    *)
(* good.                                                                    *)
LEMMA TimeoutForms ==
  ASSUME NetInv, RingInv, RecvInv, NEW h \in Host, Timeout(h), SentMeansAcked'
  PROVE  /\ Waits(h) /\ Goto(h, "transmit")
         /\ UNCHANGED <<sndQueue, sndHead, sndTail, sndQueueSize, data, acks, pending, ended>>
         /\ UnderWay(h) => faults.late < MaxLate
<1>0. PcType /\ HistoryType
  BY DEF NetInv, TypeOK, PcType, RecvInv
<1>1. Waits(h)
  BY <1>0, AtPoint DEF Timeout, Waits
<1>2. Top(h).to \in Host /\ Top(h) \in Message
  BY <1>1, PollsTop
<1>3. CASE retryNum[h] + 1 < MAX_RETRY_NUM
  BY <1>1, <1>3 DEF Timeout, RetryOnce
<1>4. CASE ~(retryNum[h] + 1 < MAX_RETRY_NUM)
  <2>1. EndedAs(h, "dropped")
    BY <1>2, <1>4 DEF Timeout
  <2>2. /\ ended[h][Top(h).to] \in Seq(Tag \X {"acked", "dropped"})
        /\ <<Label(Top(h)), "dropped">> \in Tag \X {"acked", "dropped"}
        /\ ended'[h][Top(h).to] = Append(ended[h][Top(h).to], <<Label(Top(h)), "dropped">>)
    BY <1>0, <1>2, <2>1, EndedType
  <2>3. PICK t \in Host, e \in Tag \X {"acked", "dropped"} :
          t = Top(h).to /\ e = <<Label(Top(h)), "dropped">>
    BY <1>2, <2>2
  <2>4. \E i \in DOMAIN ended'[h][t] : ended'[h][t][i] = e
    <3>1. /\ ended[h][t] \in Seq(Tag \X {"acked", "dropped"})
          /\ ended'[h][t] = Append(ended[h][t], e)
      BY <2>2, <2>3
    <3> DEFINE S == Tag \X {"acked", "dropped"}
    <3>2. ended[h][t] \in Seq(S) /\ e \in S
      BY <2>3, <3>1
    <3> HIDE DEF S
    <3>3. \E i \in DOMAIN Append(ended[h][t], e) : Append(ended[h][t], e)[i] = e
      BY <3>2, AppendElems
    <3> QED BY <3>1, <3>3
  <2>5. GivenUp(h, t)'
    BY <2>3, <2>4 DEF GivenUp
  <2> QED BY <2>5 DEF SentMeansAcked
<1> QED BY <1>3, <1>4

LEMMA SentStays ==
  ASSUME NetInv, RingInv, RecvInv, NEW h \in Host, Step(h) \/ Interrupt(h), SentMeansAcked'
  PROVE  SentMeansAcked
<1>0. PcType /\ HistoryType
  BY DEF NetInv, TypeOK, PcType, RecvInv
<1>1. ASSUME ended' = ended PROVE SentMeansAcked
  BY <1>1 DEF SentMeansAcked, GivenUp
<1>2. CASE ReadAck(h)
  <2>1. ended' = ended \/ EndedAs(h, "acked")
    BY <1>2 DEF ReadAck
  <2>2. CASE EndedAs(h, "acked")
    <3>1. Waits(h)
      BY <1>0, <1>2, AtPoint DEF ReadAck, Waits
    <3>2. PICK t \in Host, e \in Tag \X {"acked", "dropped"} :
             /\ ended'[h][t] = Append(ended[h][t], e)
             /\ ended[h][t] \in Seq(Tag \X {"acked", "dropped"})
             /\ \A f, g \in Host : (f # h \/ g # t) => ended'[f][g] = ended[f][g]
      BY <1>0, <2>2, <3>1, PollsTop, EndedType
    <3>3. \A i \in DOMAIN ended[h][t] : i \in DOMAIN ended'[h][t] /\ ended'[h][t][i] = ended[h][t][i]
      BY <3>2, AppendElems
    <3>4. ASSUME NEW f \in Host, NEW g \in Host, GivenUp(f, g) PROVE GivenUp(f, g)'
      BY <3>2, <3>3, <3>4 DEF GivenUp
    <3> QED BY <3>4 DEF SentMeansAcked
  <2> QED BY <1>1, <2>1, <2>2
<1>3. CASE Timeout(h)
  BY <1>1, <1>3, TimeoutForms
<1>4. CASE Interrupt(h)
  BY <1>1, <1>4, InterruptFacts
<1>5. CASE Transmit(h)
  BY <1>1, <1>5 DEF Transmit, history
<1>6. CASE StaysHome(h)
  BY <1>1, <1>6, StaysHomePoint
<1>7. CASE DropAcked(h)
  BY <1>1, <1>7 DEF DropAcked, history
<1> QED BY <1>2, <1>3, <1>4, <1>5, <1>6, <1>7, StepForms

(* msgDequeue(0) leaves the queues of other hosts alone. *)
LEMMA OthersTops ==
  ASSUME NetInv, NEW h \in Host, DropAcked(h), NEW g \in Host \ {h}
  PROVE  Top(g)' = Top(g)
<1>1. sndHead' = [sndHead EXCEPT ![h] = (@ + 1) % MAX_QUEUE_SIZE] /\ sndQueue' = sndQueue
  BY DEF DropAcked, Dequeue
<1>2. sndHead'[g] = sndHead[g]
  BY <1>1 DEF NetInv, TypeOK
<1> QED BY <1>1, <1>2 DEF Top

(* A jam lasts until somebody gives up. *)
LEMMA JamKept ==
  ASSUME NetInv, MaskInv, RingInv, RecvInv, NEW h \in Host, Step(h) \/ Interrupt(h),
         SentMeansAcked', NEW t \in Host, Jam(t)
  PROVE  Jam(t)'
<1>0. PcType
  BY DEF NetInv, TypeOK, PcType
<1>1. PICK S \in SUBSET Host : t \in S /\ \A g \in S : Stuck(g, S)
  BY DEF Jam
<1> SUFFICES ASSUME NEW g \in S PROVE Stuck(g, S)'
  BY <1>1 DEF Jam
<1>2. Stuck(g, S) /\ g \in Host
  BY <1>1
<1>3. pc[g].sigio \in {"transmit", "await"} => sndQueueSize[g] > 0
  BY <1>2 DEF NetInv, OneLoops
<1>4. ASSUME TopsKept, pc'[g] = pc[g], \A k \in S : acks'[k][g] = acks[k][g]
      PROVE  Stuck(g, S)'
  BY <1>2, <1>3, <1>4 DEF TopsKept, Stuck
<1>5. CASE StaysHome(h)
  <2>1. g # h
    BY <1>2, <1>5, StaysHomePoint DEF Stuck
  <2>2. pc'[g] = pc[g] /\ acks' = acks
    BY <1>2, <1>5, <2>1, StaysHomePoint
  <2>3. TopsKept
    BY <1>5, StaysHomeRing
  <2> QED BY <1>4, <2>2, <2>3
<1>6. CASE Transmit(h)
  <2>1. TopsKept /\ acks' = acks
    BY <1>6, TransmitRing DEF Transmit
  <2>2. CASE g # h
    BY <1>2, <1>4, <1>6, <2>1, <2>2, LoopPoint
  <2>3. CASE g = h
    <3>1. Goto(h, "await") /\ (At(h, "transmit"))
      BY <1>6 DEF Transmit
    <3>2. pc'[h].sigio = "await" /\ pc[h].sigio = "transmit"
      BY <1>0, <1>2, <2>3, <3>1 DEF Stuck, At, Goto, Running, PcType
    <3> QED BY <1>2, <1>3, <2>1, <2>3, <3>2 DEF TopsKept, Stuck
  <2> QED BY <2>2, <2>3
<1>7. CASE ReadAck(h)
  <2>1. acks[Top(h).to][h] # << >> /\ acks' = [acks EXCEPT ![Top(h).to][h] = Tail(@)]
        /\ sndQueue' = sndQueue
    BY <1>7 DEF ReadAck
  <2>2. pc[h].sigio # "crashed"
    BY <1>0, <1>7, AtPoint DEF ReadAck
  <2>3. g # h
    BY <1>2, <2>1, <2>2 DEF Stuck
  <2>4. pc'[g] = pc[g]
    BY <1>2, <1>7, <2>3, LoopPoint
  <2>5. \A k \in Host : acks'[k][g] = acks[k][g]
    <3>1. PICK a \in Host : a = Top(h).to
      BY <1>7 DEF ReadAck
    <3>2. acks \in [Host -> [Host -> Seq(Int)]]
      BY DEF NetInv, TypeOK
    <3>3. acks' = [acks EXCEPT ![a][h] = Tail(@)]
      BY <2>1, <3>1
    <3> QED BY <1>2, <2>3, <3>2, <3>3
  <2>6. Top(g)' = Top(g)
    <3>1. sndHead' = sndHead
      BY <1>7 DEF ReadAck
    <3> QED BY <2>1, <3>1 DEF Top
  <2> QED BY <1>1, <1>2, <2>4, <2>5, <2>6 DEF Stuck
<1>8. CASE Timeout(h)
  <2>1. /\ Waits(h) /\ Goto(h, "transmit")
        /\ UNCHANGED <<sndQueue, sndHead, acks>>
    BY <1>8, TimeoutForms
  <2>2. TopsKept
    BY <2>1 DEF TopsKept, Top
  <2>3. CASE g # h
    BY <1>2, <1>4, <1>8, <2>1, <2>2, <2>3, LoopPoint
  <2>4. CASE g = h
    <3>1. At(h, "await")
      BY <1>8 DEF Timeout
    <3>2. pc'[h].sigio = "transmit" /\ pc[h].sigio = "await"
      BY <1>0, <1>2, <2>1, <2>4, <3>1 DEF Stuck, At, Goto, Running, PcType
    <3> QED BY <1>2, <1>3, <2>1, <2>2, <2>4, <3>2 DEF TopsKept, Stuck
  <2> QED BY <2>3, <2>4
<1>9. CASE Interrupt(h)
  <2>1. pc[h].sigio = "idle" /\ \A f \in Host \ {h} : pc'[f] = pc[f]
    BY <1>9, InterruptFacts
  <2>2. h \notin S
    BY <1>1, <2>1 DEF Stuck
  <2>3. \A k \in S : acks'[k][g] = acks[k][g]
    BY <1>1, <1>2, <1>9, <2>2, InterruptFacts
  <2>4. TopsKept
    BY <1>9, InterruptRing
  <2> QED BY <1>2, <1>4, <2>1, <2>2, <2>3, <2>4
<1>10. CASE DropAcked(h)
  <2>1. h \notin S
    BY <1>0, <1>1, <1>10, AtPoint DEF DropAcked, Stuck
  <2>2. pc'[g] = pc[g]
    BY <1>2, <1>10, <2>1, LoopPoint
  <2>3. Top(g)' = Top(g) /\ acks' = acks
    BY <1>2, <1>10, <2>1, OthersTops DEF DropAcked, netVars
  <2> QED BY <1>1, <1>2, <2>2, <2>3 DEF Stuck
<1> QED BY <1>5, <1>6, <1>7, <1>8, <1>9, <1>10, StepForms

(* A pair of hosts between which nothing moves. *)
LEMMA StillWire ==
  ASSUME NetInv, RingInv, NEW h \in Host, NEW t \in Host,
         data'[h][t] = data[h][t], acks'[t][h] = acks[t][h],
         h # t /\ data[h][t] # << >> /\ pending[t] => pending'[t],
         Waits(h) => Waits(h)', Polls(h) => Polls(h)', Polls(h) => Top(h)' = Top(h),
         GotGrows, Jam(t) => Jam(t)', AckOnWay(h, t), DataOnWay(h, t)
  PROVE  AckOnWay(h, t)' /\ DataOnWay(h, t)'
<1>1. ASSUME acks[t][h] # << >> PROVE AckOnWay(h, t)'
  <2>1. /\ t # h /\ Waits(h) /\ Top(h).to = t /\ acks[t][h] = <<Top(h).seqno>>
        /\ data[h][t] = << >> /\ Got(h, t, Label(Top(h)))
    BY <1>1 DEF AckOnWay
  <2>2. Label(Top(h)) \in Tag /\ Polls(h)
    BY <2>1, PollsTop
  <2>3. Top(h)' = Top(h)
    BY <2>2
  <2>4. PICK l \in Tag : l = Label(Top(h))
    BY <2>2
  <2>5. Label(Top(h))' = l
    BY <2>3, <2>4 DEF Label
  <2>6. Got(h, t, l)'
    BY <2>1, <2>4 DEF GotGrows
  <2>7. Got(h, t, Label(Top(h)))'
    BY <2>5, <2>6 DEF Got, Dispatched, Taken
  <2> QED BY <2>1, <2>3, <2>7 DEF AckOnWay
<1>2. acks[t][h] = << >> => AckOnWay(h, t)'
  BY DEF AckOnWay
<1>3. ASSUME h # t, data[h][t] # << >> PROVE DataOnWay(h, t)'
  <2>1. /\ Polls(h) /\ Top(h).to = t /\ pending[t]
        /\ \A i \in DOMAIN data[h][t] : data[h][t][i] = Top(h)
        /\ Jam(t) \/ (Waits(h) /\ Len(data[h][t]) = 1)
    BY <1>3 DEF DataOnWay
  <2>2. Top(h)' = Top(h) /\ pending'[t]
    BY <1>3, <2>1
  <2> QED BY <2>1, <2>2 DEF DataOnWay
<1>4. h = t \/ data[h][t] = << >> => DataOnWay(h, t)'
  BY DEF DataOnWay
<1> QED BY <1>1, <1>2, <1>3, <1>4

LEMMA StillEnded ==
  ASSUME RecvInv, NEW h \in Host, NEW t \in Host, ended'[h][t] = ended[h][t], GotGrows, EndedGot(h, t)
  PROVE  EndedGot(h, t)'
<1> SUFFICES ASSUME NEW i \in DOMAIN ended[h][t] PROVE Got(h, t, ended[h][t][i][1])'
  BY DEF EndedGot, Got, Dispatched, Taken
<1>1. ended[h][t] \in Seq(Tag \X {"acked", "dropped"})
  BY DEF RecvInv, HistoryType
<1>2. ended[h][t][i] \in Tag \X {"acked", "dropped"}
  BY <1>1, ElementOfSeq, LenProperties
<1>3. PICK l \in Tag : l = ended[h][t][i][1]
  BY <1>2
<1>4. Got(h, t, l)'
  BY <1>3 DEF EndedGot, GotGrows
<1>5. (ended[h][t][i][1])' = l
  BY <1>3
<1> QED BY <1>4, <1>5 DEF Got, Dispatched, Taken

LEMMA StaysHomeWire ==
  ASSUME Masked, NetInv, MaskInv, RingInv, RecvInv, WireInv, NEW h \in Host, StaysHome(h)
  PROVE  WireInv'
<1> SUFFICES ASSUME SentMeansAcked', NEW g \in Host, NEW t \in Host
             PROVE  AckOnWay(g, t)' /\ DataOnWay(g, t)' /\ EndedGot(g, t)'
  BY DEF WireInv
<1>1. Step(h)
  BY DEF Step, StaysHome, Handles
<1>2. SentMeansAcked
  BY <1>1, SentStays
<1>3. AckOnWay(g, t) /\ DataOnWay(g, t) /\ EndedGot(g, t)
  BY <1>2 DEF WireInv
<1>4. Jam(t) => Jam(t)'
  BY <1>1, JamKept
<1>5. GotGrows /\ TopsKept
  BY StaysHomeRecv, StaysHomeRing
<1>6. Polls(g) => Top(g)' = Top(g)
  BY <1>5, PollsTop DEF TopsKept
<1>7. (Waits(g) => Waits(g)') /\ (Polls(g) => Polls(g)')
  BY StaysHomePoint DEF Waits, Polls
<1>8. UNCHANGED <<data, acks, pending, ended>>
  BY StaysHomePoint
<1>9. AckOnWay(g, t)' /\ DataOnWay(g, t)'
  BY <1>3, <1>4, <1>5, <1>6, <1>7, <1>8, StillWire
<1>10. EndedGot(g, t)'
  BY <1>3, <1>5, <1>8, StillEnded
<1> QED BY <1>9, <1>10

LEMMA TransmitWire ==
  ASSUME NetInv, MaskInv, RingInv, RecvInv, WireInv, NEW h \in Host, Transmit(h)
  PROVE  WireInv'
<1> SUFFICES ASSUME SentMeansAcked', NEW g \in Host, NEW t \in Host
             PROVE  AckOnWay(g, t)' /\ DataOnWay(g, t)' /\ EndedGot(g, t)'
  BY DEF WireInv
<1>0. /\ PcType /\ data \in [Host -> [Host -> Seq(Message)]] /\ pending \in [Host -> BOOLEAN]
  BY DEF NetInv, TypeOK, PcType
<1>1. Step(h)
  BY DEF Step
<1>2. SentMeansAcked
  BY <1>1, SentStays
<1>3. AckOnWay(g, t) /\ DataOnWay(g, t) /\ EndedGot(g, t)
  BY <1>2 DEF WireInv
<1>4. Jam(t) => Jam(t)'
  BY <1>1, JamKept
<1>5. GotGrows /\ TopsKept
  BY TransmitRecv, TransmitRing
<1>6. Polls(g) => Top(g)' = Top(g)
  BY <1>5, PollsTop DEF TopsKept
<1>7. UNCHANGED <<acks, ended>> /\ Goto(h, "await") /\ At(h, "transmit")
  BY DEF Transmit, history
<1>8. EndedGot(g, t)'
  BY <1>3, <1>5, <1>7, StillEnded
<1>9. PICK m \in Message, to \in Host :
        /\ m = Top(h) /\ to = m.to
        /\ \/ data' = data /\ pending' = pending
           \/ /\ data' = [data EXCEPT ![h][to] = Append(@, m)]
              /\ pending' = [pending EXCEPT ![to] = TRUE]
  BY TransmitRecv
<1>10. pending[t] => pending'[t]
  BY <1>0, <1>9
<1>11. CASE g # h
  <2>1. pc'[g] = pc[g]
    BY <1>11, LoopPoint
  <2>2. data'[g][t] = data[g][t]
    BY <1>0, <1>9, <1>11
  <2>3. AckOnWay(g, t)' /\ DataOnWay(g, t)'
    BY <1>3, <1>4, <1>5, <1>6, <1>7, <1>10, <2>1, <2>2, StillWire DEF Waits, Polls
  <2> QED BY <1>8, <2>3
<1>12. CASE g = h
  <2>1. ~Waits(h) /\ Polls(h) /\ Waits(h)' /\ Polls(h)'
    <3>1. \/ pc[h].sigio = "idle" /\ pc[h].main = "transmit"
          \/ pc[h].sigio = "transmit"
      BY <1>0, <1>7, AtPoint
    <3>2. OneLoops(h)
      BY DEF NetInv
    <3>3. ~Waits(h) /\ Polls(h)
      BY <3>1, <3>2 DEF OneLoops, LoopPoints, Waits, Polls
    <3>4. Waits(h)'
      BY <1>0, <1>7, <3>1, GotoPoint DEF Points, HandlerPoints, Waits
    <3> QED BY <3>3, <3>4 DEF Waits, Polls
  <2>2. acks[t][h] = << >>
    BY <1>3, <1>12, <2>1 DEF AckOnWay
  <2>3. AckOnWay(h, t)'
    BY <1>7, <2>2 DEF AckOnWay
  <2>4. Top(h)' = m
    BY <1>6, <1>9, <1>12, <2>1
  <2>5. CASE h = t \/ data'[h][t] = << >>
    BY <1>8, <1>12, <2>3, <2>5 DEF DataOnWay
  <2>6. CASE h # t /\ data[h][t] # << >>
    <3>1. /\ m.to = t /\ pending[t]
          /\ \A i \in DOMAIN data[h][t] : data[h][t][i] = m
          /\ Jam(t)
      BY <1>3, <1>9, <1>12, <2>1, <2>6 DEF DataOnWay
    <3>2. \A i \in DOMAIN data'[h][t] : data'[h][t][i] = m
      <4>1. CASE data' = data
        BY <3>1, <4>1
      <4>2. CASE data' = [data EXCEPT ![h][to] = Append(@, m)]
        <5>1. data'[h][t] = Append(data[h][t], m)
          BY <1>0, <1>9, <3>1, <4>2
        <5>2. data[h][t] \in Seq(Message)
          BY <1>0
        <5>3. \A i \in DOMAIN Append(data[h][t], m) :
                Append(data[h][t], m)[i] = m
                  \/ (i \in DOMAIN data[h][t] /\ Append(data[h][t], m)[i] = data[h][t][i])
          BY <5>2, AppendElems
        <5> QED BY <3>1, <5>1, <5>3
      <4> QED BY <1>9, <4>1, <4>2
    <3>3. DataOnWay(h, t)'
      BY <1>4, <1>10, <2>1, <2>4, <3>1, <3>2 DEF DataOnWay
    <3> QED BY <1>8, <1>12, <2>3, <3>3
  <2>7. CASE h # t /\ data[h][t] = << >> /\ data'[h][t] # << >>
    <3>1. /\ data' = [data EXCEPT ![h][to] = Append(@, m)]
          /\ pending' = [pending EXCEPT ![to] = TRUE]
      BY <1>9, <2>7
    <3>2. to = t
      BY <1>0, <2>7, <3>1
    <3>3. data'[h][t] = Append(<< >>, m)
      BY <1>0, <2>7, <3>1, <3>2
    <3>4. Len(data'[h][t]) = 1 /\ \A i \in DOMAIN data'[h][t] : data'[h][t][i] = m
      <4>1. << >> \in Seq(Message)
        OBVIOUS
      <4>2. /\ Append(<< >>, m) \in Seq(Message) /\ Len(Append(<< >>, m)) = Len(<< >>) + 1
            /\ Append(<< >>, m)[Len(<< >>) + 1] = m
        BY <4>1, AppendProperties
      <4>3. Len(<< >>) = 0
        BY EmptySeq
      <4> QED BY <3>3, <4>2, <4>3, LenProperties
    <3>5. pending'[t]
      BY <1>0, <3>1, <3>2
    <3>6. DataOnWay(h, t)'
      BY <1>9, <2>1, <2>4, <3>2, <3>4, <3>5 DEF DataOnWay
    <3> QED BY <1>8, <1>12, <2>3, <3>6
  <2> QED BY <2>5, <2>6, <2>7
<1> QED BY <1>11, <1>12

LEMMA ReadAckWire ==
  ASSUME NetInv, MaskInv, RingInv, RecvInv, WireInv, NEW h \in Host, ReadAck(h)
  PROVE  WireInv'
<1> SUFFICES ASSUME SentMeansAcked', NEW g \in Host, NEW t \in Host
             PROVE  AckOnWay(g, t)' /\ DataOnWay(g, t)' /\ EndedGot(g, t)'
  BY DEF WireInv
<1>0. /\ PcType /\ acks \in [Host -> [Host -> Seq(Int)]] /\ HistoryType
  BY DEF NetInv, TypeOK, PcType, RecvInv
<1>1. Step(h)
  BY DEF Step
<1>2. SentMeansAcked
  BY <1>1, SentStays
<1>3. AckOnWay(g, t) /\ DataOnWay(g, t) /\ EndedGot(g, t)
  BY <1>2 DEF WireInv
<1>4. Jam(t) => Jam(t)'
  BY <1>1, JamKept
<1>5. GotGrows
  BY AttemptRecv
<1>6. PICK to \in Host : to = Top(h).to
  BY DEF ReadAck
<1>7. /\ acks[to][h] # << >> /\ acks' = [acks EXCEPT ![to][h] = Tail(@)]
      /\ data' = data /\ pending' = pending /\ sndQueue' = sndQueue
  BY <1>6 DEF ReadAck
<1>8. /\ Waits(h) /\ acks[to][h] = <<Top(h).seqno>> /\ to # h
      /\ data[h][to] = << >> /\ Got(h, to, Label(Top(h)))
  BY <1>2, <1>6, <1>7 DEF WireInv, AckOnWay
<1>9. Label(Top(h)) \in Tag /\ Top(h) \in Message /\ Top(h).seqno \in Int
  BY <1>8, PollsTop, MessageForms
<1>10. EndedAs(h, "acked")
  <2>1. Head(acks[to][h]) = Top(h).seqno
    BY <1>8
  <2> QED BY <1>6, <2>1 DEF ReadAck, IsAckOf
<1>11. /\ ended' \in [Host -> [Host -> Seq(Tag \X {"acked", "dropped"})]]
       /\ ended[h][to] \in Seq(Tag \X {"acked", "dropped"})
       /\ <<Label(Top(h)), "acked">> \in Tag \X {"acked", "dropped"}
       /\ ended'[h][to] = Append(ended[h][to], <<Label(Top(h)), "acked">>)
       /\ \A f, k \in Host : (f # h \/ k # to) => ended'[f][k] = ended[f][k]
  <2>1. Top(h).to \in Host /\ "acked" \in {"acked", "dropped"}
    BY <1>6
  <2>2. /\ ended' \in [Host -> [Host -> Seq(Tag \X {"acked", "dropped"})]]
        /\ ended[h][Top(h).to] \in Seq(Tag \X {"acked", "dropped"})
        /\ <<Label(Top(h)), "acked">> \in Tag \X {"acked", "dropped"}
        /\ ended'[h][Top(h).to] = Append(ended[h][Top(h).to], <<Label(Top(h)), "acked">>)
        /\ \A f, k \in Host : (f # h \/ k # Top(h).to) => ended'[f][k] = ended[f][k]
    BY <1>0, <1>9, <1>10, <2>1, EndedType
  <2> QED BY <1>6, <2>2
<1>12. EndedGot(g, t)'
  <2>1. CASE g # h \/ t # to
    BY <1>3, <1>5, <1>11, <2>1, StillEnded
  <2>2. CASE g = h /\ t = to
    <3>1. PICK l \in Tag : l = Label(Top(h))
      BY <1>9
    <3>2. Got(h, to, l)'
      BY <1>5, <1>8, <3>1 DEF GotGrows
    <3> DEFINE S == Tag \X {"acked", "dropped"}
               e == <<l, "acked">>
    <3>3. /\ ended[h][to] \in Seq(S) /\ e \in S /\ ended'[h][to] = Append(ended[h][to], e) /\ e[1] = l
      BY <1>11, <3>1
    <3> HIDE DEF S, e
    <3>4. \A i \in DOMAIN ended'[h][to] :
            ended'[h][to][i] = e \/ (i \in DOMAIN ended[h][to] /\ ended'[h][to][i] = ended[h][to][i])
      BY <3>3, AppendElems
    <3>5. ASSUME NEW i \in DOMAIN ended[h][to]
          PROVE  \E k \in Tag : k = ended[h][to][i][1] /\ Got(h, to, k)'
      <4>1. ended[h][to][i] \in S
        BY <3>3, ElementOfSeq, LenProperties
      <4>2. PICK k \in Tag : k = ended[h][to][i][1]
        BY <4>1 DEF S
      <4>3. Got(h, to, k)
        BY <1>3, <2>2, <4>2 DEF EndedGot
      <4> QED BY <1>5, <4>2, <4>3 DEF GotGrows
    <3>6. ASSUME NEW i \in DOMAIN ended'[h][to]
          PROVE  \E k \in Tag : k = ended'[h][to][i][1] /\ Got(h, to, k)'
      BY <3>2, <3>3, <3>4, <3>5
    <3> QED BY <2>2, <3>6 DEF EndedGot, Got, Dispatched, Taken
  <2> QED BY <2>1, <2>2
<1>13. \A f, k \in Host :
         acks'[f][k] = IF f = to /\ k = h THEN << >> ELSE acks[f][k]
  <2>1. Tail(acks[to][h]) = << >>
    BY <1>8
  <2>2. acks' = [f \in Host |-> IF f = to THEN [acks[to] EXCEPT ![h] = << >>] ELSE acks[f]]
    BY <1>0, <1>7, <2>1
  <2>3. \A k \in Host : [acks[to] EXCEPT ![h] = << >>][k] = IF k = h THEN << >> ELSE acks[to][k]
    BY <1>0
  <2> QED BY <2>2, <2>3
<1>14. CASE g # h
  <2>1. pc'[g] = pc[g]
    BY <1>14, LoopPoint
  <2>2. sndHead'[g] = sndHead[g]
    BY DEF ReadAck
  <2>3. Top(g)' = Top(g)
    BY <1>7, <2>2 DEF Top
  <2>4. acks'[t][g] = acks[t][g]
    BY <1>13, <1>14
  <2>5. AckOnWay(g, t)' /\ DataOnWay(g, t)'
    BY <1>3, <1>4, <1>5, <1>7, <2>1, <2>3, <2>4, StillWire DEF Waits, Polls
  <2> QED BY <1>12, <2>5
<1>15. CASE g = h
  <2>1. acks'[t][h] = << >>
    BY <1>3, <1>6, <1>13, <1>15 DEF AckOnWay
  <2>2. h = t \/ data'[h][t] = << >>
    BY <1>3, <1>6, <1>7, <1>8, <1>15 DEF DataOnWay
  <2>3. AckOnWay(h, t)' /\ DataOnWay(h, t)'
    BY <2>1, <2>2 DEF AckOnWay, DataOnWay
  <2> QED BY <1>12, <1>15, <2>3
<1> QED BY <1>14, <1>15

LEMMA DropAckedWire ==
  ASSUME NetInv, MaskInv, RingInv, RecvInv, WireInv, NEW h \in Host, DropAcked(h)
  PROVE  WireInv'
<1> SUFFICES ASSUME SentMeansAcked', NEW g \in Host, NEW t \in Host
             PROVE  AckOnWay(g, t)' /\ DataOnWay(g, t)' /\ EndedGot(g, t)'
  BY DEF WireInv
<1>0. PcType /\ OneLoops(h)
  BY DEF NetInv, TypeOK, PcType
<1>1. Step(h)
  BY DEF Step
<1>2. SentMeansAcked
  BY <1>1, SentStays
<1>3. AckOnWay(g, t) /\ DataOnWay(g, t) /\ EndedGot(g, t)
  BY <1>2 DEF WireInv
<1>4. Jam(t) => Jam(t)'
  BY <1>1, JamKept
<1>5. GotGrows
  BY AttemptRecv
<1>6. UNCHANGED <<data, acks, pending, ended>>
  BY DEF DropAcked, netVars, history
<1>7. EndedGot(g, t)'
  BY <1>3, <1>5, <1>6, StillEnded
<1>8. CASE g # h
  <2>1. pc'[g] = pc[g] /\ Top(g)' = Top(g)
    BY <1>8, LoopPoint, OthersTops
  <2>2. AckOnWay(g, t)' /\ DataOnWay(g, t)'
    BY <1>3, <1>4, <1>5, <1>6, <2>1, StillWire DEF Waits, Polls
  <2> QED BY <1>7, <2>2
<1>9. CASE g = h
  <2>1. ~Waits(h) /\ ~Polls(h)
    <3>1. \/ pc[h].sigio = "idle" /\ pc[h].main = "acked"
          \/ pc[h].sigio = "acked"
      BY <1>0, AtPoint DEF DropAcked
    <3> QED BY <1>0, <3>1 DEF OneLoops, LoopPoints, Waits, Polls
  <2>2. acks[t][h] = << >> /\ (h = t \/ data[h][t] = << >>)
    BY <1>3, <1>9, <2>1 DEF AckOnWay, DataOnWay
  <2>3. AckOnWay(h, t)' /\ DataOnWay(h, t)'
    BY <1>6, <2>2 DEF AckOnWay, DataOnWay
  <2> QED BY <1>7, <1>9, <2>3
<1> QED BY <1>8, <1>9

(* A host for which Timeout sees a circle is in one. *)
LEMMA JamOf ==
  ASSUME NetInv, MaskInv, Masked, NEW t \in Host, Jammed(t)
  PROVE  Jam(t)
<1>0. PcType
  BY DEF NetInv, TypeOK, PcType
<1>1. PICK S \in SUBSET Host :
        t \in S /\ \A g \in S : \/ At(g, "crashed")
                                \/ \E k \in S : WaitsDeaf(g, k) /\ acks[k][g] = << >>
  BY DEF Jammed
<1>2. ASSUME NEW g \in S PROVE Stuck(g, S)
  <2>1. pc[g].main # "crashed" /\ pc[g].main \in Points
    BY <1>0 DEF MaskInv, Quiet, PcType
  <2>2. CASE At(g, "crashed")
    BY <1>0, <2>1, <2>2, AtPoint DEF Stuck
  <2>3. CASE \E k \in S : WaitsDeaf(g, k) /\ acks[k][g] = << >>
    <3>1. PICK k \in S : WaitsDeaf(g, k) /\ acks[k][g] = << >>
      BY <2>3
    <3>2. At(g, "await") /\ ~Interruptible(g) /\ Top(g).to = k
      BY <3>1 DEF WaitsDeaf
    <3>3. pc[g].sigio = "idle" /\ pc[g].main = "await" => Interruptible(g)
      BY DEF Interruptible, RacePoints
    <3>4. pc[g].sigio = "await"
      BY <1>0, <3>2, <3>3, AtPoint
    <3> QED BY <3>1, <3>2, <3>4 DEF Stuck
  <2> QED BY <1>1, <2>2, <2>3
<1> QED BY <1>1, <1>2 DEF Jam

(* A timeout strikes a host whose answer is not on its way: nothing waits   *)
(* in the socket of the peer, or the peer is in a circle.                   *)
LEMMA TimeoutWire ==
  ASSUME MaxLate = 0, Masked, NetInv, MaskInv, RingInv, RecvInv, WireInv, NEW h \in Host, Timeout(h)
  PROVE  WireInv'
<1> SUFFICES ASSUME SentMeansAcked', NEW g \in Host, NEW t \in Host
             PROVE  AckOnWay(g, t)' /\ DataOnWay(g, t)' /\ EndedGot(g, t)'
  BY DEF WireInv
<1>0. PcType /\ HistoryType
  BY DEF NetInv, TypeOK, PcType, RecvInv
<1>1. Step(h)
  BY DEF Step
<1>2. SentMeansAcked
  BY <1>1, SentStays
<1>3. \A f, k \in Host : AckOnWay(f, k) /\ DataOnWay(f, k) /\ EndedGot(f, k)
  BY <1>2 DEF WireInv
<1>4. Jam(t) => Jam(t)'
  BY <1>1, JamKept
<1>5. GotGrows
  BY AttemptRecv
<1>6. /\ Waits(h) /\ Goto(h, "transmit")
      /\ UNCHANGED <<sndQueue, sndHead, data, acks, pending, ended>>
      /\ UnderWay(h) => faults.late < MaxLate
  BY TimeoutForms
<1>7. Polls(h) /\ Top(h)' = Top(h) /\ Top(g)' = Top(g)
  BY <1>6, PollsTop DEF Top
<1>8. ~UnderWay(h)
  <2>1. faults.late \in Nat
    BY <1>0 DEF HistoryType
  <2> QED BY <1>6, <2>1
<1>9. EndedGot(g, t)'
  BY <1>3, <1>5, <1>6, StillEnded
<1>10. CASE g # h
  <2>1. pc'[g] = pc[g]
    BY <1>10, LoopPoint
  <2>2. AckOnWay(g, t)' /\ DataOnWay(g, t)'
    BY <1>3, <1>4, <1>5, <1>6, <1>7, <2>1, StillWire DEF Waits, Polls
  <2> QED BY <1>9, <2>2
<1>11. CASE g = h
  <2>1. Polls(h)'
    <3>1. pc'[h].main = "transmit" \/ pc'[h].sigio = "transmit"
      BY <1>0, <1>6, GotoPoint DEF Points, HandlerPoints
    <3> QED BY <3>1 DEF Polls
  <2>2. acks[t][h] = << >>
    <3>1. SUFFICES ASSUME acks[t][h] # << >> PROVE FALSE
      OBVIOUS
    <3>2. t # h /\ Top(h).to = t
      BY <1>3, <3>1 DEF AckOnWay
    <3> QED BY <1>8, <3>1, <3>2 DEF UnderWay
  <2>3. AckOnWay(h, t)'
    BY <1>6, <2>2 DEF AckOnWay
  <2>4. ASSUME h # t, data[h][t] # << >>
        PROVE  /\ Polls(h)' /\ Top(h)'.to = t /\ pending'[t]
               /\ \A i \in DOMAIN data'[h][t] : data'[h][t][i] = Top(h)'
               /\ Jam(t)'
    <3>1. /\ Top(h).to = t /\ pending[t]
          /\ \A i \in DOMAIN data[h][t] : data[h][t][i] = Top(h)
      BY <1>3, <2>4 DEF DataOnWay
    <3>2. Jammed(t)
      BY <1>8, <2>4, <3>1 DEF UnderWay
    <3> QED BY <1>4, <1>6, <1>7, <2>1, <3>1, <3>2, JamOf
  <2>5. DataOnWay(h, t)'
    BY <1>6, <2>4 DEF DataOnWay
  <2> QED BY <1>9, <1>11, <2>3, <2>5
<1> QED BY <1>10, <1>11

(* A handler takes the one copy there is, and answers it with its number.   *)
LEMMA InterruptWire ==
  ASSUME NetInv, MaskInv, RingInv, RecvInv, WireInv, NEW h \in Host, Interrupt(h)
  PROVE  WireInv'
<1> SUFFICES ASSUME SentMeansAcked', NEW g \in Host, NEW t \in Host
             PROVE  AckOnWay(g, t)' /\ DataOnWay(g, t)' /\ EndedGot(g, t)'
  BY DEF WireInv
<1>0. /\ PcType /\ data \in [Host -> [Host -> Seq(Message)]] /\ acks \in [Host -> [Host -> Seq(Int)]]
  BY DEF NetInv, TypeOK, PcType
<1>1. SentMeansAcked
  BY SentStays
<1>2. AckOnWay(g, t) /\ DataOnWay(g, t) /\ EndedGot(g, t)
  BY <1>1 DEF WireInv
<1>3. Jam(t) => Jam(t)'
  BY JamKept
<1>4. GotGrows /\ TopsKept
  BY InterruptRecv, InterruptRing
<1>5. Polls(g) => Top(g)' = Top(g)
  BY <1>4, PollsTop DEF TopsKept
<1>6. (Waits(g) => Waits(g)') /\ (Polls(g) => Polls(g)')
  BY InterruptFacts DEF Waits, Polls
<1>7. ended' = ended
  BY InterruptFacts
<1>8. EndedGot(g, t)'
  BY <1>2, <1>4, <1>7, StillEnded
<1>9. CASE t # h \/ g \notin Readable(h)
  <2>1. data'[g][t] = data[g][t] /\ acks'[t][g] = acks[t][g]
    BY <1>9, InterruptFacts
  <2>2. g # t /\ data[g][t] # << >> /\ pending[t] => pending'[t]
    BY <1>9, InterruptFacts DEF Readable
  <2>3. AckOnWay(g, t)' /\ DataOnWay(g, t)'
    BY <1>2, <1>3, <1>4, <1>5, <1>6, <2>1, <2>2, StillWire
  <2> QED BY <1>8, <2>3
<1>10. CASE t = h /\ g \in Readable(h)
  <2>1. g # h /\ data[g][h] # << >>
    BY <1>10 DEF Readable
  <2>2. ~Jam(h)
    BY InterruptFacts DEF Jam, Stuck
  <2>3. /\ Waits(g) /\ Polls(g) /\ Top(g).to = h /\ Len(data[g][h]) = 1
        /\ \A i \in DOMAIN data[g][h] : data[g][h][i] = Top(g)
    BY <1>2, <1>10, <2>1, <2>2 DEF DataOnWay
  <2>4. Top(g)' = Top(g) /\ Top(g) \in Message /\ Label(Top(g)) \in Tag
    BY <1>5, <2>3, PollsTop
  <2>5. data[g][h] \in Seq(Message)
    BY <1>0
  <2>6. /\ Head(data[g][h]) = Top(g) /\ Head(data[g][h]).from = g
        /\ Tail(data[g][h]) \in Seq(Message) /\ Len(Tail(data[g][h])) = 0
    <3>1. 1 \in DOMAIN data[g][h] /\ Head(data[g][h]) = data[g][h][1]
      BY <2>1, <2>5, TailElems
    <3>2. data[g][h][1].from = g
      BY <3>1 DEF RecvInv, RecvOf
    <3> QED BY <2>1, <2>3, <2>5, <3>1, <3>2, HeadTailProperties
  <2>7. data'[g][h] = << >>
    <3>1. data'[g][h] = Tail(data[g][h])
      BY <1>10, InterruptFacts
    <3> QED BY <2>6, <3>1, EmptySeq
  <2>8. acks[h][g] = << >>
    BY <1>2, <1>10, <2>1 DEF AckOnWay
  <2>9. acks'[h][g] = << >> \/ acks'[h][g] = <<Top(g).seqno>>
    <3>1. acks'[h][g] = acks[h][g] \/ acks'[h][g] = Append(acks[h][g], Head(data[g][h]).seqno)
      BY InterruptFacts
    <3> QED BY <2>6, <2>8, <3>1
  <2>10. Got(g, h, Label(Top(g)))'
    <3>1. PICK i \in DOMAIN recvQueue'[h] : recvQueue'[h][i] = Top(g)
      BY <1>10, <2>6, InterruptFacts
    <3>2. recvQueue'[h][i].from = g /\ Label(recvQueue'[h][i]) = Label(Top(g))
      BY <2>6, <3>1
    <3>3. PICK l \in Tag : l = Label(Top(g))
      BY <2>4
    <3>4. Taken(g, h, l)'
      BY <3>2, <3>3 DEF Taken, Label
    <3>5. Label(Top(g))' = l
      BY <2>4, <3>3 DEF Label
    <3> QED BY <3>4, <3>5 DEF Got, Dispatched, Taken
  <2>11. AckOnWay(g, h)'
    BY <1>6, <2>1, <2>3, <2>4, <2>7, <2>9, <2>10 DEF AckOnWay
  <2>12. DataOnWay(g, h)'
    BY <2>7 DEF DataOnWay
  <2> QED BY <1>8, <1>10, <2>11, <2>12
<1> QED BY <1>9, <1>10

LEMMA InitWire == Init => WireInv
<1> SUFFICES ASSUME Init, NEW h \in Host, NEW t \in Host
             PROVE  AckOnWay(h, t) /\ DataOnWay(h, t) /\ EndedGot(h, t)
  BY DEF WireInv
<1>1. acks[t][h] = << >> /\ data[h][t] = << >> /\ ended[h][t] = << >>
  BY DEF Init, PerPair
<1> QED BY <1>1 DEF AckOnWay, DataOnWay, EndedGot

LEMMA StutterWire ==
  ASSUME NetInv, RingInv, RecvInv, WireInv, UNCHANGED vars
  PROVE  WireInv'
<1> SUFFICES ASSUME SentMeansAcked', NEW g \in Host, NEW t \in Host
             PROVE  AckOnWay(g, t)' /\ DataOnWay(g, t)' /\ EndedGot(g, t)'
  BY DEF WireInv
<1>1. UNCHANGED <<sndQueue, sndHead, pc, data, acks, pending, ended, handled, recvQueue>>
  BY DEF vars, queueVars, netVars, history
<1>2. AckOnWay(g, t) /\ DataOnWay(g, t) /\ EndedGot(g, t)
  BY <1>1 DEF WireInv, SentMeansAcked, GivenUp
<1>3. GotGrows
  BY <1>1 DEF GotGrows, Got, Dispatched, Taken, Label
<1>4. Top(g)' = Top(g)
  BY <1>1 DEF Top
<1>5. Jam(t) => Jam(t)'
  BY <1>1 DEF Jam, Stuck, Top
<1>6. AckOnWay(g, t)' /\ DataOnWay(g, t)'
  BY <1>1, <1>2, <1>3, <1>4, <1>5, StillWire DEF Waits, Polls
<1>7. EndedGot(g, t)'
  BY <1>1, <1>2, <1>3, StillEnded
<1> QED BY <1>6, <1>7

LEMMA NextWire ==
  ASSUME MaxLate = 0, Masked, NetInv, MaskInv, RingInv, RecvInv, WireInv, [Next]_vars
  PROVE  WireInv'
<1>1. CASE UNCHANGED vars
  BY <1>1, StutterWire
<1>2. CASE Next
  <2> PICK h \in Host : Step(h) \/ Interrupt(h)
    BY <1>2 DEF Next
  <2> QED BY StepForms, StaysHomeWire, TransmitWire, ReadAckWire, DropAckedWire, TimeoutWire, InterruptWire
<1> QED BY <1>1, <1>2

(* What sendMsg takes for delivered has been delivered: with SIGIO masked   *)
(* between two accesses to the queue, and a timeout that does not pass      *)
(* while the answer is on its way, the number that ends an attempt is that  *)
(* of the message itself, which its receiver has dispatched or is about to, *)
(* as long as nobody has given a message up; whatever datagrams and         *)
(* acknowledgements were lost, and however many hosts poll for each other.  *)
THEOREM AcksAreOfReceived ==
  MaxLate = 0 /\ Masked /\ Spec => [](SentMeansAcked => AckedWasReceived)
<1> SUFFICES ASSUME MaxLate = 0, Masked
             PROVE  Spec => [](SentMeansAcked => AckedWasReceived)
  OBVIOUS
<1>1. Spec => [](NetInv /\ MaskInv)
  BY InvariantMask
<1>2. Init => RingInv /\ RecvInv /\ WireInv
  BY InitRing, InitRecv, InitWire
<1>3. /\ NetInv /\ MaskInv /\ RingInv /\ RecvInv /\ WireInv /\ [Next]_vars
      => RingInv' /\ RecvInv' /\ WireInv'
  BY NextRing, NextRecv, NextWire
<1>4. NetInv /\ RecvInv /\ WireInv => (SentMeansAcked => AckedWasReceived)
  <2> SUFFICES ASSUME NetInv, RecvInv, WireInv, SentMeansAcked,
                      NEW h \in Host, NEW t \in Host, NEW i \in DOMAIN ended[h][t]
               PROVE  ended[h][t][i][1] \in Received(h, t)
    BY DEF AckedWasReceived
  <2>1. Got(h, t, ended[h][t][i][1])
    BY DEF WireInv, EndedGot
  <2> QED BY <2>1 DEF Got, Dispatched, Taken, Received
<1> QED BY <1>1, <1>2, <1>3, <1>4, PTL DEF Spec
=============================================================================
