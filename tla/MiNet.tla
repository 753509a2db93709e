-------------------------------- MODULE MiNet --------------------------------
(***************************************************************************)
(* The message layer, net.c: a stop-and-wait protocol over UDP with a      *)
(* queue of messages to send.                                              *)
(*                                                                         *)
(* A caller takes the slot at sndTail (nextFreeMsgInQueue), fills it in    *)
(* and calls sendMsg, which counts it in and, unless a sendMsg of the same *)
(* host is at work already, sends the whole queue: each datagram is sent   *)
(* until its sequence number comes back, MAX_RETRY_NUM times at most.      *)
(* sigio_handler takes one datagram from every peer, acknowledges it, and  *)
(* dispatches what it took; the handlers send messages themselves.         *)
(*                                                                         *)
(* A host runs its program and, on top of it, the handler: while the       *)
(* handler runs the program stands still, and SIGIO is masked.  pc[h].main *)
(* and pc[h].sigio say where each of the two is; both go through the same  *)
(* sendMsg.  A step ends where an interruption can be told apart.          *)
(***************************************************************************)
EXTENDS Integers, Sequences, FiniteSets

CONSTANTS
  hostnum,        \* number of hosts
  MAX_QUEUE_SIZE, \* slots of sndQueue
  MAX_RETRY_NUM,  \* attempts to send a datagram
  Program,        \* Program[h]: the messages the program of h sends, in order
  SigioPoints,    \* the points between two accesses to the queue where SIGIO is open
  MaxLoss,        \* bound: datagrams the network loses
  MaxAckLoss,     \* bound: acknowledgements the network loses
  MaxLate         \* bound: timeouts that strike while the answer is under way

Host == 0 .. (hostnum - 1)
Slot == 0 .. (MAX_QUEUE_SIZE - 1)
NoHost == -1

(* FETCH stands for the requests whose handler answers at once (FETCH_PAGE, *)
(* FETCH_DIFF, FETCH_WN_I); ACQ is answered at once or when a RLS comes,    *)
(* for a lock that the receiver manages; GRANT is any answer; the handler   *)
(* of TEST sends nothing.                                                   *)
Question == {"FETCH", "ACQ"}
Command == Question \cup {"TEST", "RLS", "GRANT"}
NoCommand == "NONE"

(* Points of the program between two accesses to the queue. In net.c SIGIO  *)
(* is open at all of them; with SigioPoints = {} the module describes the   *)
(* same code with the signal masked there. At the others (while sendMsg     *)
(* polls for an acknowledgement, in particular) SIGIO is open in any case.  *)
RacePoints == {"fill", "send", "count", "set", "unset"}
Points == RacePoints \cup {"app", "transmit", "await", "acked", "wait", "crashed"}
HandlerPoints == RacePoints \cup {"idle", "dispatch", "transmit", "await", "acked", "crashed"}

ASSUME HostNumAssumption == hostnum \in Nat \ {0}
ASSUME QueueAssumption == MAX_QUEUE_SIZE \in Nat \ {0}
ASSUME RetryAssumption == MAX_RETRY_NUM \in Nat \ {0}
ASSUME ProgramAssumption == Program \in [Host -> Seq([command : Command \ {"GRANT"}, to : Host])]
ASSUME SigioAssumption == SigioPoints \subseteq RacePoints
ASSUME BoundAssumption == MaxLoss \in Nat /\ MaxAckLoss \in Nat /\ MaxLate \in Nat

VARIABLES
  sndQueue, sndHead, sndTail, sndQueueSize, \* the queue of each host
  isSendingMsg, \* isSendingMsg[h] = 1: a sendMsg of h is emptying its queue
  snd_seqs,     \* snd_seqs[h][t]: the next sequence number of h for t
  recvQueue,    \* what the handler of h has taken and not yet dispatched
  waitFlag,     \* waitFlag[h]: the flag the program of h spins on; it stands for
                \* waitFlag, fetchPageWaitFlag, fetchDiffWaitFlag, fetchWNIWaitFlag
  lockFree,     \* lockFree[h]: nobody has the lock that h manages
  waiters,      \* waiters[h]: the ACQ messages that h has not answered yet
  question,     \* question[h]: the message that the handler of h is answering
  pc,           \* where the program and the handler of h are
  msg,          \* the slot that each of the two was given
  retryNum,     \* attempts made for the head of h's queue
  todo,         \* what the program of h has still to send
  data,         \* data[f][t]: datagrams in t's socket for f
  acks,         \* acks[f][t]: acknowledgements of f in t's socket for f
  pending,      \* pending[h]: SIGIO has been raised and not delivered
  faults,       \* datagrams lost, acknowledgements lost, timeouts too early
  sent,         \* history: the messages from f to t given to sendMsg
  handled,      \* history: the messages from f that t has dispatched
  ended         \* history: how the sending of h's messages to t ended

queueVars == <<sndQueue, sndHead, sndTail, sndQueueSize, isSendingMsg, snd_seqs, msg>>
netVars == <<data, acks, pending, faults>>
lockVars == <<lockFree, waiters, question>>
history == <<sent, handled, ended>>
vars == <<queueVars, netVars, lockVars, history, recvQueue, waitFlag, pc, retryNum, todo>>

-----------------------------------------------------------------------------
(* Messages.  body tells the messages of a program apart; an answer carries *)
(* the body of its question.                                                *)

Message == [from : Host \cup {NoHost}, to : Host \cup {NoHost},
            command : Command \cup {NoCommand}, seqno : Int,
            body : Host \X Nat]

NoBody == <<0, 0>>

(* A slot of the array before its first use, and as nextFreeMsgInQueue      *)
(* leaves it.                                                               *)
ZeroMsg == [from |-> 0, to |-> 0, command |-> "TEST", seqno |-> 0, body |-> NoBody]
BlankMsg == [from |-> NoHost, to |-> NoHost, command |-> NoCommand, seqno |-> -1,
             body |-> NoBody]

Label(m) == <<m.command, m.body>>

-----------------------------------------------------------------------------
(* initnet *)

PerPair(x) == [f \in Host |-> [t \in Host |-> x]]

Init == /\ sndQueue = [h \in Host |-> [s \in Slot |-> ZeroMsg]]
        /\ sndHead = [h \in Host |-> 0]
        /\ sndTail = [h \in Host |-> 0]
        /\ sndQueueSize = [h \in Host |-> 0]
        /\ isSendingMsg = [h \in Host |-> 0]
        /\ snd_seqs = PerPair(0)
        /\ recvQueue = [h \in Host |-> << >>]
        /\ waitFlag = [h \in Host |-> 0]
        /\ lockFree = [h \in Host |-> FALSE]
        /\ waiters = [h \in Host |-> << >>]
        /\ question = [h \in Host |-> BlankMsg]
        /\ pc = [h \in Host |-> [main |-> "app", sigio |-> "idle"]]
        /\ msg = [h \in Host |-> [main |-> 0, sigio |-> 0]]
        /\ retryNum = [h \in Host |-> 0]
        /\ todo = Program
        /\ data = PerPair(<< >>)
        /\ acks = PerPair(<< >>)
        /\ pending = [h \in Host |-> FALSE]
        /\ faults = [loss |-> 0, ackloss |-> 0, late |-> 0]
        /\ sent = PerPair(<< >>)
        /\ handled = PerPair(<< >>)
        /\ ended = PerPair(<< >>)

-----------------------------------------------------------------------------
(* Which of the two is running at h, and where it goes. *)

Running(h) == IF pc[h].sigio = "idle" THEN "main" ELSE "sigio"

At(h, p) == pc[h][Running(h)] = p

Goto(h, p) == pc' = [pc EXCEPT ![h][Running(h)] = p]

(* sendMsg returns: the program waits for the answer if it asked something  *)
(* (while(waitFlag)), a handler goes back to the loop in sigio_handler,     *)
(* which drops the message it has dispatched (msgDequeue(1)).               *)
Return(h) ==
  IF Running(h) = "sigio"
  THEN /\ Goto(h, "dispatch")
       /\ recvQueue' = [recvQueue EXCEPT ![h] = Tail(@)]
       /\ UNCHANGED todo
  ELSE /\ Goto(h, IF Head(todo[h]).command \in Question THEN "wait" ELSE "app")
       /\ todo' = [todo EXCEPT ![h] = IF Head(@).command \in Question THEN @ ELSE Tail(@)]
       /\ UNCHANGED recvQueue

-----------------------------------------------------------------------------
(* Taking a slot and calling sendMsg, for the program and for a handler *)

(* Mutant: a queue with one slot left counts as full. *)
nextFreeOneLess(h) ==
  IF sndQueueSize[h] >= MAX_QUEUE_SIZE - 1
  THEN Goto(h, "crashed") /\ UNCHANGED <<sndQueue, msg>>
  ELSE /\ Goto(h, "fill")
       /\ sndQueue' = [sndQueue EXCEPT ![h][sndTail[h]] = BlankMsg]
       /\ msg' = [msg EXCEPT ![h][Running(h)] = sndTail[h]]

(* nextFreeMsgInQueue(0): the slot at sndTail is cleared and handed out. It *)
(* stays at sndTail. NULL comes back from a full queue, and no caller tests *)
(* for it.                                                                  *)
nextFreeMsgInQueue(h) ==
  IF sndQueueSize[h] = MAX_QUEUE_SIZE
  THEN Goto(h, "crashed") /\ UNCHANGED <<sndQueue, msg>>
  ELSE /\ Goto(h, "fill")
       /\ sndQueue' = [sndQueue EXCEPT ![h][sndTail[h]] = BlankMsg]
       /\ msg' = [msg EXCEPT ![h][Running(h)] = sndTail[h]]

(* What the caller writes into its slot. *)
Composed(h) ==
  IF Running(h) = "main"
  THEN [from |-> h, to |-> Head(todo[h]).to, command |-> Head(todo[h]).command,
        seqno |-> -1, body |-> <<h, Len(todo[h])>>]
  ELSE [from |-> h, to |-> question[h].from, command |-> "GRANT",
        seqno |-> -1, body |-> question[h].body]

(* The program has something to send and takes a slot. *)
Begin(h) ==
  /\ Running(h) = "main" /\ At(h, "app")
  /\ todo[h] # << >>
  /\ nextFreeMsgInQueue(h)
  /\ UNCHANGED <<sndHead, sndTail, sndQueueSize, isSendingMsg, snd_seqs, netVars, lockVars, history,
                 recvQueue, waitFlag, retryNum, todo>>

(* Mutant: waitFlag is not raised. *)
FlagUnraised(h) == waitFlag

(* waitFlag = 1, by a program that is going to wait for an answer. *)
FlagRaised(h) ==
  IF Running(h) = "main" /\ Head(todo[h]).command \in Question
  THEN [waitFlag EXCEPT ![h] = 1] ELSE waitFlag

(* The slot is filled in, and waitFlag raised before sendMsg is called. *)
Fill(h) ==
  /\ At(h, "fill")
  /\ sndQueue' = [sndQueue EXCEPT ![h][msg[h][Running(h)]] = Composed(h)]
  /\ waitFlag' = FlagRaised(h)
  /\ Goto(h, "send")
  /\ UNCHANGED <<sndHead, sndTail, sndQueueSize, isSendingMsg, snd_seqs, msg, netVars,
                 lockVars, history, recvQueue, retryNum, todo>>

(* sendMsg begins: it refuses a message that is not its own; otherwise the  *)
(* message gets its number and msgEnqueue(0) moves sndTail. With a full     *)
(* queue msgEnqueue does nothing, and its result is not looked at.          *)
Send(h) ==
  /\ At(h, "send")
  /\ LET s == msg[h][Running(h)]
         m == sndQueue[h][s]
     IN IF m.from # h \/ m.to = NoHost \/ m.command = NoCommand
        THEN Return(h) /\ UNCHANGED <<sndQueue, sndTail, sent>>
        ELSE /\ sndQueue' = [sndQueue EXCEPT ![h][s].seqno = snd_seqs[h][m.to]]
             /\ sndTail' = [sndTail EXCEPT ![h] = IF sndQueueSize[h] = MAX_QUEUE_SIZE
                                                  THEN @ ELSE (@ + 1) % MAX_QUEUE_SIZE]
             /\ sent' = [sent EXCEPT ![h][m.to] = Append(@, Label(m))]
             /\ Goto(h, "count")
             /\ UNCHANGED <<recvQueue, todo>>
  /\ UNCHANGED <<sndHead, sndQueueSize, isSendingMsg, snd_seqs, msg, netVars, lockVars, handled, ended,
                 waitFlag, retryNum>>

(* msgEnqueue(0) counts the message; sendMsg returns at once if another one *)
(* is emptying the queue.                                                   *)
Count(h) ==
  /\ At(h, "count")
  /\ sndQueueSize' = [sndQueueSize EXCEPT ![h] = IF @ = MAX_QUEUE_SIZE THEN @ ELSE @ + 1]
  /\ IF isSendingMsg[h] = 1 THEN Return(h)
     ELSE Goto(h, "set") /\ UNCHANGED <<recvQueue, todo>>
  /\ UNCHANGED <<sndQueue, sndHead, sndTail, isSendingMsg, snd_seqs, msg, netVars, lockVars, history,
                 waitFlag, retryNum>>

-----------------------------------------------------------------------------
(* The loop of sendMsg over the queue *)

(* queueTop(0) *)
Top(h) == sndQueue[h][sndHead[h]]

(* Mutant: the last message is not sent. *)
LoopButLast(h, n) == /\ Goto(h, IF n > 1 THEN "transmit" ELSE "unset")
                     /\ retryNum' = [retryNum EXCEPT ![h] = 0]

(* while(sndQueueSize > 0), with n messages left. *)
Loop(h, n) == /\ Goto(h, IF n > 0 THEN "transmit" ELSE "unset")
              /\ retryNum' = [retryNum EXCEPT ![h] = 0]

SetSending(h) ==
  /\ At(h, "set")
  /\ isSendingMsg' = [isSendingMsg EXCEPT ![h] = 1]
  /\ Loop(h, sndQueueSize[h])
  /\ UNCHANGED <<sndQueue, sndHead, sndTail, sndQueueSize, snd_seqs, msg, netVars, lockVars, history,
                 recvQueue, waitFlag, todo>>

(* sendto port dataPorts[to][from] of host to: the datagram ends up in the  *)
(* socket that to keeps for from, whoever sent it, and raises SIGIO there.  *)
(* The network may lose it.                                                 *)
Transmit(h) ==
  /\ At(h, "transmit")
  /\ LET m == Top(h) IN
       \E lost \in BOOLEAN :
         /\ lost => faults.loss < MaxLoss
         /\ faults' = [faults EXCEPT !.loss = IF lost THEN @ + 1 ELSE @]
         /\ IF lost \/ m.to = NoHost THEN UNCHANGED <<data, pending>>
            ELSE /\ data' = [data EXCEPT ![m.from][m.to] = Append(@, m)]
                 /\ pending' = [pending EXCEPT ![m.to] = TRUE]
  /\ Goto(h, "await")
  /\ UNCHANGED <<queueVars, acks, lockVars, history, recvQueue, waitFlag, retryNum, todo>>

(* Mutant: the head does not wrap around. *)
DequeueNoWrap(h) == /\ sndHead' = [sndHead EXCEPT ![h] = @ + 1]
                    /\ sndQueueSize' = [sndQueueSize EXCEPT ![h] = @ - 1]
                    /\ Loop(h, sndQueueSize[h] - 1)

(* Mutant: the head stays. *)
DequeueKeepsHead(h) == /\ sndQueueSize' = [sndQueueSize EXCEPT ![h] = @ - 1]
                       /\ Loop(h, sndQueueSize[h] - 1)
                       /\ UNCHANGED sndHead

(* msgDequeue(0), and the loop goes on. *)
Dequeue(h) == /\ sndHead' = [sndHead EXCEPT ![h] = (@ + 1) % MAX_QUEUE_SIZE]
              /\ sndQueueSize' = [sndQueueSize EXCEPT ![h] = @ - 1]
              /\ Loop(h, sndQueueSize[h] - 1)

EndedAs(h, how) ==
  ended' = [ended EXCEPT ![h][Top(h).to] = Append(@, <<Label(Top(h)), how>>)]

(* Mutant: the number of an acknowledgement is not looked at. *)
AnyAck(seqno, m) == TRUE

IsAckOf(seqno, m) == seqno = m.seqno

(* Mutant: the number is not counted. *)
UncountedSeqs(h) == snd_seqs

(* The number that is counted is that of the host which the message sendMsg *)
(* was called with goes to, not the one acknowledged.                       *)
CountedSeqs(h) == [snd_seqs EXCEPT ![h][sndQueue[h][msg[h][Running(h)]].to] = @ + 1]

(* An acknowledgement is read. One with another number is dropped; the      *)
(* right one ends the attempts, and the number is counted. A handler that   *)
(* comes between those statements does what it did before the first of them: *)
(* isSendingMsg is 1, so that its sendMsg only appends.                     *)
ReadAck(h) ==
  /\ At(h, "await")
  /\ Top(h).to \in Host
  /\ LET t == Top(h).to
     IN /\ acks[t][h] # << >>
        /\ acks' = [acks EXCEPT ![t][h] = Tail(@)]
        /\ IF IsAckOf(Head(acks[t][h]), Top(h))
           THEN /\ snd_seqs' = CountedSeqs(h)
                /\ EndedAs(h, "acked")
                /\ Goto(h, "acked")
           ELSE UNCHANGED <<snd_seqs, pc, ended>>
  /\ UNCHANGED <<sndQueue, sndHead, sndTail, sndQueueSize, isSendingMsg, msg, data, pending, faults,
                 sent, handled, lockVars, recvQueue, waitFlag, retryNum, todo>>

(* The message that was acknowledged leaves the queue, and sndQueueSize is   *)
(* tested. What a handler appends in between counts in the test either way.  *)
DropAcked(h) ==
  /\ At(h, "acked")
  /\ Dequeue(h)
  /\ UNCHANGED <<sndQueue, sndTail, isSendingMsg, snd_seqs, msg, netVars, lockVars, history, recvQueue,
                 waitFlag, todo>>

(* Mutant: SIGIO is open between nextFreeMsgInQueue and sendMsg. *)
InterruptibleFilling(h) ==
  pc[h].sigio = "idle" /\ (pc[h].main \notin RacePoints \/ pc[h].main \in {"fill", "send"})

(* Mutant: SIGIO is masked while sendMsg polls, too. *)
InterruptibleNotPolling(h) == pc[h].sigio = "idle" /\ pc[h].main \notin RacePoints \cup {"await"}

Interruptible(h) ==
  /\ pc[h].sigio = "idle" /\ pc[h].main # "crashed"
  /\ pc[h].main \notin RacePoints \/ pc[h].main \in SigioPoints

(* Host h polls for an acknowledgement of t and cannot take SIGIO. *)
WaitsDeaf(h, t) == At(h, "await") /\ ~Interruptible(h) /\ Top(h).to = t

(* Host t will take no SIGIO before somebody gives up: it polls, deaf, for  *)
(* a host that polls, deaf, and so on in a circle (of two hosts, or more),  *)
(* with none of their acknowledgements there, or up to a host that crashed. *)
Jammed(t) ==
  \E S \in SUBSET Host : /\ t \in S
                        /\ \A g \in S : \/ At(g, "crashed")
                                        \/ \E k \in S : WaitsDeaf(g, k) /\ acks[k][g] = << >>

(* The acknowledgement that h polls for is there, or will be without h's    *)
(* help: its datagram is in a socket whose SIGIO is raised and taken.       *)
UnderWay(h) ==
  LET t == Top(h).to
  IN /\ t \in Host \ {h}
     /\ acks[t][h] # << >> \/ (data[h][t] # << >> /\ pending[t] /\ ~Jammed(t))

(* Mutant: the program polls on, and the datagram is not sent again. *)
RetryNothing(h) == UNCHANGED <<retryNum, pc>>

RetryOnce(h) == /\ retryNum' = [retryNum EXCEPT ![h] = @ + 1]
                /\ Goto(h, "transmit")

(* mytimeout has passed: the datagram is sent again, or dropped after       *)
(* MAX_RETRY_NUM attempts with a line on stderr.                            *)
Timeout(h) ==
  /\ At(h, "await")
  /\ UnderWay(h) => faults.late < MaxLate
  /\ faults' = [faults EXCEPT !.late = IF UnderWay(h) THEN @ + 1 ELSE @]
  /\ IF retryNum[h] + 1 < MAX_RETRY_NUM
     THEN /\ RetryOnce(h)
          /\ UNCHANGED <<sndHead, sndQueueSize, ended>>
     ELSE /\ Dequeue(h)
          /\ IF Top(h).to \in Host THEN EndedAs(h, "dropped") ELSE UNCHANGED ended
  /\ UNCHANGED <<sndQueue, sndTail, isSendingMsg, snd_seqs, msg, data, acks, pending, sent, lockVars,
                 handled, recvQueue, waitFlag, todo>>

(* Mutant: isSendingMsg stays set. *)
UnsetForgotten(h) ==
  /\ At(h, "unset")
  /\ Return(h)
  /\ UNCHANGED <<sndQueue, sndHead, sndTail, sndQueueSize, isSendingMsg, snd_seqs, msg, netVars,
                 lockVars, history, waitFlag, retryNum>>

(* The queue was empty when it was tested last: isSendingMsg = 0, return 0. *)
Unset(h) ==
  /\ At(h, "unset")
  /\ isSendingMsg' = [isSendingMsg EXCEPT ![h] = 0]
  /\ Return(h)
  /\ UNCHANGED <<sndQueue, sndHead, sndTail, sndQueueSize, snd_seqs, msg, netVars, lockVars, history,
                 waitFlag, retryNum>>

(* while(waitFlag) ends. *)
Wake(h) ==
  /\ Running(h) = "main" /\ At(h, "wait")
  /\ waitFlag[h] = 0
  /\ todo' = [todo EXCEPT ![h] = Tail(@)]
  /\ Goto(h, "app")
  /\ UNCHANGED <<queueVars, netVars, lockVars, history, recvQueue, waitFlag, retryNum>>

-----------------------------------------------------------------------------
(* sigio_handler *)

(* The peers of h with something in their socket. *)
Readable(h) == {f \in Host \ {h} : data[f][h] # << >>}

(* The members of a set of hosts as the loop visits them. *)
InOrder(from) == {s \in [1 .. Cardinality(from) -> from] : \A i, j \in DOMAIN s : i < j => s[i] < s[j]}

(* SIGIO is delivered: one datagram is taken from every peer that has one   *)
(* there, and acknowledged, whether or not it was handled before. More of   *)
(* the same peer stay in the socket until the next signal.                  *)
Interrupt(h) ==
  /\ pending[h]
  /\ Interruptible(h)
  /\ LET from == Readable(h)
     IN \E peers \in InOrder(from) : \E lost \in SUBSET from :
          /\ faults.ackloss + Cardinality(lost) <= MaxAckLoss
          /\ faults' = [faults EXCEPT !.ackloss = @ + Cardinality(lost)]
          /\ recvQueue' = [recvQueue EXCEPT ![h] =
                             [i \in DOMAIN peers |-> Head(data[peers[i]][h])]]
          /\ acks' = [acks EXCEPT ![h] =
                        [f \in Host |-> IF f \in from \ lost
                                        THEN Append(@[f], Head(data[f][h]).seqno) ELSE @[f]]]
          /\ data' = [f \in Host |-> IF f \in from THEN [data[f] EXCEPT ![h] = Tail(@)]
                                     ELSE data[f]]
  /\ pending' = [pending EXCEPT ![h] = FALSE]
  /\ pc' = [pc EXCEPT ![h].sigio = "dispatch"]
  /\ UNCHANGED <<queueVars, lockVars, history, waitFlag, retryNum, todo>>

(* The next message to dispatch. *)
Dispatching(h, command) ==
  /\ pc[h].sigio = "dispatch"
  /\ recvQueue[h] # << >>
  /\ LET m == Head(recvQueue[h])
     IN /\ m.command = command
        /\ handled' = [handled EXCEPT ![m.from][h] = Append(@, Label(m))]
  /\ UNCHANGED <<netVars, sent, ended, retryNum, todo>>

(* The handler sends an answer to m: it takes a slot. *)
Answer(h, m) ==
  /\ nextFreeMsgInQueue(h)
  /\ question' = [question EXCEPT ![h] = m]
  /\ UNCHANGED <<sndHead, sndTail, sndQueueSize, isSendingMsg, snd_seqs, recvQueue, waitFlag>>

(* The handler sends nothing. *)
NoAnswer(h) == /\ recvQueue' = [recvQueue EXCEPT ![h] = Tail(@)]
               /\ UNCHANGED <<queueVars, question, pc>>

(* testCommand prints the message. *)
HandleTest(h) ==
  /\ Dispatching(h, "TEST")
  /\ NoAnswer(h)
  /\ UNCHANGED <<lockFree, waiters, waitFlag>>

HandleFetch(h) ==
  /\ Dispatching(h, "FETCH")
  /\ Answer(h, Head(recvQueue[h]))
  /\ UNCHANGED <<lockFree, waiters>>

(* The lock is granted, or its asker listed. *)
HandleAcquire(h) ==
  /\ Dispatching(h, "ACQ")
  /\ IF lockFree[h] THEN Answer(h, Head(recvQueue[h])) /\ UNCHANGED waiters
     ELSE /\ waiters' = [waiters EXCEPT ![h] = Append(@, Head(recvQueue[h]))]
          /\ NoAnswer(h) /\ UNCHANGED waitFlag
  /\ lockFree' = [lockFree EXCEPT ![h] = FALSE]

(* The lock is granted to the first of the waiting hosts, or becomes free. *)
HandleRelease(h) ==
  /\ Dispatching(h, "RLS")
  /\ IF waiters[h] # << >> THEN Answer(h, Head(waiters[h])) ELSE NoAnswer(h) /\ UNCHANGED waitFlag
  /\ waiters' = [waiters EXCEPT ![h] = IF @ = << >> THEN @ ELSE Tail(@)]
  /\ lockFree' = [lockFree EXCEPT ![h] = waiters[h] = << >>]

(* An answer ends the wait of the program, whatever it waits for. *)
HandleGrant(h) ==
  /\ Dispatching(h, "GRANT")
  /\ waitFlag' = [waitFlag EXCEPT ![h] = 0]
  /\ NoAnswer(h)
  /\ UNCHANGED <<lockFree, waiters>>

(* recvQueue is empty: SIGIO is enabled and the program goes on. *)
HandlerEnds(h) ==
  /\ pc[h].sigio = "dispatch"
  /\ recvQueue[h] = << >>
  /\ pc' = [pc EXCEPT ![h].sigio = "idle"]
  /\ UNCHANGED <<queueVars, netVars, lockVars, history, recvQueue, waitFlag, retryNum, todo>>

-----------------------------------------------------------------------------
(* A step of what runs at h. *)
Step(h) == \/ Begin(h) \/ Fill(h) \/ Send(h) \/ Count(h) \/ SetSending(h)
           \/ Transmit(h) \/ ReadAck(h) \/ DropAcked(h) \/ Timeout(h) \/ Unset(h) \/ Wake(h)
           \/ HandleTest(h) \/ HandleFetch(h) \/ HandleAcquire(h) \/ HandleRelease(h)
           \/ HandleGrant(h) \/ HandlerEnds(h)

Next == \E h \in Host : Step(h) \/ Interrupt(h)

Spec == Init /\ [][Next]_vars

(* What runs goes on, and a raised SIGIO is delivered once it is not masked *)
(* any more: it stays pending while it is.                                  *)
FairSpec == /\ Spec
            /\ \A h \in Host : WF_vars(Step(h)) /\ SF_vars(Interrupt(h))

-----------------------------------------------------------------------------
(* Properties *)

(* Type invariant: every variable keeps the shape its C declaration gives. *)
TypeOK == /\ sndQueue \in [Host -> [Slot -> Message]]
          /\ sndHead \in [Host -> Slot]
          /\ sndTail \in [Host -> Slot]
          /\ sndQueueSize \in [Host -> 0 .. MAX_QUEUE_SIZE]
          /\ isSendingMsg \in [Host -> {0, 1}]
          /\ snd_seqs \in [Host -> [Host -> Nat]]
          /\ recvQueue \in [Host -> Seq(Message)]
          /\ waitFlag \in [Host -> {0, 1}]
          /\ lockFree \in [Host -> BOOLEAN]
          /\ waiters \in [Host -> Seq(Message)]
          /\ question \in [Host -> Message]
          /\ pc \in [Host -> [main : Points, sigio : HandlerPoints]]
          /\ msg \in [Host -> [main : Slot, sigio : Slot]]
          /\ retryNum \in [Host -> 0 .. MAX_RETRY_NUM - 1]
          /\ data \in [Host -> [Host -> Seq(Message)]]
          /\ acks \in [Host -> [Host -> Seq(Int)]]
          /\ pending \in [Host -> BOOLEAN]

(* A message for t was dropped after MAX_RETRY_NUM attempts. *)
GivenUp(h, t) == \E i \in DOMAIN ended[h][t] : ended[h][t][i][2] = "dropped"

Received(f, t) == {handled[f][t][i] : i \in DOMAIN handled[f][t]}
                  \cup {Label(recvQueue[t][i]) : i \in DOMAIN recvQueue[t]}

(* What sendMsg takes for delivered has been delivered: as long as no       *)
(* message to that host was given up, an acknowledgement that ends an       *)
(* attempt is one of that message, not a late one of another.               *)
AckedWasReceived ==
  \A h, t \in Host : ~GivenUp(h, t) =>
    \A i \in DOMAIN ended[h][t] : ended[h][t][i][1] \in Received(h, t)

(* "send all messages out" (sendMsg): when no sendMsg is at work at a host, *)
(* its queue is empty. Nothing would send what was left there.              *)
QueueDrained ==
  \A h \in Host : Running(h) = "main" /\ pc[h].main \in {"app", "fill", "send", "wait"}
                    => sndQueueSize[h] = 0

(* nextFreeMsgInQueue returns no NULL, which every caller would write to:   *)
(* a queue with a slot for each host holds the program's message and one    *)
(* answer for every other host.                                             *)
QueueHasRoom == \A h \in Host : pc[h].main # "crashed" /\ pc[h].sigio # "crashed"

(* The slot that nextFreeMsgInQueue handed out is still the caller's, and   *)
(* still the one msgEnqueue is going to count in, when it calls sendMsg: a   *)
(* handler that ran in between did not use it.                              *)
SlotStaysMine ==
  \A h \in Host : At(h, "send") =>
    /\ msg[h][Running(h)] = sndTail[h]
    /\ Label(sndQueue[h][sndTail[h]]) = Label(Composed(h))

(* The program that leaves while(waitFlag) has the answer to the question   *)
(* it asked, not a second copy of an earlier one.                           *)
WokenByAnswer ==
  \A h \in Host : pc[h].main = "wait" /\ waitFlag[h] = 0 =>
    <<"GRANT", <<h, Len(todo[h])>>>> \in Received(Head(todo[h]).to, h)

(* "0 --- success" (sendMsg): a message that was appended is acknowledged   *)
(* in the end. With fewer losses than attempts none is dropped: in          *)
(* particular no two handlers poll, deaf, for each other until they give    *)
(* up.                                                                      *)
SentMeansAcked == \A h, t \in Host : ~GivenUp(h, t)

(* Every call of sendMsg and every wait for an answer ends: the programs    *)
(* get to their end.                                                        *)
ProgramsEnd == <>(\A h \in Host : todo[h] = << >>)

-----------------------------------------------------------------------------
(* MiNet implements Channel *)

NumberOf(f, t, label) == CHOOSE n \in DOMAIN sent[f][t] : sent[f][t][n] = label

CH == INSTANCE Channel
        WITH sent <- [f \in Host |-> [t \in Host |-> Len(sent[f][t])]],
             handled <- [f \in Host |-> [t \in Host |->
                           [i \in DOMAIN handled[f][t] |-> NumberOf(f, t, handled[f][t][i])]]],
             givenUp <- [f \in Host |-> [t \in Host |-> GivenUp(f, t)]],
             MayRepeat <- MaxAckLoss + MaxLate > 0

(* Between two hosts messages are handled in the order they were sent; one  *)
(* is handled again only after a lost acknowledgement or an early timeout,  *)
(* and one is left out only after MAX_RETRY_NUM attempts failed.            *)
ImplementsChannel == CH!Spec
=============================================================================
