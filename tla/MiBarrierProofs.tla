--------------------------- MODULE MiBarrierProofs ---------------------------
(***************************************************************************)
(* Theorems about MiBarrier, for any number of hosts, of barriers and of   *)
(* intervals between them.                                                 *)
(***************************************************************************)
EXTENDS MiBarrier, SequenceTheorems, TLAPS

(* Host 0 exists, hosts are integers, and so are the components of Unset. *)
LEMMA Basics == /\ 0 \in Host /\ Host \subseteq Nat /\ Unset \in Stamp /\ NoStamps \in [Host -> Stamp]
                /\ \A h \in Host : h < hostnum
BY HostNumAssumption DEF Host, Unset, NoStamps, Stamp

(* The channels. *)
Net == [Host -> [Host -> Seq(Message)]]

(* Sending a message changes one channel. *)
LEMMA SentNet ==
  ASSUME NEW n \in Net, NEW f \in Host, NEW t \in Host, NEW m \in Message
  PROVE /\ Sent(n, f, t, m) \in Net
        /\ \A a, b \in Host :
             Sent(n, f, t, m)[a][b] = IF a = f /\ b = t THEN Append(n[f][t], m) ELSE n[a][b]
<1> DEFINE s == Append(n[f][t], m)
           row == [n[f] EXCEPT ![t] = s]
<1>1. s \in Seq(Message)
  BY DEF Net
<1>2. Sent(n, f, t, m) = [n EXCEPT ![f] = row]
  BY DEF Sent
<1> HIDE DEF s
<1>3. row \in [Host -> Seq(Message)] /\ \A b \in Host : row[b] = IF b = t THEN s ELSE n[f][b]
  BY <1>1 DEF Net
<1> HIDE DEF row
<1>4. /\ Sent(n, f, t, m) \in Net
      /\ \A a, b \in Host : Sent(n, f, t, m)[a][b] = IF a = f /\ b = t THEN s ELSE n[a][b]
  BY <1>2, <1>3 DEF Net
<1> QED BY <1>4 DEF s

(* Taking a message changes one channel. *)
LEMMA TakenNet ==
  ASSUME NEW n \in Net, NEW f \in Host, NEW t \in Host, n[f][t] # << >>
  PROVE /\ Taken(n, f, t) \in Net
        /\ Head(n[f][t]) \in Message
        /\ \A a, b \in Host :
             Taken(n, f, t)[a][b] = IF a = f /\ b = t THEN Tail(n[f][t]) ELSE n[a][b]
<1> DEFINE s == Tail(n[f][t])
           row == [n[f] EXCEPT ![t] = s]
<1>1. s \in Seq(Message) /\ Head(n[f][t]) \in Message
  BY DEF Net
<1>2. Taken(n, f, t) = [n EXCEPT ![f] = row]
  BY DEF Taken
<1> HIDE DEF s
<1>3. row \in [Host -> Seq(Message)] /\ \A b \in Host : row[b] = IF b = t THEN s ELSE n[f][b]
  BY <1>1 DEF Net
<1> HIDE DEF row
<1>4. /\ Taken(n, f, t) \in Net
      /\ \A a, b \in Host : Taken(n, f, t)[a][b] = IF a = f /\ b = t THEN s ELSE n[a][b]
  BY <1>2, <1>3 DEF Net
<1> QED BY <1>1, <1>4 DEF s

(* The messages of syn.c's barrier are well typed. *)
LEMMA MsgType ==
  ASSUME NEW ts \in Stamp
  PROVE /\ Msg("GRANT_ENTER_BARRIER_INFO", ts) \in Message
        /\ Msg("ENTER_BARRIER", ts) \in Message
        /\ Msg("GRANT_EXIT_BARRIER_INFO", ts) \in Message
        /\ Msg("EXIT_BARRIER", ts) \in Message
BY DEF Msg, Message

(* TypeOK types the channels. *)
LEMMA NetType == TypeOK => net \in Net
BY DEF TypeOK, Net

(* What the channels hold after a step that sends a message. *)
LEMMA SentBy ==
  ASSUME TypeOK, NEW f \in Host, NEW t \in Host, NEW m \in Message, net' = Sent(net, f, t, m)
  PROVE \A a, b \in Host : net'[a][b] = IF a = f /\ b = t THEN Append(net[f][t], m) ELSE net[a][b]
<1>1. PICK n \in Net : n = net
  BY NetType
<1>2. \A a, b \in Host : Sent(n, f, t, m)[a][b] = IF a = f /\ b = t THEN Append(n[f][t], m) ELSE n[a][b]
  BY SentNet
<1> QED BY <1>1, <1>2

(* What the channels hold after a step that takes a message. *)
LEMMA TakenBy ==
  ASSUME TypeOK, NEW f \in Host, NEW t \in Host, net[f][t] # << >>, net' = Taken(net, f, t)
  PROVE \A a, b \in Host : net'[a][b] = IF a = f /\ b = t THEN Tail(net[f][t]) ELSE net[a][b]
<1>1. \A a, b \in Host : Taken(net, f, t)[a][b] = IF a = f /\ b = t THEN Tail(net[f][t]) ELSE net[a][b]
  BY NetType, TakenNet
<1> QED BY <1>1

(* The timestamp a barrier opens is one. *)
LEMMA StampType == ASSUME TypeOK PROVE BarrierStamp \in Stamp
BY DEF TypeOK, BarrierStamp, Stamp

(* Host 0's messages to everybody else: one more in each of its channels.   *)
LEMMA ToAll ==
  ASSUME TypeOK, NEW n \in Net
  PROVE /\ ReturnInfo(n) \in Net
        /\ \A a, b \in Host :
             ReturnInfo(n)[a][b] = IF a = 0 /\ b # 0 THEN Append(n[a][b], Msg("GRANT_EXIT_BARRIER_INFO", BarrierStamp))
                                   ELSE n[a][b]
        /\ SendExits(n) \in Net
        /\ \A a, b \in Host :
             SendExits(n)[a][b] = IF a = 0 /\ b # 0 THEN Append(n[a][b], Msg("EXIT_BARRIER", Unset)) ELSE n[a][b]
<1>1. ASSUME NEW m \in Message
      PROVE LET r == [n EXCEPT ![0] = [t \in Host |-> IF t = 0 THEN n[0][0] ELSE Append(n[0][t], m)]]
            IN /\ r \in Net
               /\ \A a, b \in Host : r[a][b] = IF a = 0 /\ b # 0 THEN Append(n[a][b], m) ELSE n[a][b]
  <2> DEFINE row == [t \in Host |-> IF t = 0 THEN n[0][0] ELSE Append(n[0][t], m)]
             r == [n EXCEPT ![0] = row]
  <2>1. row \in [Host -> Seq(Message)]
    BY Basics DEF Net
  <2>2. \A b \in Host : row[b] = IF b = 0 THEN n[0][0] ELSE Append(n[0][b], m)
    OBVIOUS
  <2> HIDE DEF row
  <2> QED BY <2>1, <2>2, Basics DEF Net
<1> QED BY <1>1, MsgType, StampType, Basics DEF ReturnInfo, SendExits

-----------------------------------------------------------------------------
(* The type invariant, with SIGIO open anywhere *)

(* TypeOK alone is not inductive: the loop that sends EXIT_BARRIER has not  *)
(* reached the last host's successor.                                       *)
TypeInv == TypeOK /\ (pc[0] = "exit" => nextExit < hostnum)

(* Every step of a program or of a handler keeps TypeInv. *)
LEMMA TypeStep == TypeInv /\ [Next]_vars => TypeInv'
<1> SUFFICES ASSUME TypeInv, [Next]_vars PROVE TypeInv'
  OBVIOUS
<1> USE DEF TypeInv
<1>0. TypeOK
  OBVIOUS
<1>1. ASSUME NEW h \in Host, addNewInterval(h) PROVE TypeInv'
  <2> DEFINE ts == [timestamp[h] EXCEPT ![h] = @ + 1]
  <2>1. ts \in Stamp /\ timestamp' = [timestamp EXCEPT ![h] = ts]
    BY <1>1 DEF addNewInterval, TypeOK, Stamp
  <2> HIDE DEF ts
  <2>2. opened' \in [Host -> 0 .. MaxInterval]
    BY <1>1, BoundAssumption DEF addNewInterval, TypeOK
  <2> QED BY <1>1, <2>1, <2>2 DEF addNewInterval, TypeOK, Net
<1>2. ASSUME NEW h \in Host, EnterInfo(h) PROVE TypeInv'
  <2>1. net' \in Net
    BY <1>2, SentNet, NetType, MsgType, Basics DEF EnterInfo, TypeOK
  <2>2. entered' \in [Host -> 0 .. MaxBarrier] /\ pc' \in [Host -> Points]
    BY <1>2, BoundAssumption DEF EnterInfo, TypeOK, Points
  <2> QED BY <1>2, <2>1, <2>2, Basics DEF EnterInfo, TypeOK, Net
<1>3. ASSUME NEW h \in Host, EnterSend(h) PROVE TypeInv'
  <2>1. net' \in Net
    BY <1>3, SentNet, NetType, MsgType, Basics DEF EnterSend, TypeOK
  <2> QED BY <1>3, <2>1, Basics DEF EnterSend, TypeOK, Points, Net
<1>4. ASSUME NEW h \in Host, Leave(h) PROVE TypeInv'
  <2>1. opened' \in [Host -> 0 .. MaxInterval]
    BY <1>4, BoundAssumption DEF Leave, TypeOK
  <2>2. pc' \in [Host -> Points] /\ (pc'[0] = "exit" => pc[0] = "exit")
    BY <1>4, Basics DEF Leave, TypeOK, Points
  <2> QED BY <1>4, <2>1, <2>2 DEF Leave, TypeOK, Net
<1>5. CASE EnterFlag
  BY <1>5, Basics, BoundAssumption DEF EnterFlag, TypeOK, Points, RacePoints
<1>6. CASE EnterStamp
  BY <1>6, Basics DEF EnterStamp, TypeOK, Points, RacePoints
<1>7. CASE CheckNotAll
  BY <1>7, Basics DEF CheckNotAll, TypeOK, Points, RacePoints
<1>8. CASE SetWait
  BY <1>8, Basics DEF SetWait, TypeOK, Points, RacePoints
<1>9. CASE CheckAll
  <2>1. net' \in Net /\ timestamp' \in [Host -> Stamp]
    BY <1>9, ToAll, NetType, StampType, Basics DEF CheckAll, TypeOK
  <2> QED BY <1>9, <2>1, Basics, HostNumAssumption DEF CheckAll, TypeOK, Points, RacePoints, ClearedStamps, Net
<1>10. CASE SendExit
  <2>1. nextExit \in Host /\ nextExit + 1 \in 1 .. hostnum
    BY <1>10, HostNumAssumption DEF SendExit, TypeOK, Host
  <2>2. net' \in Net
    BY <1>10, <2>1, SentNet, NetType, MsgType, Basics DEF SendExit, TypeOK
  <2>3. pc' \in [Host -> Points] /\ (pc'[0] = "exit" => nextExit' < hostnum)
    BY <1>10, <2>1, Basics, HostNumAssumption DEF SendExit, TypeOK, Points, RacePoints
  <2> QED BY <1>10, <2>1, <2>2, <2>3 DEF SendExit, TypeOK, Net
<1>11. CASE ResetFlags
  BY <1>11, Basics, HostNumAssumption, BoundAssumption DEF ResetFlags, TypeOK, Points
<1>12. ASSUME NEW f \in Host, HandleEnterInfo(f) PROVE TypeInv'
  <2>1. Head(net[f][0]).timestamp \in Stamp /\ net' \in Net
    BY <1>12, TakenNet, NetType, Basics DEF HandleEnterInfo, Arrived, TypeOK, Message
  <2> QED BY <1>12, <2>1 DEF HandleEnterInfo, TypeOK, Net
<1>13. ASSUME NEW f \in Host, HandleEnter(f) PROVE TypeInv'
  <2>1. Taken(net, f, 0) \in Net
    BY <1>13, TakenNet, NetType, Basics DEF HandleEnter, Arrived, TypeOK
  <2>2. SendExits(ReturnInfo(Taken(net, f, 0))) \in Net
    BY <2>1, ToAll
  <2>3. net' \in Net
    BY <1>13, <2>1, <2>2 DEF HandleEnter
  <2>4. timestamp' \in [Host -> Stamp] /\ barrierTimestamps' \in [Host -> Stamp]
    BY <1>13, StampType, Basics DEF HandleEnter, TypeOK, ClearedStamps
  <2>5. barrierFlags' \in [Host -> {0, 1}] /\ waitFlag' \in [Host -> {0, 1}]
    BY <1>13, Basics DEF HandleEnter, TypeOK
  <2> QED BY <1>13, <2>3, <2>4, <2>5 DEF HandleEnter, TypeOK, Net
<1>14. ASSUME NEW h \in Host, HandleExitInfo(h) PROVE TypeInv'
  <2>1. Head(net[0][h]).timestamp \in Stamp /\ net' \in Net
    BY <1>14, TakenNet, NetType, Basics DEF HandleExitInfo, Arrived, TypeOK, Message
  <2> QED BY <1>14, <2>1 DEF HandleExitInfo, TypeOK, Net
<1>15. ASSUME NEW h \in Host, HandleExit(h) PROVE TypeInv'
  <2>1. net' \in Net
    BY <1>15, TakenNet, NetType, Basics DEF HandleExit, Arrived, TypeOK
  <2> QED BY <1>15, <2>1 DEF HandleExit, TypeOK, Net
<1>16. CASE UNCHANGED vars
  BY <1>16 DEF vars, TypeOK
<1> QED
  BY <1>1, <1>2, <1>3, <1>4, <1>5, <1>6, <1>7, <1>8, <1>9, <1>10, <1>11, <1>12, <1>13, <1>14, <1>15, <1>16
  DEF Next, Enter, Main, Main0, Dispatch

(* initsyn establishes TypeInv. *)
LEMMA TypeInit == Init => TypeInv
BY Basics, HostNumAssumption, BoundAssumption DEF Init, TypeInv, TypeOK, Points, Stamp

(* The type invariant of MiBarrier: through every interleaving of the SIGIO *)
(* handler with mi_barrier, with SIGIO open at any of its points: the loop  *)
(* that sends EXIT_BARRIER also stays within the hosts.                     *)
THEOREM TypeCorrect == Spec => []TypeOK
<1>1. TypeInv => TypeOK
  BY DEF TypeInv
<1> QED BY <1>1, TypeInit, TypeStep, PTL DEF Spec

-----------------------------------------------------------------------------
(* The inductive invariant: where every host is *)

(* Host 0 is inside mi_barrier and the barrier it entered has been          *)
(* completed: returnAllBarrierInfo has run for it.                          *)
Completed == pc[0] # "app" /\ (pc[0] \in {"exit", "reset"} \/ barrierFlags[0] = 0)

(* The number of barriers completed. *)
Round == IF pc[0] = "app" \/ Completed THEN entered[0] ELSE entered[0] - 1

(* The timestamp that the last completed barrier opened. *)
Base == [g \in Host |-> IF g = 0 /\ ~Completed THEN timestamp[0][0] - opened[0] ELSE timestamp[0][g]]

(* Host h opened its intervals on top of the last completed barrier's. *)
OnBase(h) == timestamp[h] = [Base EXCEPT ![h] = @ + opened[h]]

(* Host h has not yet got the last completed barrier's timestamp. *)
Behind(h) == /\ \A g \in Host : timestamp[h][g] =< Base[g]
             /\ timestamp[h][h] < Base[h]

(* Host 0's program has sent the timestamps and still owes h its exit. *)
Serving == pc[0] \in {"exit", "reset"}
Owed(h) == pc[0] = "exit" /\ nextExit =< h

ENTERINFO(h) == Msg("GRANT_ENTER_BARRIER_INFO", timestamp[h])
ENTER == Msg("ENTER_BARRIER", Unset)
EXITINFO == Msg("GRANT_EXIT_BARRIER_INFO", Base)
EXIT == Msg("EXIT_BARRIER", Unset)

(* Host h's program at p with waitFlag w, e barriers past the last completed *)
(* one, with the messages up on their way to host 0 and down back.           *)
At(h, p, w, e, up, down) ==
  /\ pc[h] = p /\ waitFlag[h] = w /\ entered[h] = Round + e
  /\ net[h][0] = up /\ net[0][h] = down

(* What host 0 stores for h. *)
Known(h, flag, ts) == /\ barrierTimestamps[h] = ts
                      /\ Serving \/ barrierFlags[h] = flag

Outside(h) == /\ At(h, "app", 0, 0, << >>, << >>)
              /\ Known(h, 0, Unset) /\ OnBase(h) /\ ~Owed(h)

Entering(h) ==
  /\ OnBase(h) /\ ~Owed(h)
  /\ \/ At(h, "enter", 0, 1, <<ENTERINFO(h)>>, << >>) /\ Known(h, 0, Unset)
     \/ At(h, "enter", 0, 1, << >>, << >>) /\ Known(h, 0, timestamp[h]) /\ ~Serving
     \/ At(h, "wait", 1, 1, <<ENTERINFO(h), ENTER>>, << >>) /\ Known(h, 0, Unset)
     \/ At(h, "wait", 1, 1, <<ENTER>>, << >>) /\ Known(h, 0, timestamp[h]) /\ ~Serving
     \/ At(h, "wait", 1, 1, << >>, << >>) /\ Known(h, 1, timestamp[h]) /\ ~Serving

Leaving(h) ==
  /\ Known(h, 0, Unset)
  /\ \/ At(h, "wait", 1, 0, << >>, <<EXITINFO>>) /\ Owed(h) /\ Behind(h)
     \/ At(h, "wait", 1, 0, << >>, << >>) /\ Owed(h) /\ timestamp[h] = Base
     \/ At(h, "wait", 1, 0, << >>, <<EXITINFO, EXIT>>) /\ ~Owed(h) /\ Behind(h)
     \/ At(h, "wait", 1, 0, << >>, <<EXIT>>) /\ ~Owed(h) /\ timestamp[h] = Base
     \/ At(h, "wait", 0, 0, << >>, << >>) /\ ~Owed(h) /\ timestamp[h] = Base

Phase(h) == Outside(h) \/ Entering(h) \/ Leaving(h)

(* Where host 0 itself is. *)
Manager0 ==
  /\ pc[0] \in {"app", "stamp", "check", "setWait", "wait", "exit", "reset"}
  /\ pc[0] = "app" => barrierFlags[0] = 0
  /\ pc[0] = "stamp" => barrierFlags[0] = 1
  /\ Serving => \A h \in Host : barrierFlags[h] = 1
  /\ barrierTimestamps[0] = IF pc[0] \in {"check", "setWait", "wait"} /\ barrierFlags[0] = 1
                            THEN timestamp[0] ELSE Unset
  /\ pc[0] = "wait" /\ barrierFlags[0] = 1 => waitFlag[0] = 1
  /\ pc[0] # "app" => entered[0] > 0
  /\ pc[0] = "exit" => nextExit < hostnum
  /\ net[0][0] = << >>

BarrierInv == TypeOK /\ Manager0 /\ \A h \in Host \ {0} : Phase(h)

(* SIGIO is masked where host 0's program has the barrier's flags and       *)
(* timestamps half updated.  It may be open at the other two points: what   *)
(* the handler costs there is a wake-up, never a barrier.                   *)
Masked == SigioPoints \subseteq {"check", "setWait"}

-----------------------------------------------------------------------------
(* Lemmas about the invariant *)

(* Short sequences of messages. *)
LEMMA ShortSeqs ==
  ASSUME NEW a \in Message, NEW b \in Message
  PROVE /\ Append(<< >>, a) = <<a>>
        /\ Append(<<a>>, b) = <<a, b>>
        /\ Head(<<a>>) = a /\ Tail(<<a>>) = << >> /\ <<a>> # << >>
        /\ Head(<<a, b>>) = a /\ Tail(<<a, b>>) = <<b>> /\ <<a, b>> # << >>
<1>0. << >> \in Seq(Message) /\ <<a>> \in Seq(Message) /\ <<a, b>> \in Seq(Message)
  OBVIOUS
<1>a. Append(<< >>, a) = <<a>>
  BY <1>0
<1>1. Append(<<a>>, b) = <<a, b>>
  <2>1. Append(<<a>>, b) \in Seq(Message) /\ Len(Append(<<a>>, b)) = 2
    BY <1>0
  <2>2. Append(<<a>>, b)[1] = a /\ Append(<<a>>, b)[2] = b
    BY <1>0
  <2>3. Len(<<a, b>>) = 2 /\ <<a, b>>[1] = a /\ <<a, b>>[2] = b
    OBVIOUS
  <2>4. \A i \in 1 .. 2 : Append(<<a>>, b)[i] = <<a, b>>[i]
    BY <2>2, <2>3
  <2> QED BY <1>0, <2>1, <2>3, <2>4, SeqEqual
<1>2. Head(<<a>>) = a /\ Head(<<a, b>>) = a /\ <<a>> # << >> /\ <<a, b>> # << >>
  OBVIOUS
<1>3. Tail(<<a>>) = << >>
  OBVIOUS
<1>4. Tail(<<a, b>>) = <<b>>
  OBVIOUS
<1> QED BY <1>a, <1>1, <1>2, <1>3, <1>4

(* A step leaves host g, and what host 0 and the channels hold of it, alone. *)
Same(g) == /\ pc'[g] = pc[g] /\ waitFlag'[g] = waitFlag[g] /\ entered'[g] = entered[g]
           /\ opened'[g] = opened[g] /\ timestamp'[g] = timestamp[g]
           /\ barrierFlags'[g] = barrierFlags[g] /\ barrierTimestamps'[g] = barrierTimestamps[g]
           /\ net'[g][0] = net[g][0] /\ net'[0][g] = net[0][g]

(* The last completed barrier is the same, and host 0's program owes the    *)
(* same exits.                                                              *)
SameRound == /\ Round' = Round /\ Base' = Base /\ (Serving' <=> Serving)
             /\ \A h \in Host \ {0} : Owed(h)' <=> Owed(h)

(* A host that a step leaves alone stays in its phase. *)
LEMMA FrameOne ==
  ASSUME Round' = Round, Base' = Base, Serving' <=> Serving,
         NEW h \in Host \ {0}, Owed(h)' <=> Owed(h), Same(h), Phase(h)
  PROVE Phase(h)'
<1> USE DEF Same
<1>1. ENTERINFO(h)' = ENTERINFO(h) /\ EXITINFO' = EXITINFO /\ ENTER' = ENTER /\ EXIT' = EXIT
  BY DEF ENTERINFO, EXITINFO, ENTER, EXIT, Msg
<1>2. (OnBase(h)' <=> OnBase(h)) /\ (Behind(h)' <=> Behind(h)) /\ (Owed(h)' <=> Owed(h))
  BY DEF OnBase, Behind
<1>3. ASSUME NEW p, NEW w, NEW e, NEW u, NEW d PROVE At(h, p, w, e, u, d)' <=> At(h, p, w, e, u, d)
  BY DEF At
<1>4. ASSUME NEW v, NEW ts PROVE Known(h, v, ts)' <=> Known(h, v, ts)
  BY DEF Known
<1>5. CASE Outside(h)
  BY <1>5, <1>2, <1>3, <1>4 DEF Outside, Phase
<1>6. CASE Entering(h)
  BY <1>6, <1>1, <1>2, <1>3, <1>4 DEF Entering, Phase
<1>7. CASE Leaving(h)
  BY <1>7, <1>1, <1>2, <1>3, <1>4 DEF Leaving, Phase
<1> QED BY <1>5, <1>6, <1>7 DEF Phase

(* The same, when the barrier and all that is owed stay as they were. *)
LEMMA Frame == ASSUME SameRound, NEW h \in Host \ {0}, Same(h), Phase(h) PROVE Phase(h)'
BY FrameOne DEF SameRound

(* A step that leaves host 0 alone opens no interval for the others. *)
LEMMA Steady == ASSUME Same(0), nextExit' = nextExit PROVE SameRound
BY DEF Same, SameRound, Completed, Round, Base, Serving, Owed

(* A step of host h, or of the handler for h, has only h's phase to keep. *)
LEMMA OnlyOne ==
  ASSUME BarrierInv, TypeOK', NEW h \in Host \ {0}, nextExit' = nextExit,
         \A g \in Host \ {h} : Same(g), Serving => barrierFlags'[h] = barrierFlags[h],
         SameRound => Phase(h)'
  PROVE BarrierInv'
<1>1. Same(0)
  BY Basics
<1>2. SameRound
  BY <1>1, Steady
<1>3. Manager0'
  BY <1>1, <1>2, Basics DEF BarrierInv, Manager0, Same, SameRound, Serving
<1>4. \A g \in Host \ {0, h} : Phase(g)'
  BY <1>2, Frame DEF BarrierInv
<1> QED BY <1>2, <1>3, <1>4 DEF BarrierInv

(* The four messages are well typed and told apart by their commands. *)
LEMMA Messages ==
  ASSUME TypeOK, NEW h \in Host
  PROVE /\ Base \in Stamp /\ timestamp[h] \in Stamp /\ Round \in Int
        /\ ENTERINFO(h) \in Message /\ ENTERINFO(h).command = "GRANT_ENTER_BARRIER_INFO"
        /\ ENTERINFO(h).timestamp = timestamp[h]
        /\ ENTER \in Message /\ ENTER.command = "ENTER_BARRIER"
        /\ EXITINFO \in Message /\ EXITINFO.command = "GRANT_EXIT_BARRIER_INFO"
        /\ EXITINFO.timestamp = Base
        /\ EXIT \in Message /\ EXIT.command = "EXIT_BARRIER"
<1>0. timestamp[h] \in [Host -> Int] /\ timestamp[0] \in [Host -> Int]
  BY Basics DEF TypeOK, Stamp
<1>a. opened[0] \in Int /\ entered[0] \in Int
  BY Basics, BoundAssumption DEF TypeOK
<1>1. Base \in Stamp /\ timestamp[h] \in Stamp /\ Round \in Int
  BY <1>0, <1>a, Basics DEF Base, Stamp, Round
<1> QED BY <1>1, MsgType, Basics DEF ENTERINFO, ENTER, EXITINFO, EXIT, Msg

(* Nothing is ever sent to host 0 by itself, and only host 0 sends exits. *)
LEMMA Channels ==
  ASSUME BarrierInv, NEW h \in Host
  PROVE /\ net[0][0] = << >>
        /\ net[h][0] # << >> => h # 0 /\ Head(net[h][0]).command \in {"GRANT_ENTER_BARRIER_INFO", "ENTER_BARRIER"}
        /\ net[0][h] # << >> => h # 0 /\ Head(net[0][h]).command \in {"GRANT_EXIT_BARRIER_INFO", "EXIT_BARRIER"}
<1>1. net[0][0] = << >>
  BY DEF BarrierInv, Manager0
<1>2. CASE h # 0
  <2>1. Phase(h) /\ TypeOK
    BY <1>2 DEF BarrierInv
  <2> QED BY <1>1, <1>2, <2>1, Messages, ShortSeqs DEF Phase, Outside, Entering, Leaving, At
<1> QED BY <1>1, <1>2

-----------------------------------------------------------------------------
(* The steps of the other hosts and of their handlers keep the invariant *)

(* addNewInterval at a host other than host 0. *)
LEMMA IntervalStep ==
  ASSUME BarrierInv, TypeOK', NEW h \in Host \ {0}, addNewInterval(h)
  PROVE BarrierInv'
<1> USE DEF addNewInterval
<1>1. TypeOK /\ Phase(h)
  BY DEF BarrierInv
<1>2. \A g \in Host \ {h} : Same(g)
  BY <1>1 DEF Same, TypeOK
<1>3. Outside(h)
  BY <1>1 DEF Phase, Entering, Leaving, At
<1>4. SameRound => Outside(h)'
  <2> SUFFICES ASSUME SameRound PROVE Outside(h)'
    OBVIOUS
  <2>1. timestamp[h] = [Base EXCEPT ![h] = Base[h] + opened[h]]
    BY <1>3 DEF Outside, OnBase
  <2>2. Base \in [Host -> Int] /\ opened[h] \in Int
    BY <1>1, Messages DEF Stamp, TypeOK
  <2>3. timestamp'[h] = [timestamp[h] EXCEPT ![h] = timestamp[h][h] + 1] /\ opened'[h] = opened[h] + 1
    BY <1>1 DEF TypeOK
  <2>4. timestamp'[h] = [Base EXCEPT ![h] = Base[h] + opened'[h]]
    BY <2>1, <2>2, <2>3
  <2>5. OnBase(h)'
    BY <2>4 DEF SameRound, OnBase
  <2> QED BY <1>3, <2>5 DEF Outside, At, Known, SameRound
<1> QED BY <1>2, <1>4, OnlyOne DEF Phase

(* sendEnterBarrierInfo. *)
LEMMA EnterInfoStep ==
  ASSUME BarrierInv, TypeOK', NEW h \in Host, EnterInfo(h)
  PROVE BarrierInv'
<1> USE DEF EnterInfo
<1>1. TypeOK /\ Phase(h) /\ h \in Host \ {0}
  BY DEF BarrierInv
<1>2. /\ \A a, b \in Host : net'[a][b] = IF a = h /\ b = 0 THEN Append(net[h][0], ENTERINFO(h)) ELSE net[a][b]
  <2>1. net' = Sent(net, h, 0, ENTERINFO(h)) /\ ENTERINFO(h) \in Message
    BY <1>1, Messages DEF ENTERINFO
  <2>2. net \in Net /\ 0 \in Host
    BY <1>1, NetType, Basics
  <2>3. PICK m \in Message : m = ENTERINFO(h) /\ net' = Sent(net, h, 0, m)
    BY <2>1
  <2>4. \A a, b \in Host : Sent(net, h, 0, m)[a][b] = IF a = h /\ b = 0 THEN Append(net[h][0], m) ELSE net[a][b]
    BY <2>2, SentNet
  <2> QED BY <2>3, <2>4
<1>3. \A g \in Host \ {h} : Same(g)
  BY <1>1, <1>2, Basics DEF Same, TypeOK
<1>4. Outside(h)
  BY <1>1 DEF Phase, Entering, Leaving, At
<1>5. SameRound => Entering(h)'
  <2> SUFFICES ASSUME SameRound PROVE Entering(h)'
    OBVIOUS
  <2>1. OnBase(h)' /\ ~Owed(h)' /\ Known(h, 0, Unset)' /\ ENTERINFO(h)' = ENTERINFO(h)
    BY <1>1, <1>4 DEF Outside, OnBase, Known, SameRound, ENTERINFO
  <2>2. At(h, "enter", 0, 1, <<ENTERINFO(h)>>, << >>)'
    <3>1. net'[h][0] = <<ENTERINFO(h)>> /\ net'[0][h] = << >>
      BY <1>1, <1>2, <1>4, Messages, ShortSeqs, Basics DEF Outside, At
    <3>2. entered'[h] = Round' + 1 /\ pc'[h] = "enter" /\ waitFlag'[h] = 0
      BY SMTT(30), <1>1, <1>4, Messages DEF Outside, At, SameRound, TypeOK
    <3> QED BY <2>1, <3>1, <3>2 DEF At
  <2> QED BY <2>1, <2>2 DEF Entering
<1> QED BY <1>1, <1>3, <1>5, OnlyOne DEF Phase

(* ENTER_BARRIER is sent. *)
LEMMA EnterSendStep ==
  ASSUME BarrierInv, TypeOK', NEW h \in Host, EnterSend(h)
  PROVE BarrierInv'
<1> USE DEF EnterSend
<1>1. TypeOK /\ Phase(h) /\ h \in Host \ {0}
  BY DEF BarrierInv, Manager0
<1>2. /\ \A a, b \in Host : net'[a][b] = IF a = h /\ b = 0 THEN Append(net[h][0], ENTER) ELSE net[a][b]
  <2>1. net' = Sent(net, h, 0, ENTER) /\ ENTER \in Message
    BY <1>1, Messages DEF ENTER
  <2> QED BY <1>1, <2>1, SentNet, NetType, Basics
<1>3. \A g \in Host \ {h} : Same(g)
  BY <1>1, <1>2, Basics DEF Same, TypeOK
<1>4. Entering(h)
  BY <1>1 DEF Phase, Outside, Leaving, At
<1>5. SameRound => Entering(h)'
  <2> SUFFICES ASSUME SameRound PROVE Entering(h)'
    OBVIOUS
  <2>1. OnBase(h)' /\ ~Owed(h)' /\ ENTERINFO(h)' = ENTERINFO(h) /\ ENTER' = ENTER
    BY <1>1, <1>4 DEF Entering, OnBase, SameRound, ENTERINFO, ENTER
  <2>2. ASSUME NEW v, NEW ts PROVE Known(h, v, ts)' <=> Known(h, v, ts)
    BY DEF Known, SameRound
  <2>3. ASSUME NEW u, NEW v, v = Append(u, ENTER), At(h, "enter", 0, 1, u, << >>)
        PROVE At(h, "wait", 1, 1, v, << >>)'
    <3>1. net'[h][0] = v /\ net'[0][h] = << >>
      BY <1>1, <1>2, <2>3, Basics DEF At
    <3>2. entered'[h] = Round' + 1 /\ pc'[h] = "wait" /\ waitFlag'[h] = 1
      BY <1>1, <2>3 DEF At, SameRound, TypeOK
    <3> QED BY <2>1, <3>1, <3>2 DEF At
  <2>4. /\ Append(<< >>, ENTER) = <<ENTER>>
        /\ Append(<<ENTERINFO(h)>>, ENTER) = <<ENTERINFO(h), ENTER>>
    BY <1>1, Messages, ShortSeqs
  <2>5. CASE At(h, "enter", 0, 1, <<ENTERINFO(h)>>, << >>) /\ Known(h, 0, Unset)
    BY <2>1, <2>2, <2>3, <2>4, <2>5 DEF Entering
  <2>6. CASE At(h, "enter", 0, 1, << >>, << >>) /\ Known(h, 0, timestamp[h]) /\ ~Serving
    <3>1. At(h, "wait", 1, 1, <<ENTER>>, << >>)' /\ Known(h, 0, timestamp[h])' /\ ~Serving'
      BY <2>2, <2>3, <2>4, <2>6 DEF SameRound
    <3> QED BY <2>1, <3>1 DEF Entering
  <2> QED BY <1>4, <2>5, <2>6 DEF Entering, At
<1> QED BY <1>1, <1>3, <1>5, OnlyOne DEF Phase

(* while(waitFlag) ends at a host other than host 0. *)
LEMMA LeaveStep ==
  ASSUME BarrierInv, TypeOK', NEW h \in Host \ {0}, Leave(h)
  PROVE BarrierInv'
<1> USE DEF Leave
<1>1. TypeOK /\ Phase(h)
  BY DEF BarrierInv
<1>2. \A g \in Host \ {h} : Same(g)
  BY <1>1 DEF Same, TypeOK
<1>3. Leaving(h) /\ At(h, "wait", 0, 0, << >>, << >>) /\ ~Owed(h) /\ timestamp[h] = Base
  BY <1>1 DEF Phase, Outside, Entering, Leaving, At
<1>4. SameRound => Outside(h)'
  <2> SUFFICES ASSUME SameRound PROVE Outside(h)'
    OBVIOUS
  <2>1. Base = [Base EXCEPT ![h] = Base[h] + 0]
    BY <1>1, Messages DEF Stamp
  <2>2. OnBase(h)'
    BY <1>1, <1>3, <2>1 DEF SameRound, OnBase, TypeOK
  <2> QED BY <1>1, <1>3, <2>2 DEF Outside, Leaving, At, Known, SameRound, TypeOK
<1> QED BY <1>2, <1>4, OnlyOne DEF Phase

(* handleGrantExitBarrierMsg. *)
LEMMA ExitInfoStep ==
  ASSUME BarrierInv, TypeOK', NEW h \in Host, HandleExitInfo(h)
  PROVE BarrierInv' /\ Behind(h) /\ timestamp' = [timestamp EXCEPT ![h] = Base]
<1> USE DEF HandleExitInfo, Arrived
<1>1. TypeOK /\ h \in Host \ {0} /\ Phase(h)
  BY Channels DEF BarrierInv
<1>2. /\ \A a, b \in Host : net'[a][b] = IF a = 0 /\ b = h THEN Tail(net[0][h]) ELSE net[a][b]
  BY <1>1, TakenNet, NetType, Basics
<1>3. \A g \in Host \ {h} : Same(g)
  BY <1>1, <1>2, Basics DEF Same, TypeOK
<1>4. /\ Leaving(h) /\ Behind(h)
      /\ \/ At(h, "wait", 1, 0, << >>, <<EXITINFO>>) /\ Owed(h)
         \/ At(h, "wait", 1, 0, << >>, <<EXITINFO, EXIT>>) /\ ~Owed(h)
  BY <1>1, Messages, ShortSeqs DEF Phase, Outside, Entering, Leaving, At
<1>5. Head(net[0][h]) = EXITINFO /\ Tail(net[0][h]) = IF Owed(h) THEN << >> ELSE <<EXIT>>
  BY ZenonT(60), <1>1, <1>4, Messages, ShortSeqs DEF At
<1>6. timestamp'[h] = Base /\ timestamp' = [timestamp EXCEPT ![h] = Base]
  BY <1>1, <1>5, Messages DEF TypeOK
<1>7. SameRound => Leaving(h)'
  <2> SUFFICES ASSUME SameRound PROVE Leaving(h)'
    OBVIOUS
  <2>1. Known(h, 0, Unset)' /\ timestamp'[h] = Base' /\ (Owed(h)' <=> Owed(h)) /\ EXIT' = EXIT
    BY <1>1, <1>4, <1>6 DEF Leaving, Known, SameRound, EXIT
  <2>2. At(h, "wait", 1, 0, << >>, IF Owed(h) THEN << >> ELSE <<EXIT>>)'
    <3>1. net'[h][0] = << >> /\ net'[0][h] = IF Owed(h) THEN << >> ELSE <<EXIT>>
      BY <1>1, <1>2, <1>4, <1>5, Basics DEF At
    <3> QED BY <1>4, <3>1, <2>1 DEF At, SameRound
  <2> QED BY <2>1, <2>2 DEF Leaving
<1> QED BY <1>1, <1>3, <1>4, <1>6, <1>7, OnlyOne DEF Phase

(* handleExitBarrierMsg. *)
LEMMA ExitStep ==
  ASSUME BarrierInv, TypeOK', NEW h \in Host, HandleExit(h)
  PROVE BarrierInv'
<1> USE DEF HandleExit, Arrived
<1>1. TypeOK /\ h \in Host \ {0} /\ Phase(h)
  BY Channels DEF BarrierInv
<1>2. /\ \A a, b \in Host : net'[a][b] = IF a = 0 /\ b = h THEN Tail(net[0][h]) ELSE net[a][b]
  BY <1>1, TakenNet, NetType, Basics
<1>3. \A g \in Host \ {h} : Same(g)
  BY <1>1, <1>2, Basics DEF Same, TypeOK
<1>4. Leaving(h) /\ At(h, "wait", 1, 0, << >>, <<EXIT>>) /\ ~Owed(h) /\ timestamp[h] = Base
  BY <1>1, Messages, ShortSeqs DEF Phase, Outside, Entering, Leaving, At
<1>5. SameRound => Leaving(h)'
  <2> SUFFICES ASSUME SameRound PROVE Leaving(h)'
    OBVIOUS
  <2>1. Known(h, 0, Unset)' /\ timestamp'[h] = Base' /\ ~Owed(h)'
    BY <1>1, <1>4 DEF Leaving, Known, SameRound
  <2>2. At(h, "wait", 0, 0, << >>, << >>)'
    BY <1>1, <1>2, <1>4, Messages, ShortSeqs, Basics DEF At, SameRound, TypeOK
  <2> QED BY <2>1, <2>2 DEF Leaving
<1> QED BY <1>1, <1>3, <1>5, OnlyOne DEF Phase

-----------------------------------------------------------------------------
(* The steps of host 0's program keep the invariant *)

(* A step of host 0 that completes no barrier has its own state to keep. *)
LEMMA OnlyZero ==
  ASSUME BarrierInv, TypeOK', SameRound, \A g \in Host \ {0} : Same(g), Manager0'
  PROVE BarrierInv'
BY Frame DEF BarrierInv

(* addNewInterval at host 0. *)
LEMMA Interval0Step ==
  ASSUME BarrierInv, TypeOK', addNewInterval(0)
  PROVE BarrierInv'
<1> USE DEF addNewInterval
<1>1. TypeOK /\ Manager0
  BY DEF BarrierInv
<1>2. \A g \in Host \ {0} : Same(g)
  BY <1>1 DEF Same, TypeOK
<1>3. ~Completed /\ ~Completed' /\ Round' = Round /\ ~Serving /\ ~Serving' /\ \A h \in Host \ {0} : ~Owed(h) /\ ~Owed(h)'
  BY DEF Completed, Round, Serving, Owed
<1>4. Base' = Base
  <2>1. opened[0] \in Int /\ timestamp[0] \in [Host -> Int]
    BY <1>1, Basics, BoundAssumption DEF TypeOK, Stamp
  <2>2. timestamp'[0] = [timestamp[0] EXCEPT ![0] = timestamp[0][0] + 1] /\ opened'[0] = opened[0] + 1
    BY <1>1, Basics DEF TypeOK
  <2> QED BY <1>3, <2>1, <2>2, Basics DEF Base
<1>5. Manager0'
  BY <1>1, <1>3 DEF Manager0
<1> QED BY <1>2, <1>3, <1>4, <1>5, OnlyZero DEF SameRound

(* mi_barrier at host 0 sets its own flag. *)
LEMMA EnterFlagStep ==
  ASSUME BarrierInv, TypeOK', EnterFlag
  PROVE BarrierInv'
<1> USE DEF EnterFlag
<1>1. TypeOK /\ Manager0
  BY DEF BarrierInv
<1>2. \A g \in Host \ {0} : Same(g)
  BY <1>1 DEF Same, TypeOK
<1>3. entered[0] \in Nat /\ entered'[0] = entered[0] + 1 /\ pc'[0] = "stamp" /\ barrierFlags'[0] = 1
  BY <1>1, Basics, BoundAssumption DEF TypeOK
<1>4. ~Completed /\ ~Completed' /\ ~Serving /\ ~Serving' /\ \A h \in Host \ {0} : ~Owed(h) /\ ~Owed(h)'
  BY <1>3 DEF Completed, Serving, Owed
<1>5. Round' = Round /\ Base' = Base
  BY <1>3, <1>4 DEF Round, Base
<1>6. Manager0'
  BY <1>1, <1>3, <1>4 DEF Manager0
<1> QED BY <1>2, <1>4, <1>5, <1>6, OnlyZero DEF SameRound

(* mi_barrier at host 0 stores its own timestamp, checkBarrierFlags finds a *)
(* flag that is not set, and waitFlag is raised.                            *)
LEMMA WaitStep ==
  ASSUME BarrierInv, TypeOK', EnterStamp \/ CheckNotAll \/ SetWait
  PROVE BarrierInv'
<1>1. TypeOK /\ Manager0
  BY DEF BarrierInv
<1>2. /\ pc[0] \in {"stamp", "check", "setWait"} /\ pc'[0] \in {"check", "setWait", "wait"}
      /\ UNCHANGED <<barrierFlags, timestamp, entered, opened, net>>
  BY <1>1, Basics DEF EnterStamp, CheckNotAll, SetWait, TypeOK
<1>3. \A g \in Host \ {0} : Same(g)
  BY <1>1, <1>2 DEF Same, TypeOK, EnterStamp, CheckNotAll, SetWait
<1>4. (Completed' <=> Completed) /\ ~Serving /\ ~Serving' /\ \A h \in Host \ {0} : ~Owed(h) /\ ~Owed(h)'
  BY <1>2 DEF Completed, Serving, Owed
<1>5. Round' = Round /\ Base' = Base
  BY <1>2, <1>4 DEF Round, Base
<1>6. Manager0'
  <2>1. CASE EnterStamp
    <3>1. barrierTimestamps'[0] = timestamp[0] /\ pc[0] = "stamp" /\ pc'[0] = "check"
      BY <1>1, <2>1, Basics DEF EnterStamp, TypeOK
    <3> QED BY <1>1, <1>2, <1>4, <3>1 DEF Manager0
  <2>2. CASE CheckNotAll
    <3>1. barrierTimestamps' = barrierTimestamps /\ pc[0] = "check" /\ pc'[0] = "setWait"
      BY <1>1, <2>2, Basics DEF CheckNotAll, TypeOK
    <3> QED BY <1>1, <1>2, <1>4, <3>1 DEF Manager0
  <2>3. CASE SetWait
    <3>1. barrierTimestamps' = barrierTimestamps /\ pc[0] = "setWait" /\ pc'[0] = "wait" /\ waitFlag'[0] = 1
      BY <1>1, <2>3, Basics DEF SetWait, TypeOK
    <3> QED BY <1>1, <1>2, <1>4, <3>1 DEF Manager0
  <2> QED BY <2>1, <2>2, <2>3
<1> QED BY <1>3, <1>4, <1>5, <1>6, OnlyZero DEF SameRound

(* The last flag is set: each host waits with its timestamp stored, and the *)
(* timestamp the barrier opens is after each of them.                       *)
LEMMA AllIn ==
  ASSUME BarrierInv, ~Serving, pc[0] \in {"check", "setWait", "wait"}, barrierFlags[0] = 1
  PROVE /\ ~Completed /\ Round = entered[0] - 1 /\ entered[0] \in Int
        /\ \A g \in Host : Base[g] + (IF g = 0 THEN opened[0] ELSE 0) = timestamp[0][g]
        /\ barrierTimestamps[0] = timestamp[0]
        /\ Base \in [Host -> Int] /\ opened \in [Host -> Nat]
<1>1. TypeOK /\ Manager0
  BY DEF BarrierInv
<1>2. timestamp[0] \in [Host -> Int]
  BY <1>1, Basics DEF TypeOK, Stamp
<1>3. entered[0] \in Int /\ opened \in [Host -> Nat]
  BY <1>1, Basics, BoundAssumption DEF TypeOK
<1>4. ~Completed /\ Round = entered[0] - 1
  BY DEF Completed, Round, Serving
<1>5. \A g \in Host : Base[g] + (IF g = 0 THEN opened[0] ELSE 0) = timestamp[0][g]
  BY <1>2, <1>3, <1>4, Basics DEF Base
<1> QED BY <1>1, <1>3, <1>4, <1>5, Messages, Basics DEF Manager0, Stamp

(* The barrier's timestamp is after that of a host whose own one is stored. *)
LEMMA StampAfter ==
  ASSUME BarrierInv, ~Serving, pc[0] \in {"check", "setWait", "wait"},
         \A g \in Host : barrierTimestamps[g] = timestamp[g],
         \A g \in Host \ {0} : OnBase(g), barrierFlags[0] = 1,
         NEW h \in Host
  PROVE /\ \A g \in Host : timestamp[h][g] < BarrierStamp[g]
        /\ BarrierStamp \in [Host -> Int]
<1>1. /\ Base \in [Host -> Int] /\ opened \in [Host -> Nat]
      /\ \A g \in Host : Base[g] + (IF g = 0 THEN opened[0] ELSE 0) = timestamp[0][g]
  BY AllIn
<1>2. ASSUME NEW f \in Host PROVE \A g \in Host : timestamp[f][g] = Base[g] + (IF g = f THEN opened[f] ELSE 0)
  <2>1. CASE f = 0
    BY <1>1, <2>1
  <2>2. CASE f # 0
    <3>1. timestamp[f] = [Base EXCEPT ![f] = Base[f] + opened[f]]
      BY <2>2 DEF OnBase
    <3> QED BY <1>1, <3>1
  <2> QED BY <2>1, <2>2
<1>3. ASSUME NEW g \in Host PROVE timestamp[h][g] < BarrierStamp[g] /\ BarrierStamp[g] \in Int
  <2>1. BarrierStamp[g] = timestamp[g][g] + 1
    BY DEF BarrierStamp
  <2>2. timestamp[g][g] = Base[g] + opened[g] /\ timestamp[h][g] \in Int /\ timestamp[h][g] <= Base[g] + opened[g]
    BY <1>1, <1>2
  <2>3. Base[g] + opened[g] \in Int
    BY <1>1
  <2> QED BY <2>1, <2>2, <2>3
<1> QED BY <1>3 DEF BarrierStamp

-----------------------------------------------------------------------------
(* A barrier is completed, by host 0's program or by its handler *)

(* After the step the barrier host 0 is in is completed. *)
Completes == /\ Round' = Round + 1 /\ Base' = BarrierStamp
             /\ timestamp' = [timestamp EXCEPT ![0] = BarrierStamp]
             /\ barrierTimestamps' = NoStamps
             /\ UNCHANGED <<entered, opened>>

(* A host that was waiting with its flag set is told to leave: by one       *)
(* message (the program of host 0 still owes it the other) or by both.      *)
LEMMA Released ==
  ASSUME TypeOK, TypeOK', Completes, NEW h \in Host \ {0},
         pc'[h] = "wait", waitFlag'[h] = 1, entered[h] = Round + 1,
         net'[h][0] = << >>, Serving' \/ barrierFlags'[h] = 0,
         \A g \in Host : timestamp[h][g] < BarrierStamp[g],
         \/ net'[0][h] = <<Msg("GRANT_EXIT_BARRIER_INFO", BarrierStamp)>> /\ Owed(h)'
         \/ net'[0][h] = <<Msg("GRANT_EXIT_BARRIER_INFO", BarrierStamp), EXIT>> /\ ~Owed(h)'
  PROVE Phase(h)'
<1>1. EXITINFO' = Msg("GRANT_EXIT_BARRIER_INFO", BarrierStamp) /\ EXIT' = EXIT
  BY DEF Completes, EXITINFO, EXIT
<1>2. timestamp'[h] = timestamp[h] /\ barrierTimestamps'[h] = Unset /\ entered'[h] = Round' + 0
  BY Messages DEF Completes, NoStamps, TypeOK
<1>3. Known(h, 0, Unset)'
  BY <1>2 DEF Known
<1>4. Behind(h)'
  <2>1. timestamp[h] \in [Host -> Int] /\ BarrierStamp \in [Host -> Int]
    BY StampType DEF TypeOK, Stamp
  <2>2. \A g \in Host : timestamp[h][g] =< BarrierStamp[g]
    BY <2>1
  <2> QED BY <1>2, <2>2 DEF Completes, Behind
<1>5. CASE net'[0][h] = <<Msg("GRANT_EXIT_BARRIER_INFO", BarrierStamp)>> /\ Owed(h)'
  <2>1. At(h, "wait", 1, 0, << >>, <<EXITINFO>>)'
    BY <1>1, <1>2, <1>5 DEF At
  <2> QED BY <1>3, <1>4, <1>5, <2>1 DEF Leaving, Phase
<1>6. CASE net'[0][h] = <<Msg("GRANT_EXIT_BARRIER_INFO", BarrierStamp), EXIT>> /\ ~Owed(h)'
  <2>1. At(h, "wait", 1, 0, << >>, <<EXITINFO, EXIT>>)'
    BY <1>1, <1>2, <1>6 DEF At
  <2> QED BY <1>3, <1>4, <1>6, <2>1 DEF Leaving, Phase
<1> QED BY <1>5, <1>6

(* checkBarrierFlags in the program finds all flags set. *)
LEMMA CheckAllStep ==
  ASSUME BarrierInv, TypeOK', CheckAll
  PROVE BarrierInv' /\ \A g \in Host : timestamp[0][g] < BarrierStamp[g]
<1>1. TypeOK /\ Manager0
  BY DEF BarrierInv
<1>2. pc[0] = "check" /\ ~Serving /\ \A h \in Host : barrierFlags[h] = 1
  BY DEF CheckAll, AllEntered, Serving
<1>3. /\ ~Completed /\ Round = entered[0] - 1 /\ entered[0] \in Int
      /\ barrierTimestamps[0] = timestamp[0]
  BY <1>2, Basics, AllIn
<1>4. ASSUME NEW h \in Host \ {0}
      PROVE /\ OnBase(h) /\ At(h, "wait", 1, 1, << >>, << >>) /\ barrierTimestamps[h] = timestamp[h]
  <2>1. Phase(h) /\ barrierFlags[h] # 0
    BY <1>2 DEF BarrierInv
  <2> QED BY <1>2, <2>1 DEF Phase, Outside, Entering, Leaving, Known
<1>5. ASSUME NEW h \in Host PROVE \A g \in Host : timestamp[h][g] < BarrierStamp[g]
  BY <1>2, <1>3, <1>4, StampAfter, Basics
<1>6. /\ pc'[0] = IF hostnum = 1 THEN "reset" ELSE "exit"
      /\ timestamp'[0] = BarrierStamp /\ barrierFlags' = barrierFlags
      /\ \A h \in Host \ {0} : pc'[h] = pc[h]
  BY <1>1, Basics DEF CheckAll, TypeOK
<1>7. Completed' /\ Serving'
  BY <1>6 DEF Completed, Serving
<1>8. Round' = Round + 1 /\ Base' = BarrierStamp
  <2>1. Round' = entered[0]
    BY <1>7 DEF Round, CheckAll
  <2>2. Base' = [g \in Host |-> BarrierStamp[g]]
    BY <1>6, <1>7 DEF Base
  <2> QED BY <1>3, <2>1, <2>2 DEF BarrierStamp
<1>9. Completes
  BY <1>8 DEF Completes, CheckAll, ClearedStamps
<1>10. \A a, b \in Host : net'[a][b] = IF a = 0 /\ b # 0 THEN Append(net[a][b], Msg("GRANT_EXIT_BARRIER_INFO", BarrierStamp))
                                       ELSE net[a][b]
  BY <1>1, NetType, ToAll DEF CheckAll
<1>11. ASSUME NEW h \in Host \ {0} PROVE Phase(h)'
  <2>1. hostnum # 1 /\ h >= 1
    BY HostNumAssumption DEF Host
  <2>2. Owed(h)'
    BY <1>6, <2>1 DEF Owed, CheckAll
  <2>3. Msg("GRANT_EXIT_BARRIER_INFO", BarrierStamp) \in Message
    BY <1>1, StampType, MsgType
  <2>4. net[h][0] = << >> /\ net[0][h] = << >>
    BY <1>4 DEF At
  <2>5. net'[h][0] = << >> /\ net'[0][h] = <<Msg("GRANT_EXIT_BARRIER_INFO", BarrierStamp)>>
    BY <1>10, <2>3, <2>4, ShortSeqs, Basics
  <2>6. pc'[h] = "wait" /\ waitFlag'[h] = 1 /\ entered[h] = Round + 1
    BY <1>4, <1>6 DEF At, CheckAll
  <2> QED BY <1>1, <1>5, <1>7, <1>9, <2>2, <2>5, <2>6, Released
<1>12. Manager0'
  <2>1. barrierTimestamps'[0] = Unset /\ net'[0][0] = << >> /\ nextExit' = 1
    BY <1>1, <1>10, Basics DEF CheckAll, ClearedStamps, NoStamps, Manager0
  <2>2. entered'[0] > 0
    BY <1>1, <1>2 DEF Manager0, CheckAll
  <2>3. pc'[0] = "exit" => nextExit' < hostnum
    BY <1>6, <2>1, HostNumAssumption
  <2> QED BY <1>2, <1>6, <2>1, <2>2, <2>3 DEF Manager0
<1> QED BY <1>5, <1>11, <1>12, Basics DEF BarrierInv

(* One EXIT_BARRIER after the other. *)
LEMMA SendExitStep ==
  ASSUME BarrierInv, TypeOK', SendExit
  PROVE BarrierInv'
<1>1. TypeOK /\ Manager0
  BY DEF BarrierInv
<1>2. pc[0] = "exit" /\ nextExit \in Host \ {0} /\ nextExit' = nextExit + 1
  <2>1. pc[0] = "exit" /\ nextExit' = nextExit + 1 /\ nextExit \in 1 .. hostnum
    BY <1>1 DEF SendExit, TypeOK
  <2>2. nextExit < hostnum
    BY <1>1, <2>1 DEF Manager0
  <2> QED BY <2>1, <2>2, HostNumAssumption DEF Host
<1>3. /\ pc'[0] = IF nextExit + 1 = hostnum THEN "reset" ELSE "exit"
      /\ \A h \in Host \ {0} : pc'[h] = pc[h]
  BY <1>1, Basics DEF SendExit, TypeOK
<1>4. Completed /\ Completed' /\ Serving /\ Serving'
  BY <1>2, <1>3 DEF Completed, Serving
<1>5. Round' = Round /\ Base' = Base
  BY <1>4 DEF Round, Base, SendExit
<1>6. \A a, b \in Host : net'[a][b] = IF a = 0 /\ b = nextExit THEN Append(net[0][nextExit], EXIT) ELSE net[a][b]
  <2>1. 0 \in Host /\ nextExit \in Host
    BY <1>2, Basics
  <2>2. PICK e \in Message : e = EXIT
    BY <1>1, <2>1, Messages
  <2>3. net' = Sent(net, 0, nextExit, e)
    BY <2>2 DEF SendExit, EXIT
  <2>4. \A a, b \in Host : net'[a][b] = IF a = 0 /\ b = nextExit THEN Append(net[0][nextExit], e) ELSE net[a][b]
    BY <1>1, <2>1, <2>3, SentBy
  <2> QED BY <2>2, <2>4
<1>7. \A h \in Host \ {0} : Owed(h)' <=> (Owed(h) /\ h # nextExit)
  BY <1>2, <1>3 DEF Owed, Host
<1>8. ASSUME NEW h \in Host \ {0}, h # nextExit PROVE Phase(h)'
  <2>1. Same(h) /\ Phase(h)
    BY <1>3, <1>6, <1>8, Basics DEF Same, SendExit, BarrierInv
  <2> QED BY <1>4, <1>5, <1>7, <1>8, <2>1, FrameOne
<1>9. ASSUME NEW h \in Host \ {0}, h = nextExit PROVE Phase(h)'
  <2>1. Owed(h) /\ ~Owed(h)' /\ Phase(h)
    BY <1>2, <1>7, <1>9 DEF Owed, BarrierInv, Host
  <2>2. Leaving(h)
    BY <2>1 DEF Phase, Outside, Entering
  <2>3. /\ EXITINFO' = EXITINFO /\ EXIT' = EXIT /\ (Behind(h)' <=> Behind(h))
        /\ Known(h, 0, Unset)' /\ timestamp' = timestamp /\ net'[h][0] = net[h][0]
    BY <1>4, <1>5, <1>6, <2>2, Basics DEF EXITINFO, EXIT, Behind, Known, Leaving, SendExit
  <2>a. net'[0][h] = Append(net[0][h], EXIT) /\ EXIT \in Message /\ EXITINFO \in Message
    BY <1>1, <1>6, <1>9, Messages, Basics
  <2>4. CASE At(h, "wait", 1, 0, << >>, <<EXITINFO>>) /\ Behind(h)
    <3>1. net'[0][h] = <<EXITINFO, EXIT>>
      BY <2>a, <2>4, ShortSeqs DEF At
    <3>2. At(h, "wait", 1, 0, << >>, <<EXITINFO, EXIT>>)'
      BY <1>3, <1>5, <2>3, <2>4, <3>1 DEF At, SendExit
    <3> QED BY <2>1, <2>3, <2>4, <3>2 DEF Leaving, Phase
  <2>5. CASE At(h, "wait", 1, 0, << >>, << >>) /\ timestamp[h] = Base
    <3>1. net'[0][h] = <<EXIT>>
      BY <2>a, <2>5, ShortSeqs DEF At
    <3>2. At(h, "wait", 1, 0, << >>, <<EXIT>>)' /\ timestamp'[h] = Base'
      BY <1>3, <1>5, <2>3, <2>5, <3>1 DEF At, SendExit
    <3> QED BY <2>1, <2>3, <3>2 DEF Leaving, Phase
  <2> QED BY <2>1, <2>2, <2>4, <2>5 DEF Leaving
<1>10. Manager0'
  <2>1. net'[0][0] = << >> /\ barrierTimestamps' = barrierTimestamps /\ barrierFlags' = barrierFlags
    BY <1>1, <1>2, <1>6, Basics DEF Manager0, SendExit
  <2>2. pc'[0] = "exit" => nextExit' < hostnum
    BY <1>1, <1>2, <1>3, HostNumAssumption DEF Host
  <2> QED BY <1>1, <1>2, <1>3, <1>4, <2>1, <2>2 DEF Manager0, SendExit
<1> QED BY <1>8, <1>9, <1>10 DEF BarrierInv

(* The flags are reset after the last EXIT_BARRIER. *)
LEMMA ResetStep ==
  ASSUME BarrierInv, TypeOK', ResetFlags
  PROVE BarrierInv'
<1>1. TypeOK /\ Manager0
  BY DEF BarrierInv
<1>2. pc[0] = "reset" /\ pc'[0] = "app" /\ opened'[0] = 0 /\ \A h \in Host : barrierFlags'[h] = 0
  BY <1>1, Basics DEF ResetFlags, TypeOK
<1>3. Completed /\ ~Completed' /\ Serving /\ ~Serving' /\ \A h \in Host \ {0} : ~Owed(h) /\ ~Owed(h)'
  BY <1>2 DEF Completed, Serving, Owed
<1>4. Round' = Round /\ Base' = Base
  <2>1. timestamp[0] \in [Host -> Int]
    BY <1>1, Basics DEF TypeOK, Stamp
  <2> QED BY <1>2, <1>3, <2>1, Basics DEF Round, Base, ResetFlags
<1>5. ASSUME NEW h \in Host \ {0} PROVE Phase(h)'
  <2>1. /\ pc'[h] = pc[h] /\ waitFlag'[h] = waitFlag[h] /\ entered'[h] = entered[h] /\ opened'[h] = opened[h]
        /\ timestamp'[h] = timestamp[h] /\ barrierTimestamps'[h] = barrierTimestamps[h]
        /\ net' = net /\ barrierFlags'[h] = 0
    BY <1>1, <1>2 DEF ResetFlags, TypeOK
  <2>2. ENTERINFO(h)' = ENTERINFO(h) /\ EXITINFO' = EXITINFO /\ ENTER' = ENTER /\ EXIT' = EXIT
    BY <1>4, <2>1 DEF ENTERINFO, EXITINFO, ENTER, EXIT, Msg
  <2>3. (OnBase(h)' <=> OnBase(h)) /\ (Behind(h)' <=> Behind(h))
    BY <1>4, <2>1 DEF OnBase, Behind
  <2>4. ASSUME NEW p, NEW w, NEW e, NEW u, NEW d PROVE At(h, p, w, e, u, d)' <=> At(h, p, w, e, u, d)
    BY <1>4, <2>1 DEF At
  <2>5. ASSUME NEW ts PROVE Known(h, 0, ts) => Known(h, 0, ts)'
    BY <2>1 DEF Known
  <2>6. Phase(h)
    BY DEF BarrierInv
  <2>7. CASE Outside(h)
    BY <1>3, <2>3, <2>4, <2>5, <2>7 DEF Outside, Phase
  <2>8. CASE Entering(h)
    BY <1>3, <2>2, <2>3, <2>4, <2>5, <2>8 DEF Entering, Phase
  <2>9. CASE Leaving(h)
    BY <1>3, <1>4, <2>1, <2>2, <2>3, <2>4, <2>5, <2>9 DEF Leaving, Phase
  <2> QED BY <2>6, <2>7, <2>8, <2>9 DEF Phase
<1>6. Manager0'
  BY <1>1, <1>2, <1>3, Basics DEF Manager0, ResetFlags
<1> QED BY <1>5, <1>6 DEF BarrierInv

(* while(waitFlag) ends at host 0, whose handler completed the barrier. *)
LEMMA Leave0Step ==
  ASSUME BarrierInv, TypeOK', Leave(0)
  PROVE BarrierInv'
<1>1. TypeOK /\ Manager0
  BY DEF BarrierInv
<1>2. pc[0] = "wait" /\ pc'[0] = "app" /\ opened'[0] = 0 /\ barrierFlags[0] = 0
  BY <1>1, Basics DEF Leave, TypeOK, Manager0
<1>3. Completed /\ ~Completed' /\ ~Serving /\ ~Serving' /\ \A h \in Host \ {0} : ~Owed(h) /\ ~Owed(h)'
  BY <1>2 DEF Completed, Serving, Owed
<1>4. Round' = Round /\ Base' = Base
  <2>1. timestamp[0] \in [Host -> Int]
    BY <1>1, Basics DEF TypeOK, Stamp
  <2> QED BY <1>2, <1>3, <2>1, Basics DEF Round, Base, Leave
<1>5. \A g \in Host \ {0} : Same(g)
  BY <1>1 DEF Same, Leave, TypeOK
<1>6. Manager0'
  BY <1>1, <1>2, <1>3 DEF Manager0, Leave
<1> QED BY <1>3, <1>4, <1>5, <1>6, OnlyZero DEF SameRound

-----------------------------------------------------------------------------
(* Host 0's handler *)

(* Where the handler runs, host 0's program is at no half-way point. *)
LEMMA HandlerPoints ==
  ASSUME Masked, BarrierInv, Interruptible(0)
  PROVE pc[0] \in {"app", "check", "setWait", "wait"} /\ ~Serving /\ \A h \in Host \ {0} : ~Owed(h)
BY DEF Masked, BarrierInv, Manager0, Interruptible, RacePoints, Serving, Owed

(* The timestamp of a host is stored. *)
LEMMA HandleEnterInfoStep ==
  ASSUME Masked, BarrierInv, TypeOK', NEW f \in Host, HandleEnterInfo(f)
  PROVE BarrierInv'
<1>1. TypeOK /\ f \in Host \ {0} /\ Phase(f) /\ net[f][0] # << >>
  BY Channels DEF BarrierInv, HandleEnterInfo, Arrived
<1>2. \A a, b \in Host : net'[a][b] = IF a = f /\ b = 0 THEN Tail(net[f][0]) ELSE net[a][b]
  BY <1>1, TakenBy, Basics DEF HandleEnterInfo
<1>3. \A g \in Host \ {f} : Same(g)
  BY <1>1, <1>2, Basics DEF Same, TypeOK, HandleEnterInfo
<1>4. ~Serving
  BY HandlerPoints DEF HandleEnterInfo, Arrived
<1>5. /\ Entering(f) /\ Known(f, 0, Unset)
      /\ \/ At(f, "enter", 0, 1, <<ENTERINFO(f)>>, << >>)
         \/ At(f, "wait", 1, 1, <<ENTERINFO(f), ENTER>>, << >>)
  BY <1>1, Messages, ShortSeqs DEF Phase, Outside, Entering, Leaving, At, HandleEnterInfo, Arrived
<1>6. Head(net[f][0]) = ENTERINFO(f) /\ Tail(net[f][0]) = IF pc[f] = "enter" THEN << >> ELSE <<ENTER>>
  <2>1. ENTERINFO(f) \in Message /\ ENTER \in Message
    BY <1>1, Messages
  <2>2. CASE At(f, "enter", 0, 1, <<ENTERINFO(f)>>, << >>)
    BY <2>1, <2>2, ShortSeqs DEF At
  <2>3. CASE At(f, "wait", 1, 1, <<ENTERINFO(f), ENTER>>, << >>)
    BY <2>1, <2>3, ShortSeqs DEF At
  <2> QED BY <1>5, <2>2, <2>3
<1>7. barrierTimestamps'[f] = timestamp[f]
  <2>1. barrierTimestamps[f] = Unset /\ Unset[0] = -1
    BY <1>5, Basics DEF Known, Unset
  <2> QED BY <1>1, <1>6, <2>1, Messages DEF HandleEnterInfo, TypeOK
<1>8. SameRound => Entering(f)'
  <2> SUFFICES ASSUME SameRound PROVE Entering(f)'
    OBVIOUS
  <2>1. OnBase(f)' /\ ~Owed(f)' /\ ~Serving' /\ ENTER' = ENTER
    BY <1>1, <1>4, <1>5 DEF Entering, OnBase, SameRound, ENTER, HandleEnterInfo
  <2>2. Known(f, 0, timestamp[f])'
    BY <1>4, <1>5, <1>7, <2>1 DEF Known, HandleEnterInfo
  <2>3. net'[f][0] = (IF pc[f] = "enter" THEN << >> ELSE <<ENTER>>) /\ net'[0][f] = net[0][f]
    BY <1>1, <1>2, <1>6, Basics
  <2>4. CASE At(f, "enter", 0, 1, <<ENTERINFO(f)>>, << >>)
    <3>1. At(f, "enter", 0, 1, << >>, << >>)'
      BY <2>3, <2>4 DEF At, SameRound, HandleEnterInfo
    <3> QED BY <2>1, <2>2, <3>1 DEF Entering
  <2>5. CASE At(f, "wait", 1, 1, <<ENTERINFO(f), ENTER>>, << >>)
    <3>1. At(f, "wait", 1, 1, <<ENTER>>, << >>)'
      BY <2>1, <2>3, <2>5 DEF At, SameRound, HandleEnterInfo
    <3> QED BY <2>1, <2>2, <3>1 DEF Entering
  <2> QED BY <1>5, <2>4, <2>5
<1>9. nextExit' = nextExit /\ barrierFlags' = barrierFlags
  BY DEF HandleEnterInfo
<1> QED BY <1>1, <1>3, <1>8, <1>9, OnlyOne DEF Phase

(* handleEnterBarrierMsg, when another flag is still missing. *)
LEMMA HandleEnterNotLast ==
  ASSUME Masked, BarrierInv, TypeOK', NEW f \in Host, HandleEnter(f),
         ~AllEntered([barrierFlags EXCEPT ![f] = 1])
  PROVE BarrierInv'
<1>1. TypeOK /\ f \in Host \ {0} /\ Phase(f) /\ net[f][0] # << >>
  BY Channels DEF BarrierInv, HandleEnter, Arrived
<1>2. /\ barrierFlags' = [barrierFlags EXCEPT ![f] = 1] /\ net' = Taken(net, f, 0)
      /\ UNCHANGED <<barrierTimestamps, timestamp, waitFlag, pc, nextExit, entered, opened>>
  BY DEF HandleEnter
<1>3. \A a, b \in Host : net'[a][b] = IF a = f /\ b = 0 THEN Tail(net[f][0]) ELSE net[a][b]
  BY <1>1, <1>2, TakenBy, Basics
<1>4. \A g \in Host \ {f} : Same(g)
  BY <1>1, <1>2, <1>3, Basics DEF Same, TypeOK
<1>5. ~Serving
  BY HandlerPoints DEF HandleEnter, Arrived
<1>6. Entering(f) /\ At(f, "wait", 1, 1, <<ENTER>>, << >>) /\ Known(f, 0, timestamp[f])
  BY <1>1, Messages, ShortSeqs DEF Phase, Outside, Entering, Leaving, At, HandleEnter, Arrived
<1>7. SameRound => Entering(f)'
  <2> SUFFICES ASSUME SameRound PROVE Entering(f)'
    OBVIOUS
  <2>1. OnBase(f)' /\ ~Owed(f)' /\ ~Serving'
    BY <1>1, <1>2, <1>5, <1>6 DEF Entering, OnBase, SameRound
  <2>2. Known(f, 1, timestamp[f])'
    BY <1>1, <1>2, <1>5, <1>6 DEF Known, TypeOK
  <2>3. net'[f][0] = << >> /\ net'[0][f] = << >>
    BY <1>1, <1>3, <1>6, Messages, ShortSeqs, Basics DEF At
  <2>4. At(f, "wait", 1, 1, << >>, << >>)'
    BY <1>2, <1>6, <2>3 DEF At, SameRound
  <2> QED BY <2>1, <2>2, <2>4 DEF Entering
<1> QED BY <1>1, <1>2, <1>4, <1>5, <1>7, OnlyOne DEF Phase

(* handleEnterBarrierMsg, when it sets the last flag. *)
LEMMA HandleEnterLast ==
  ASSUME Masked, BarrierInv, TypeOK', NEW f \in Host, HandleEnter(f),
         AllEntered([barrierFlags EXCEPT ![f] = 1])
  PROVE BarrierInv' /\ \A g \in Host : timestamp[0][g] < BarrierStamp[g]
<1>1. TypeOK /\ Manager0 /\ f \in Host \ {0} /\ net[f][0] # << >>
  BY Channels DEF BarrierInv, HandleEnter, Arrived
<1>2. /\ timestamp' = [timestamp EXCEPT ![0] = BarrierStamp]
      /\ net' = SendExits(ReturnInfo(Taken(net, f, 0)))
      /\ barrierTimestamps' = NoStamps
      /\ barrierFlags' = [h \in Host |-> 0]
      /\ waitFlag' = [waitFlag EXCEPT ![0] = 0]
      /\ UNCHANGED <<pc, nextExit, entered, opened>>
  BY DEF HandleEnter, ClearedStamps
<1>3. pc[0] \in {"app", "check", "setWait", "wait"} /\ ~Serving
  BY HandlerPoints DEF HandleEnter, Arrived
<1>4. \A h \in Host \ {f} : barrierFlags[h] = 1
  BY <1>1 DEF AllEntered, TypeOK
<1>5. pc[0] \in {"check", "setWait", "wait"} /\ barrierFlags[0] = 1
  BY <1>1, <1>3, <1>4, Basics DEF Manager0
<1>6. /\ ~Completed /\ Round = entered[0] - 1 /\ entered[0] \in Int
      /\ barrierTimestamps[0] = timestamp[0]
  BY <1>3, <1>5, AllIn
<1>7. ASSUME NEW h \in Host \ {0}
      PROVE /\ OnBase(h) /\ barrierTimestamps[h] = timestamp[h]
            /\ At(h, "wait", 1, 1, IF h = f THEN <<ENTER>> ELSE << >>, << >>)
  <2>1. Phase(h)
    BY DEF BarrierInv
  <2>2. CASE h = f
    BY <1>1, <1>3, <2>1, <2>2, Messages, ShortSeqs
    DEF Phase, Outside, Entering, Leaving, At, Known, HandleEnter, Arrived
  <2>3. CASE h # f
    <3>1. barrierFlags[h] # 0
      BY <1>4, <2>3
    <3> QED BY <1>3, <2>1, <2>3, <3>1 DEF Phase, Outside, Entering, Leaving, Known
  <2> QED BY <2>2, <2>3
<1>8. ASSUME NEW h \in Host PROVE \A g \in Host : timestamp[h][g] < BarrierStamp[g]
  BY <1>3, <1>5, <1>6, <1>7, StampAfter, Basics
<1>9. Completed' /\ ~Serving' /\ \A h \in Host \ {0} : ~Owed(h)'
  BY <1>2, <1>5, Basics DEF Completed, Serving, Owed
<1>10. Completes
  <2>1. Round' = entered[0] /\ timestamp'[0] = BarrierStamp
    BY <1>1, <1>2, <1>9, Basics DEF Round, TypeOK
  <2>2. Base' = [g \in Host |-> BarrierStamp[g]]
    BY <1>9, <2>1 DEF Base
  <2> QED BY <1>2, <1>6, <2>1, <2>2 DEF BarrierStamp, Completes
<1>11. ASSUME NEW h \in Host \ {0}
       PROVE net'[h][0] = << >> /\ net'[0][h] = <<Msg("GRANT_EXIT_BARRIER_INFO", BarrierStamp), EXIT>>
  <2> DEFINE info == Msg("GRANT_EXIT_BARRIER_INFO", BarrierStamp)
             n1 == Taken(net, f, 0)
             n2 == ReturnInfo(n1)
  <2>1. info \in Message /\ EXIT \in Message /\ ENTER \in Message
    BY <1>1, StampType, MsgType, Messages
  <2>2. n1 \in Net /\ \A a, b \in Host : n1[a][b] = IF a = f /\ b = 0 THEN Tail(net[f][0]) ELSE net[a][b]
    BY <1>1, NetType, TakenNet, Basics
  <2>3. n2 \in Net /\ \A a, b \in Host : n2[a][b] = IF a = 0 /\ b # 0 THEN Append(n1[a][b], info) ELSE n1[a][b]
    BY <1>1, <2>2, ToAll
  <2>4. \A a, b \in Host : SendExits(n2)[a][b] = IF a = 0 /\ b # 0 THEN Append(n2[a][b], EXIT) ELSE n2[a][b]
    BY <1>1, <2>3, ToAll DEF EXIT
  <2>5. net' = SendExits(n2)
    BY <1>2
  <2> HIDE DEF info, n1, n2
  <2>6. net[0][h] = << >> /\ net[h][0] = IF h = f THEN <<ENTER>> ELSE << >>
    BY <1>7 DEF At
  <2>7. Tail(<<ENTER>>) = << >> /\ Append(<< >>, info) = <<info>> /\ Append(<<info>>, EXIT) = <<info, EXIT>>
    BY <2>1, ShortSeqs
  <2>8. n1[h][0] = << >> /\ n1[0][h] = << >>
    BY <1>1, <2>2, <2>6, <2>7, Basics
  <2>9. n2[h][0] = << >> /\ n2[0][h] = <<info>>
    BY <2>3, <2>7, <2>8, Basics
  <2>10. net'[h][0] = << >> /\ net'[0][h] = <<info, EXIT>>
    BY <2>4, <2>5, <2>7, <2>9, Basics
  <2> QED BY <2>10 DEF info
<1>12. ASSUME NEW h \in Host \ {0} PROVE Phase(h)'
  <2>1. pc'[h] = "wait" /\ waitFlag'[h] = 1 /\ entered[h] = Round + 1 /\ barrierFlags'[h] = 0
    BY <1>1, <1>2, <1>7 DEF At, TypeOK
  <2> QED BY <1>1, <1>8, <1>9, <1>10, <1>11, <2>1, Released
<1>13. Manager0'
  <2>1. net'[0][0] = << >>
    <3>1. Taken(net, f, 0) \in Net /\ Taken(net, f, 0)[0][0] = net[0][0]
      BY <1>1, NetType, TakenNet, Basics
    <3>2. ReturnInfo(Taken(net, f, 0)) \in Net /\ ReturnInfo(Taken(net, f, 0))[0][0] = net[0][0]
      BY <1>1, <3>1, ToAll, Basics
    <3>3. SendExits(ReturnInfo(Taken(net, f, 0)))[0][0] = net[0][0]
      BY <1>1, <3>2, ToAll, Basics
    <3> QED BY <1>1, <1>2, <3>3 DEF Manager0
  <2>2. barrierTimestamps'[0] = Unset /\ barrierFlags'[0] = 0 /\ pc' = pc /\ entered' = entered
    BY <1>2, Basics DEF NoStamps
  <2> QED BY <1>1, <1>5, <1>9, <2>1, <2>2 DEF Manager0
<1> QED BY <1>8, <1>12, <1>13, Basics DEF BarrierInv

-----------------------------------------------------------------------------
(* The theorems *)

(* initsyn establishes the invariant. *)
LEMMA BarrierInit == Init => BarrierInv
<1> SUFFICES ASSUME Init PROVE BarrierInv
  OBVIOUS
<1>1. TypeOK
  BY TypeInit DEF TypeInv
<1>2. ~Completed /\ ~Serving /\ Round = 0
  BY Basics DEF Init, Completed, Serving, Round
<1>3. Manager0
  BY Basics DEF Init, Manager0, Serving, NoStamps
<1>4. ASSUME NEW h \in Host \ {0} PROVE Phase(h)
  <2>1. Base = [g \in Host |-> 0]
    BY <1>2, Basics DEF Init, Base
  <2>2. OnBase(h)
    BY <2>1 DEF Init, OnBase
  <2>3. At(h, "app", 0, 0, << >>, << >>) /\ Known(h, 0, Unset) /\ ~Owed(h)
    BY <1>2, Basics DEF Init, At, Known, Owed, NoStamps
  <2> QED BY <2>2, <2>3 DEF Phase, Outside
<1> QED BY <1>1, <1>3, <1>4 DEF BarrierInv

(* Every step keeps the invariant. *)
LEMMA BarrierStep == ASSUME Masked PROVE BarrierInv /\ [Next]_vars => BarrierInv'
<1> SUFFICES ASSUME BarrierInv, [Next]_vars PROVE BarrierInv'
  OBVIOUS
<1>1. TypeOK'
  BY TypeStep DEF BarrierInv, Manager0, TypeInv
<1>2. ASSUME NEW h \in Host, Enter(h) \/ Main(h) \/ addNewInterval(h) PROVE BarrierInv'
  <2>1. CASE Enter(h)
    BY <1>1, <2>1, EnterInfoStep, EnterFlagStep DEF Enter
  <2>2. CASE EnterSend(h)
    BY <1>1, <2>2, EnterSendStep
  <2>3. CASE Leave(h)
    BY <1>1, <2>3, LeaveStep, Leave0Step
  <2>4. CASE Main0
    BY <1>1, <2>4, WaitStep, CheckAllStep, SendExitStep, ResetStep DEF Main0
  <2>5. CASE addNewInterval(h)
    BY <1>1, <2>5, IntervalStep, Interval0Step
  <2> QED BY <1>2, <2>1, <2>2, <2>3, <2>4, <2>5 DEF Main
<1>3. ASSUME NEW f \in Host, NEW h \in Host, Dispatch(f, h) PROVE BarrierInv'
  BY <1>1, <1>3, HandleEnterInfoStep, HandleEnterNotLast, HandleEnterLast, ExitInfoStep, ExitStep DEF Dispatch
<1>4. CASE UNCHANGED vars
  <2>1. \A g \in Host : Same(g)
    BY <1>4 DEF vars, Same
  <2>2. SameRound
    BY <1>4, <2>1, Basics, Steady DEF vars
  <2>3. Manager0'
    BY <1>4 DEF BarrierInv, Manager0, vars, Serving
  <2> QED BY <1>1, <2>1, <2>2, <2>3, OnlyZero
<1> QED BY <1>2, <1>3, <1>4 DEF Next

(* The invariant holds throughout. *)
LEMMA BarrierInvariant == ASSUME Masked PROVE Spec => []BarrierInv
<1>1. BarrierInv /\ [Next]_vars => BarrierInv'
  BY BarrierStep
<1> QED BY <1>1, BarrierInit, PTL DEF Spec

(* All hosts leave a barrier in one and the same interval, for any number   *)
(* of hosts, wherever host 0's handler cannot meet its flags and timestamps *)
(* half updated: returnAllBarrierInfo sends everybody the timestamp that    *)
(* host 0 opens itself.                                                     *)
THEOREM Agreement == ASSUME Masked PROVE Spec => []BarrierAgreement
<1>1. BarrierInv => BarrierAgreement
  <2> SUFFICES ASSUME BarrierInv, NEW h \in Host, pc[h] = "app", opened[h] = 0
               PROVE timestamp[h] = Base
    BY DEF BarrierAgreement
  <2>1. TypeOK /\ Base \in [Host -> Int]
    BY Messages DEF BarrierInv, Stamp
  <2>2. CASE h = 0
    <3>1. timestamp[0] \in [Host -> Int]
      BY <2>1, Basics DEF TypeOK, Stamp
    <3> QED BY <2>2, <3>1 DEF Base
  <2>3. CASE h # 0
    <3>1. timestamp[h] = [Base EXCEPT ![h] = Base[h] + opened[h]]
      BY <2>3 DEF BarrierInv, Phase, Outside, Entering, Leaving, At, OnBase
    <3> QED BY <2>1, <3>1
  <2> QED BY <2>2, <2>3
<1> QED BY <1>1, BarrierInvariant, PTL

(* A step either leaves host h's timestamp or makes it a later one. *)
Advances(h) == timestamp'[h] = timestamp[h] \/ isAfterInterval(timestamp'[h], timestamp[h])

(* Component by component smaller, and smaller in one: an earlier interval. *)
LEMMA LaterStamp ==
  ASSUME NEW t1 \in [Host -> Int], NEW t2 \in [Host -> Int], NEW h \in Host,
         \A g \in Host : t2[g] =< t1[g], t2[h] < t1[h]
  PROVE isAfterInterval(t1, t2)
BY DEF isAfterInterval

(* No component of a host's timestamp ever goes back: the interval that     *)
(* returnAllBarrierInfo opens comes after every interval opened before it,  *)
(* at each host, for any number of hosts.                                   *)
THEOREM Advance == ASSUME Masked PROVE Spec => TimestampsAdvance
<1>1. BarrierInv /\ TypeOK' /\ [Next]_vars => [\A h \in Host : Advances(h)]_vars
  <2> SUFFICES ASSUME BarrierInv, TypeOK', Next, NEW h \in Host PROVE Advances(h)
    BY DEF vars
  <2>1. timestamp \in [Host -> [Host -> Int]] /\ timestamp' \in [Host -> [Host -> Int]] /\ TypeOK
    BY DEF BarrierInv, TypeOK, Stamp
  <2>2. ASSUME NEW g \in Host, addNewInterval(g) PROVE Advances(h)
    <3>1. CASE h = g
      <4>1. timestamp'[h] = [timestamp[h] EXCEPT ![h] = timestamp[h][h] + 1]
        BY <2>1, <2>2, <3>1 DEF addNewInterval
      <4>2. (\A i \in Host : timestamp[h][i] =< timestamp'[h][i]) /\ timestamp[h][h] < timestamp'[h][h]
        BY <2>1, <4>1
      <4> QED BY <2>1, <4>2, LaterStamp DEF Advances
    <3>2. CASE h # g
      BY <2>1, <2>2, <3>2 DEF addNewInterval, Advances
    <3> QED BY <3>1, <3>2
  <2>3. ASSUME \A g \in Host : timestamp[0][g] < BarrierStamp[g],
               timestamp' = [timestamp EXCEPT ![0] = BarrierStamp]
        PROVE Advances(h)
    <3>1. CASE h = 0
      <4>1. timestamp'[0] = BarrierStamp
        BY <2>1, <2>3, Basics
      <4>2. \A i \in Host : timestamp[0][i] =< timestamp'[0][i] /\ timestamp[0][i] < timestamp'[0][i]
        BY <2>1, <2>3, <4>1, Basics
      <4> QED BY <2>1, <3>1, <4>2, LaterStamp, Basics DEF Advances
    <3>2. CASE h # 0
      BY <2>1, <2>3, <3>2 DEF Advances
    <3> QED BY <3>1, <3>2
  <2>4. CASE CheckAll
    BY <2>3, <2>4, CheckAllStep DEF CheckAll
  <2>5. ASSUME NEW f \in Host, HandleEnter(f) PROVE Advances(h)
    <3>1. CASE AllEntered([barrierFlags EXCEPT ![f] = 1])
      BY <2>3, <2>5, <3>1, HandleEnterLast DEF HandleEnter
    <3>2. CASE ~AllEntered([barrierFlags EXCEPT ![f] = 1])
      BY <2>5, <3>2 DEF HandleEnter, Advances
    <3> QED BY <3>1, <3>2
  <2>6. ASSUME NEW g \in Host, HandleExitInfo(g) PROVE Advances(h)
    <3>1. Behind(g) /\ timestamp' = [timestamp EXCEPT ![g] = Base]
      BY <2>6, ExitInfoStep
    <3>2. CASE h = g
      <4>1. timestamp'[h] = Base
        BY <2>1, <3>1, <3>2
      <4> QED BY <2>1, <3>1, <3>2, <4>1, LaterStamp DEF Advances, Behind
    <3>3. CASE h # g
      BY <2>1, <3>1, <3>3 DEF Advances
    <3> QED BY <3>2, <3>3
  <2>7. CASE UNCHANGED timestamp
    BY <2>7 DEF Advances
  <2> QED
    BY <2>2, <2>4, <2>5, <2>6, <2>7
    DEF Next, Enter, Main, Main0, Dispatch, EnterInfo, EnterFlag, EnterSend, Leave, EnterStamp,
        CheckNotAll, SetWait, SendExit, ResetFlags, HandleEnterInfo, HandleExit
<1>2. BarrierInv => TypeOK
  BY DEF BarrierInv
<1> QED BY <1>1, <1>2, BarrierInvariant, PTL DEF Spec, TimestampsAdvance, Advances

(* What the refinement mapping gives BarrierService for its variable left. *)
Lefts == [h \in Host |-> Left(h)]

(* A call of mi_barrier is an Enter of BarrierService. *)
LEMMA EnterImplements ==
  ASSUME TypeOK, NEW h \in Host, pc[h] = "app",
         entered' = [entered EXCEPT ![h] = @ + 1],
         \E p \in Points \ {"app"} : pc' = [pc EXCEPT ![h] = p]
  PROVE BS!Enter(h)
<1>1. entered \in [Host -> Int] /\ entered[h] = Left(h)
  BY BoundAssumption DEF TypeOK, Left
<1>2. ASSUME NEW g \in Host PROVE Left(g)' = Left(g)
  <2>1. CASE g = h
    <3>1. entered'[g] = entered[g] + 1 /\ pc'[g] # "app"
      BY <1>1, <2>1 DEF TypeOK
    <3> QED BY <1>1, <2>1, <3>1 DEF Left
  <2>2. CASE g # h
    BY <2>2 DEF TypeOK, Left
  <2> QED BY <2>1, <2>2
<1>3. Lefts' = Lefts
  BY <1>2 DEF Lefts
<1> QED BY <1>1, <1>3 DEF BS!Enter, Lefts

(* A return from mi_barrier is a Leave of BarrierService: everybody has     *)
(* entered the barrier that is left.                                        *)
LEMMA LeaveImplements ==
  ASSUME BarrierInv, NEW h \in Host, pc[h] # "app", entered[h] = Round,
         pc' = [pc EXCEPT ![h] = "app"], entered' = entered
  PROVE BS!Leave(h)
<1>1. TypeOK /\ entered \in [Host -> Int] /\ Left(h) = entered[h] - 1
  BY BoundAssumption DEF BarrierInv, TypeOK, Left
<1>2. ASSUME NEW g \in Host PROVE entered[g] >= Round
  <2>1. CASE g = 0
    BY <1>1, <2>1, Basics DEF Round
  <2>2. CASE g # 0
    <3>1. Round \in Int
      BY <1>1, Messages
    <3> QED BY <2>2, <3>1 DEF BarrierInv, Phase, Outside, Entering, Leaving, At
  <2> QED BY <2>1, <2>2
<1>3. Lefts' = [Lefts EXCEPT ![h] = Lefts[h] + 1]
  <2>1. ASSUME NEW g \in Host PROVE Left(g)' = IF g = h THEN Left(g) + 1 ELSE Left(g)
    <3>1. CASE g = h
      BY <1>1, <3>1 DEF TypeOK, Left
    <3>2. CASE g # h
      BY <3>2, <1>1 DEF TypeOK, Left
    <3> QED BY <3>1, <3>2
  <2> QED BY <2>1 DEF Lefts
<1> QED BY <1>1, <1>2, <1>3 DEF BS!Leave, Lefts

(* A step that neither calls nor returns from mi_barrier is not seen. *)
LEMMA Unseen ==
  ASSUME TypeOK, entered' = entered, \A h \in Host : (pc'[h] = "app") <=> (pc[h] = "app")
  PROVE UNCHANGED <<entered, Lefts>>
BY DEF Lefts, Left

(* checkBarrierFlags lets nobody leave a barrier that somebody has not      *)
(* entered: MiBarrier implements BarrierService, for any number of hosts.   *)
THEOREM Implements == ASSUME Masked PROVE Spec => ImplementsBarrierService
<1>1. Init => BS!Init
  BY DEF Init, BS!Init, Left
<1>2. BarrierInv /\ [Next]_vars => [BS!Next]_<<entered, Lefts>>
  <2> SUFFICES ASSUME BarrierInv, [Next]_vars PROVE BS!Next \/ UNCHANGED <<entered, Lefts>>
    OBVIOUS
  <2>1. TypeOK /\ Manager0
    BY DEF BarrierInv
  <2>2. ASSUME NEW h \in Host, Enter(h) PROVE BS!Next
    <3>1. BS!Enter(h)
      BY <2>1, <2>2, EnterImplements DEF Enter, EnterInfo, EnterFlag, Points, RacePoints
    <3> QED BY <3>1 DEF BS!Next
  <2>3. ASSUME NEW h \in Host, Leave(h) PROVE BS!Next
    <3>1. entered[h] = Round
      <4>1. CASE h = 0
        BY <2>1, <2>3, <4>1 DEF Leave, Manager0, TypeOK, Completed, Round
      <4>2. CASE h # 0
        <5>1. At(h, "wait", 0, 0, << >>, << >>)
          BY <2>3, <4>2 DEF BarrierInv, Phase, Outside, Entering, Leaving, At, Leave
        <5> QED BY <2>1, <5>1, Messages DEF At
      <4> QED BY <4>1, <4>2
    <3>2. BS!Leave(h)
      BY <2>3, <3>1, LeaveImplements DEF Leave
    <3> QED BY <3>2 DEF BS!Next
  <2>4. CASE ResetFlags
    <3>1. entered[0] = Round /\ pc[0] # "app"
      BY <2>4 DEF ResetFlags, Round, Completed
    <3>2. BS!Leave(0)
      BY <2>4, <3>1, LeaveImplements, Basics DEF ResetFlags
    <3> QED BY <3>2, Basics DEF BS!Next
  <2>5. ASSUME NEW h \in Host, EnterSend(h) PROVE UNCHANGED <<entered, Lefts>>
    BY <2>1, <2>5, Unseen DEF EnterSend, TypeOK
  <2>6. CASE EnterStamp \/ CheckNotAll \/ SetWait \/ CheckAll \/ SendExit
    BY <2>1, <2>6, Unseen, Basics DEF EnterStamp, CheckNotAll, SetWait, CheckAll, SendExit, TypeOK
  <2>7. ASSUME NEW h \in Host, addNewInterval(h) PROVE UNCHANGED <<entered, Lefts>>
    BY <2>1, <2>7, Unseen DEF addNewInterval
  <2>8. ASSUME NEW f \in Host, NEW h \in Host, Dispatch(f, h) PROVE UNCHANGED <<entered, Lefts>>
    BY <2>1, <2>8, Unseen DEF Dispatch, HandleEnterInfo, HandleEnter, HandleExitInfo, HandleExit
  <2>9. CASE UNCHANGED vars
    BY <2>1, <2>9, Unseen DEF vars
  <2> QED BY <2>2, <2>3, <2>4, <2>5, <2>6, <2>7, <2>8, <2>9 DEF Next, Main, Main0
<1> QED BY <1>1, <1>2, BarrierInvariant, PTL DEF Spec, ImplementsBarrierService, BS!Spec, Lefts

(* "if all hosts enter barrier, send msg to them which tells them exit      *)
(* barrier": with the mask, an EXIT_BARRIER on its way finds every host in  *)
(* that barrier.  Without it the run BarrierEarlyExit shows the opposite.   *)
THEOREM ExitsAfterAll == ASSUME Masked PROVE Spec => []ExitMeansAllEntered
<1>1. BarrierInv => ExitMeansAllEntered
  <2> SUFFICES ASSUME BarrierInv, NEW h \in Host, NEW g \in Host, net[0][h] # << >>
               PROVE entered[g] >= entered[h]
    BY DEF ExitMeansAllEntered
  <2>1. TypeOK /\ Round \in Int /\ entered \in [Host -> Int]
    BY SMTT(30), Messages, BoundAssumption DEF BarrierInv, TypeOK
  <2>2. h # 0
    BY DEF BarrierInv, Manager0
  <2>3. entered[h] = Round
    BY <2>1, <2>2 DEF BarrierInv, Phase, Outside, Entering, Leaving, At
  <2>4. CASE g = 0
    BY <2>1, <2>3, <2>4, Basics DEF Round
  <2>5. CASE g # 0
    BY <2>1, <2>3, <2>5 DEF BarrierInv, Phase, Outside, Entering, Leaving, At
  <2> QED BY <2>4, <2>5
<1> QED BY <1>1, BarrierInvariant, PTL
=============================================================================
