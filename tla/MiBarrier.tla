----------------------------- MODULE MiBarrier -----------------------------
(***************************************************************************)
(* The barrier half of syn.c with the timestamps of mem.c that travel with *)
(* it.  Host 0 is the barrier's manager.  Another host sends it its own    *)
(* timestamp (GRANT_ENTER_BARRIER_INFO) and ENTER_BARRIER, and waits for   *)
(* the timestamp that opens the next interval (GRANT_EXIT_BARRIER_INFO)    *)
(* and EXIT_BARRIER.  Host 0's own program stores its flag and timestamp   *)
(* directly.  checkBarrierFlags runs in host 0's program or in its SIGIO   *)
(* handler, whichever finds all flags set.                                 *)
(*                                                                         *)
(* As in MiLock, pc[h] keeps the points of the program's thread where an   *)
(* interruption by the handler can be told apart, and messages arrive once *)
(* and in order from each sender.                                          *)
(***************************************************************************)
EXTENDS MiInterval, Sequences

CONSTANTS
  hostnum,     \* number of hosts
  SigioPoints, \* the points inside host 0's mi_barrier where SIGIO is open
  MaxBarrier,  \* bound: barriers each program runs through
  MaxInterval  \* bound: intervals a host opens between two barriers

Host == 0 .. (hostnum - 1)

(* Points of host 0's program between two accesses to the barrier's state.  *)
(* In syn.c SIGIO is open at all of them: SigioPoints = RacePoints.         *)
RacePoints == {"stamp", "check", "setWait", "exit", "reset"}

Points == RacePoints \cup {"app", "enter", "wait"}

ASSUME HostNumAssumption == hostnum \in Nat \ {0}
ASSUME SigioAssumption == SigioPoints \subseteq RacePoints
ASSUME BoundAssumption == MaxBarrier \in Nat /\ MaxInterval \in Nat

VARIABLES
  barrierFlags,      \* barrierFlags[h] = 1: host 0 knows that h has entered
  barrierTimestamps, \* barrierTimestamps[h]: the timestamp h entered with
  timestamp,         \* timestamp[h]: intervalNow->timestamp at host h
  waitFlag,          \* waitFlag[h]: the flag the program's thread spins on
  pc,                \* the statement the program's thread of h has reached
  nextExit,          \* the i of checkBarrierFlags' second loop, in the program
  entered,           \* entered[h]: calls of mi_barrier by host h
  opened,            \* opened[h]: intervals host h opened since its last barrier
  net                \* net[f][t]: messages from f to t not yet handled

vars == <<barrierFlags, barrierTimestamps, timestamp, waitFlag, pc, nextExit,
          entered, opened, net>>

Unset == [h \in Host |-> -1]

NoStamps == [h \in Host |-> Unset]

Msg(command, ts) == [command |-> command, timestamp |-> ts]

Sent(n, f, t, m) == [n EXCEPT ![f][t] = Append(@, m)]

Taken(n, f, t) == [n EXCEPT ![f][t] = Tail(@)]

-----------------------------------------------------------------------------

Init == /\ barrierFlags = [h \in Host |-> 0]
        /\ barrierTimestamps = NoStamps
        /\ timestamp = [h \in Host |-> [g \in Host |-> 0]]
        /\ waitFlag = [h \in Host |-> 0]
        /\ pc = [h \in Host |-> "app"]
        /\ nextExit = 1
        /\ entered = [h \in Host |-> 0]
        /\ opened = [h \in Host |-> 0]
        /\ net = [f \in Host |-> [t \in Host |-> << >>]]

(* The program synchronises through a lock: addNewInterval. *)
addNewInterval(h) ==
  /\ pc[h] = "app"
  /\ opened[h] < MaxInterval
  /\ opened' = [opened EXCEPT ![h] = @ + 1]
  /\ timestamp' = [timestamp EXCEPT ![h][h] = @ + 1]
  /\ UNCHANGED <<barrierFlags, barrierTimestamps, waitFlag, pc, nextExit, entered, net>>

-----------------------------------------------------------------------------
(* checkBarrierFlags *)

(* Mutant: the last host is not waited for. *)
AllButLastEntered(flags) == \A h \in Host : h + 1 < hostnum => flags[h] = 1

AllEntered(flags) == \A h \in Host : flags[h] = 1

(* The timestamp of the interval the barrier opens: one past each host's    *)
(* own component.                                                           *)
BarrierStamp == [h \in Host |-> barrierTimestamps[h][h] + 1]

(* returnAllBarrierInfo: host 0 opens the interval itself, sends the        *)
(* timestamp to every other host, and the stored ones are cleared.          *)
ReturnInfo(n) ==
  [n EXCEPT ![0] = [t \in Host |-> IF t = 0 THEN n[0][0]
                                   ELSE Append(n[0][t], Msg("GRANT_EXIT_BARRIER_INFO", BarrierStamp))]]

(* Mutant: the timestamps of a barrier are still there at the next one. *)
KeptStamps == barrierTimestamps

ClearedStamps == NoStamps

SendExits(n) ==
  [n EXCEPT ![0] = [t \in Host |-> IF t = 0 THEN n[0][0]
                                   ELSE Append(n[0][t], Msg("EXIT_BARRIER", Unset))]]

-----------------------------------------------------------------------------
(* mi_barrier at a host that does not manage the barrier *)

(* sendEnterBarrierInfo *)
EnterInfo(h) ==
  /\ pc[h] = "app"
  /\ h # 0
  /\ entered[h] < MaxBarrier
  /\ entered' = [entered EXCEPT ![h] = @ + 1]
  /\ net' = Sent(net, h, 0, Msg("GRANT_ENTER_BARRIER_INFO", timestamp[h]))
  /\ pc' = [pc EXCEPT ![h] = "enter"]
  /\ UNCHANGED <<barrierFlags, barrierTimestamps, timestamp, waitFlag, nextExit, opened>>

(* waitFlag is raised, then ENTER_BARRIER is sent. *)
EnterSend(h) ==
  /\ pc[h] = "enter"
  /\ waitFlag' = [waitFlag EXCEPT ![h] = 1]
  /\ net' = Sent(net, h, 0, Msg("ENTER_BARRIER", Unset))
  /\ pc' = [pc EXCEPT ![h] = "wait"]
  /\ UNCHANGED <<barrierFlags, barrierTimestamps, timestamp, nextExit, entered, opened>>

(* while(waitFlag) ends and mi_barrier returns. *)
Leave(h) ==
  /\ pc[h] = "wait"
  /\ waitFlag[h] = 0
  /\ pc' = [pc EXCEPT ![h] = "app"]
  /\ opened' = [opened EXCEPT ![h] = 0]
  /\ UNCHANGED <<barrierFlags, barrierTimestamps, timestamp, waitFlag, nextExit, entered, net>>

-----------------------------------------------------------------------------
(* mi_barrier at host 0 *)

EnterFlag ==
  /\ pc[0] = "app"
  /\ entered[0] < MaxBarrier
  /\ entered' = [entered EXCEPT ![0] = @ + 1]
  /\ barrierFlags' = [barrierFlags EXCEPT ![0] = 1]
  /\ pc' = [pc EXCEPT ![0] = "stamp"]
  /\ UNCHANGED <<barrierTimestamps, timestamp, waitFlag, nextExit, opened, net>>

EnterStamp ==
  /\ pc[0] = "stamp"
  /\ barrierTimestamps' = [barrierTimestamps EXCEPT ![0] = timestamp[0]]
  /\ pc' = [pc EXCEPT ![0] = "check"]
  /\ UNCHANGED <<barrierFlags, timestamp, waitFlag, nextExit, entered, opened, net>>

(* checkBarrierFlags in the program finds a flag that is not set. *)
CheckNotAll ==
  /\ pc[0] = "check"
  /\ ~AllEntered(barrierFlags)
  /\ pc' = [pc EXCEPT ![0] = "setWait"]
  /\ UNCHANGED <<barrierFlags, barrierTimestamps, timestamp, waitFlag, nextExit, entered, opened, net>>

(* ... and only then is waitFlag raised. *)
SetWait ==
  /\ pc[0] = "setWait"
  /\ waitFlag' = [waitFlag EXCEPT ![0] = 1]
  /\ pc' = [pc EXCEPT ![0] = "wait"]
  /\ UNCHANGED <<barrierFlags, barrierTimestamps, timestamp, nextExit, entered, opened, net>>

(* checkBarrierFlags in the program finds them all set: returnAllBarrierInfo. *)
CheckAll ==
  /\ pc[0] = "check"
  /\ AllEntered(barrierFlags)
  /\ timestamp' = [timestamp EXCEPT ![0] = BarrierStamp]
  /\ net' = ReturnInfo(net)
  /\ barrierTimestamps' = ClearedStamps
  /\ nextExit' = 1
  /\ pc' = [pc EXCEPT ![0] = IF hostnum = 1 THEN "reset" ELSE "exit"]
  /\ UNCHANGED <<barrierFlags, waitFlag, entered, opened>>

(* Mutant: the loop runs once too often. *)
SendExitPastEnd ==
  /\ pc[0] = "exit"
  /\ net' = Sent(net, 0, nextExit, Msg("EXIT_BARRIER", Unset))
  /\ nextExit' = nextExit + 1
  /\ pc' = [pc EXCEPT ![0] = IF nextExit = hostnum THEN "reset" ELSE "exit"]
  /\ UNCHANGED <<barrierFlags, barrierTimestamps, timestamp, waitFlag, entered, opened>>

(* One EXIT_BARRIER after the other. *)
SendExit ==
  /\ pc[0] = "exit"
  /\ net' = Sent(net, 0, nextExit, Msg("EXIT_BARRIER", Unset))
  /\ nextExit' = nextExit + 1
  /\ pc' = [pc EXCEPT ![0] = IF nextExit + 1 = hostnum THEN "reset" ELSE "exit"]
  /\ UNCHANGED <<barrierFlags, barrierTimestamps, timestamp, waitFlag, entered, opened>>

(* The flags are reset after the last EXIT_BARRIER, and mi_barrier returns. *)
ResetFlags ==
  /\ pc[0] = "reset"
  /\ barrierFlags' = [h \in Host |-> 0]
  /\ nextExit' = 1
  /\ pc' = [pc EXCEPT ![0] = "app"]
  /\ opened' = [opened EXCEPT ![0] = 0]
  /\ UNCHANGED <<barrierTimestamps, timestamp, waitFlag, entered, net>>

-----------------------------------------------------------------------------
(* The SIGIO handler of host h, for the next message of host f *)

Interruptible(h) == pc[h] \notin RacePoints \/ pc[h] \in SigioPoints

Arrived(f, h, command) ==
  /\ Interruptible(h)
  /\ net[f][h] # << >>
  /\ Head(net[f][h]).command = command

(* A timestamp is stored only where none is stored yet. *)
HandleEnterInfo(f) ==
  /\ Arrived(f, 0, "GRANT_ENTER_BARRIER_INFO")
  /\ barrierTimestamps' = [barrierTimestamps EXCEPT ![f] =
       IF @[0] = -1 THEN Head(net[f][0]).timestamp ELSE @]
  /\ net' = Taken(net, f, 0)
  /\ UNCHANGED <<barrierFlags, timestamp, waitFlag, pc, nextExit, entered, opened>>

(* handleEnterBarrierMsg: the flag is set; if it was the last one, the      *)
(* handler runs all of checkBarrierFlags and lowers host 0's waitFlag.      *)
HandleEnter(f) ==
  /\ Arrived(f, 0, "ENTER_BARRIER")
  /\ LET flags == [barrierFlags EXCEPT ![f] = 1] IN
       IF AllEntered(flags)
       THEN /\ timestamp' = [timestamp EXCEPT ![0] = BarrierStamp]
            /\ net' = SendExits(ReturnInfo(Taken(net, f, 0)))
            /\ barrierTimestamps' = ClearedStamps
            /\ barrierFlags' = [h \in Host |-> 0]
            /\ waitFlag' = [waitFlag EXCEPT ![0] = 0]
       ELSE /\ barrierFlags' = flags
            /\ net' = Taken(net, f, 0)
            /\ UNCHANGED <<barrierTimestamps, timestamp, waitFlag>>
  /\ UNCHANGED <<pc, nextExit, entered, opened>>

(* Mutant: the host counts on from its own timestamp. *)
HandleExitInfoOwn(h) ==
  /\ Arrived(0, h, "GRANT_EXIT_BARRIER_INFO")
  /\ timestamp' = [timestamp EXCEPT ![h] = Bumped(@, h)]
  /\ net' = Taken(net, 0, h)
  /\ UNCHANGED <<barrierFlags, barrierTimestamps, waitFlag, pc, nextExit, entered, opened>>

(* handleGrantExitBarrierMsg: the interval of the barrier is opened. *)
HandleExitInfo(h) ==
  /\ Arrived(0, h, "GRANT_EXIT_BARRIER_INFO")
  /\ timestamp' = [timestamp EXCEPT ![h] = Head(net[0][h]).timestamp]
  /\ net' = Taken(net, 0, h)
  /\ UNCHANGED <<barrierFlags, barrierTimestamps, waitFlag, pc, nextExit, entered, opened>>

(* Mutant: the program is not woken. *)
HandleExitNoWake(h) ==
  /\ Arrived(0, h, "EXIT_BARRIER")
  /\ net' = Taken(net, 0, h)
  /\ UNCHANGED <<barrierFlags, barrierTimestamps, timestamp, waitFlag, pc, nextExit, entered, opened>>

HandleExit(h) ==
  /\ Arrived(0, h, "EXIT_BARRIER")
  /\ waitFlag' = [waitFlag EXCEPT ![h] = 0]
  /\ net' = Taken(net, 0, h)
  /\ UNCHANGED <<barrierFlags, barrierTimestamps, timestamp, pc, nextExit, entered, opened>>

-----------------------------------------------------------------------------

Enter(h) == EnterInfo(h) \/ (h = 0 /\ EnterFlag)

Main0 == EnterStamp \/ CheckNotAll \/ SetWait \/ CheckAll \/ SendExit \/ ResetFlags

Main(h) == EnterSend(h) \/ Leave(h) \/ (h = 0 /\ Main0)

Dispatch(f, h) == \/ h = 0 /\ (HandleEnterInfo(f) \/ HandleEnter(f))
                  \/ f = 0 /\ (HandleExitInfo(h) \/ HandleExit(h))

Next == \/ \E h \in Host : Enter(h) \/ Main(h) \/ addNewInterval(h)
        \/ \E f, h \in Host : Dispatch(f, h)

Spec == Init /\ [][Next]_vars

(* Every program goes on to its next barrier, the thread of a host always   *)
(* goes on, and a signal held back is delivered once SIGIO is open: strong  *)
(* fairness for host 0, whose program masks it at some points.              *)
Fairness == /\ \A h \in Host : WF_vars(Main(h)) /\ WF_vars(Enter(h))
            /\ \A h \in Host \ {0} : SF_vars(Dispatch(h, 0)) /\ WF_vars(Dispatch(0, h))

-----------------------------------------------------------------------------
(* Properties *)

Stamp == [Host -> Int]

Message == [command : {"GRANT_ENTER_BARRIER_INFO", "ENTER_BARRIER",
                       "GRANT_EXIT_BARRIER_INFO", "EXIT_BARRIER"},
            timestamp : Stamp]

(* Type invariant: every variable keeps the shape its C declaration gives. *)
TypeOK == /\ barrierFlags \in [Host -> {0, 1}]
          /\ barrierTimestamps \in [Host -> Stamp]
          /\ timestamp \in [Host -> Stamp]
          /\ waitFlag \in [Host -> {0, 1}]
          /\ pc \in [Host -> Points]
          /\ nextExit \in 1 .. hostnum
          /\ entered \in [Host -> 0 .. MaxBarrier]
          /\ opened \in [Host -> 0 .. MaxInterval]
          /\ net \in [Host -> [Host -> Seq(Message)]]

Left(h) == entered[h] - (IF pc[h] = "app" THEN 0 ELSE 1)

BS == INSTANCE BarrierService WITH left <- [h \in Host |-> Left(h)]

(* checkBarrierFlags lets nobody leave a barrier that somebody has not      *)
(* entered, however fast a host comes back to the next one.                 *)
ImplementsBarrierService == BS!Spec

(* No component of a host's timestamp ever goes back: the interval that a   *)
(* barrier opens comes after every interval opened before it.               *)
TimestampsAdvance ==
  [][\A h \in Host : timestamp'[h] = timestamp[h] \/ isAfterInterval(timestamp'[h], timestamp[h])]_vars

(* All hosts leave a barrier in one and the same interval.                  *)
BarrierAgreement ==
  \A h, g \in Host :
    (pc[h] = "app" /\ pc[g] = "app" /\ opened[h] = 0 /\ opened[g] = 0 /\ entered[h] = entered[g])
      => timestamp[h] = timestamp[g]

(* Who enters a barrier leaves it, as long as every program goes on to it.  *)
BarrierReleased == \A h \in Host : pc[h] # "app" ~> pc[h] = "app"

(* "if all hosts enter barrier, send msg to them which tells them exit      *)
(* barrier": an EXIT_BARRIER on its way finds every host in that barrier.   *)
ExitMeansAllEntered ==
  \A h, g \in Host :
    (\E i \in DOMAIN net[0][h] : net[0][h][i].command = "EXIT_BARRIER") => entered[g] >= entered[h]
=============================================================================
