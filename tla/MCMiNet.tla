------------------------------- MODULE MCMiNet -------------------------------
(* Small programs for MiNet. *)
EXTENDS MiNet, TLC

Op(command, to) == [command |-> command, to |-> to]

(* net-test-host1.c, net-test-host2.c: three TEST messages one way,  *)
(* one the other.                                                          *)
TestProgram == [h \in Host |-> [i \in 1 .. 3 - 2 * h |-> Op("TEST", 1 - h)]]

(* Host 1 waits for the lock of host 0, which host 2 has; host 0 and host 2 *)
(* ask each other for pages.                                                *)
AskProgram == 0 :> <<Op("FETCH", 2)>> @@ 1 :> <<Op("ACQ", 0)>>
              @@ 2 :> <<Op("RLS", 0), Op("FETCH", 0)>>

(* The same lock, and host 0 asks the waiting host for a page. *)
MutualProgram == 0 :> <<Op("FETCH", 1)>> @@ 1 :> <<Op("ACQ", 0)>> @@ 2 :> <<Op("RLS", 0)>>

(* The programs have ended: while(1) in the tests. *)
Ended == /\ \A h \in Host : pc[h] = [main |-> "app", sigio |-> "idle"] /\ todo[h] = << >>
         /\ UNCHANGED vars

MCNext == Next \/ Ended

MCSpec == Init /\ [][MCNext]_vars

MCFairSpec == MCSpec /\ \A h \in Host : WF_vars(Step(h)) /\ SF_vars(Interrupt(h))
=============================================================================
