------------------------------ MODULE MCMiPack ------------------------------
(***************************************************************************)
(* Start-up, allocation and one transfer of write notices, for TLC.  A     *)
(* page is 4 bytes, the shared memory 6 pages, an int has 8 bits; the      *)
(* sizes of packets and messages are the ones of the code.                 *)
(***************************************************************************)
EXTENDS MiPack

(* Host files: one host, two, three; a line with a comment, one with a word *)
(* that fits no buffer, one with an address only, and an empty line.        *)
MCFiles ==
  { <<<<"a0", "u0">>>>,
    <<<<"a0", "u0">>, <<"a1", "u1", "long">>>>,
    <<<<"a0", "u0">>, <<"a1", "u1">>, <<"a2", "u2", "c", "d">>>>,
    <<<<"a0", "u0">>, <<"long", "u1">>, <<"a2">>>>,
    <<<<"a0", "u0">>, << >>>> }

(* Sizes of one byte, of a page and around it, sizes that fill the memory   *)
(* or go past it, and the largest int.                                      *)
MCCalls == [1 .. 2 -> {-1, 1, 4, 5, 23, 24, 127}] \cup {<<4, 9, 4, 8>>, <<20, 5, 1, 1>>}

(* Exits have at most MAX_WN_NUM notices in an interval, and a grant at     *)
(* most as many packets as a message has room for; entries have any number. *)
MCTransfers ==
  LET Same(count) == {[i \in 1 .. n |-> count] : n \in {0, 1, 8, 9, 10, 18, 19}}
      short == Same(1) \cup Same(1024) \cup {<<0, 3, 0>>, <<2, 0, 1024, 0, 0, 7>>}
      long == Same(1025) \cup Same(2049) \cup {<<1025, 0, 2048, 5>>, <<9216>>, <<9217>>, <<18433, 1>>}
      few == {c \in short : Len(c) <= 9} \cup {<<1025, 0, 2048, 5>>, <<9216>>}
  IN [kind : {"enter"}, counts : short \cup long] \cup [kind : {"exit"}, counts : short]
       \cup [kind : {"wni"}, counts : few]

-----------------------------------------------------------------------------
(* All that were started are up and have made their calls. *)
Ready == \A n \in Node : stage[n] # "off" => stage[n] = "up" /\ Len(regions[n]) = Len(calls)

(* SystemNext, with the transfer last: a bound on the interleavings, since  *)
(* starting up and packing share nothing but the table of hosts.            *)
MCNext == \/ Next /\ UNCHANGED packVars
          \/ Ready /\ PackNext /\ UNCHANGED vars

MCSpec == SystemInit /\ [][MCNext]_<<vars, packVars>>
=============================================================================
