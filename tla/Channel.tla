------------------------------- MODULE Channel -------------------------------
(***************************************************************************)
(* What the hosts may expect of the message layer.  The messages of each   *)
(* host to each other host are numbered as they are sent, and handled in   *)
(* that order.  With MayRepeat the latest one may be handled again.  Until *)
(* the sender has given up on one, none is left out; from then on messages *)
(* may be left out, and the order still holds.                             *)
(***************************************************************************)
EXTENDS Naturals, Sequences

CONSTANTS Host, MayRepeat

VARIABLES
  sent,    \* sent[f][t]: how many messages f has sent to t
  handled, \* handled[f][t]: the numbers of those t has handled, in order
  givenUp  \* givenUp[f][t]: f has given up on a message to t

chVars == <<sent, handled, givenUp>>

LatestHandled(f, t) == IF handled[f][t] = << >> THEN 0 ELSE handled[f][t][Len(handled[f][t])]

Init == /\ sent = [f \in Host |-> [t \in Host |-> 0]]
        /\ handled = [f \in Host |-> [t \in Host |-> << >>]]
        /\ givenUp = [f \in Host |-> [t \in Host |-> FALSE]]

Send(f, t) == /\ sent' = [sent EXCEPT ![f][t] = @ + 1]
              /\ UNCHANGED <<handled, givenUp>>

GiveUp(f, t) == /\ givenUp' = [givenUp EXCEPT ![f][t] = TRUE]
                /\ UNCHANGED <<sent, handled>>

Handle(f, t) ==
  \E n \in 1 .. sent[f][t] :
    /\ \/ n = LatestHandled(f, t) + 1
       \/ n = LatestHandled(f, t) /\ MayRepeat
       \/ n > LatestHandled(f, t) + 1 /\ givenUp[f][t]
    /\ handled' = [handled EXCEPT ![f][t] = Append(@, n)]
    /\ UNCHANGED <<sent, givenUp>>

Next == \E f, t \in Host : Send(f, t) \/ GiveUp(f, t) \/ Handle(f, t)

Spec == Init /\ [][Next]_chVars
=============================================================================
