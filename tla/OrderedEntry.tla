---------------------------- MODULE OrderedEntry ----------------------------
(***************************************************************************)
(* What the entry queue promises (contact.c): clients wait in the order in *)
(* which they came, nobody waits twice, whoever is let in was the first,   *)
(* and only an operator may move somebody, and only to the front.          *)
(***************************************************************************)
EXTENDS SequencesExt

CONSTANT Clients

VARIABLES
  waiting,    \* those who wait, in order
  entering    \* those who have been let in and have not arrived yet

Init == waiting = <<>> /\ entering = {}

Places == DOMAIN waiting

Join(c)    == /\ c \notin ToSet(waiting)
              /\ waiting' = Append(waiting, c) /\ UNCHANGED entering
GiveUp(i)  == waiting' = RemoveAt(waiting, i) /\ entering' \subseteq entering
Advance(i) == waiting' = <<waiting[i]>> \o RemoveAt(waiting, i) /\ UNCHANGED entering
Leave      == UNCHANGED waiting /\ entering' \subseteq entering

LetIn ==
  /\ waiting # <<>> /\ waiting' = Tail(waiting)
  /\ entering' \subseteq entering \cup {Head(waiting)} /\ Head(waiting) \in entering'

Next ==
  \/ LetIn \/ Leave
  \/ \E c \in Clients : Join(c)
  \/ \E i \in Places : GiveUp(i) \/ Advance(i)

Spec == Init /\ [][Next]_<<waiting, entering>>
=============================================================================
