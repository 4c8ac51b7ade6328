---------------------------- MODULE Connections ----------------------------
(***************************************************************************)
(* The life of a connection (netserver.c): from the socket that waits for  *)
(* a client, over the transfer of the map, to the login and the game, and  *)
(* its end by time-out, by the client or by a packet out of place.         *)
(*                                                                         *)
(* Conn[] is a function from slots to records, and the handlers are        *)
(* operators on one record: what a handler may leave behind is a set of    *)
(* records.  The reliable stream of a connection is a sequence of items    *)
(* that are not acknowledged yet, of which the first "sent" have been sent *)
(* and the first "got" have reached the client; module ReliableStream has  *)
(* its bytes, packets and timers.  Acknowledgements come late, in any      *)
(* order and more than once, or never.                                     *)
(***************************************************************************)
EXTENDS Integers, FiniteSets, SequencesExt

CONSTANTS
  Clients,         \* who may connect
  NickOf,          \* the nick of a client, in lower case
  Nobody,
  Slots,           \* indices of Conn[]
  SetupUnits,      \* size of the setup data
  Chunk,           \* what the buffer c takes of it at a time
  ListenLoops, SetupLoops, LoginLoops, ReadyLoops, IdleLoops, \* time-outs * fps
  Extension        \* what a large chunk adds to a time-out

ASSUME ConnectionAssumption ==
  /\ Nobody \notin Clients
  /\ Slots \subseteq Nat
  /\ SetupUnits \in Nat \ {0} /\ Chunk \in Nat \ {0}
  /\ {ListenLoops, SetupLoops, LoginLoops, ReadyLoops, IdleLoops, Extension} \subseteq Nat

Free == [state |-> "FREE", drain |-> "FREE", who |-> Nobody, age |-> 0,
         setup |-> 0, buf |-> <<>>, sent |-> 0, got |-> 0]

States == {"FREE", "LISTENING", "DRAIN", "SETUP", "LOGIN", "READY", "PLAYING"}

InGame(c)  == c.state \in {"READY", "PLAYING"}
Logging(c) == c.state \notin {"FREE", "READY", "PLAYING"}

\* How many loops a connection may stay in its state; a drained one keeps the
\* time-out it had (timeout, by Conn_set_state).
Timeout(c) ==
  CASE c.state = "LISTENING" -> ListenLoops
    [] c.state = "SETUP"     -> SetupLoops
    [] c.state = "LOGIN"     -> LoginLoops
    [] c.state = "READY"     -> ReadyLoops
    [] c.state = "DRAIN"     -> IF c.drain = "LOGIN" THEN SetupLoops ELSE ListenLoops
    [] OTHER                 -> IdleLoops

\* The dispatch tables: the packets that are handled in a state; others are
\* discarded, or end the connection.
Handled(state) ==
  CASE state = "LISTENING"           -> {"verify"}
    [] state \in {"DRAIN", "SETUP"}   -> {"ack", "quit"}
    [] state = "LOGIN"               -> {"ack", "quit", "play", "settings"}
    [] state \in {"READY", "PLAYING"} -> {"ack", "quit", "play", "settings", "keys"}
    [] OTHER                         -> {}

SetState(c, state, drain) == [c EXCEPT !.state = state, !.drain = drain, !.age = 0]

SameClient(conn, who) == {s \in Slots : conn[s].state # "FREE" /\ conn[s].who = who}

\* Setup_connection: the slot for a client, or none; a client who asks again
\* while its connection still listens is given that one.
Holders(conn, who)  == {s \in Slots : conn[s].state # "FREE" /\ NickOf[conn[s].who] = NickOf[who]}

Again(conn, who)    == {s \in Holders(conn, who) : conn[s].state = "LISTENING" /\ conn[s].who = who}
FreeSlots(conn)     == {s \in Slots : conn[s].state = "FREE"}
SetupSlot(conn, who) ==
  IF Holders(conn, who) # {} THEN Again(conn, who)
  ELSE IF FreeSlots(conn) = {} THEN {} ELSE {Min(FreeSlots(conn))}

Opened(who) == [Free EXCEPT !.state = "LISTENING", !.who = who]

\* Check_connection: the connection that still waits for this client.
Awaited(conn, who) == Again(conn, who) # {}

Write(c, items) == [c EXCEPT !.buf = @ \o items]

\* Send_reliable outside of the game: what is outstanding holds back the rest
\* until it is time to send everything again; some of it reaches the client.
Sent(c)         == {[c EXCEPT !.sent = Len(c.buf), !.got = n] : n \in c.got..Len(c.buf)}
SendReliable(c) == IF c.sent = 0 THEN Sent(c) ELSE {c} \cup Sent(c)

\* Handle_listening, for a client who verifies as the one who was invited.
Verified(c) == {SetState(d, "DRAIN", "SETUP") : d \in Sent(Write(c, <<"confirm">>))}

\* Receive_ack, for the first k of the items that reached the client.  What is
\* left of the stream when the game begins is module ReliableStream's concern.
Acked(c, k) ==
  LET rest == [c EXCEPT !.buf = SubSeq(@, k + 1, Len(@)), !.sent = @ - k, !.got = @ - k]
  IN IF c.state = "DRAIN" /\ rest.sent = 0 THEN SetState(rest, c.drain, c.drain)
     ELSE IF c.state = "READY" /\ (rest.buf = <<>> \/ Head(rest.buf) # "reply")
          THEN SetState([rest EXCEPT !.buf = <<>>, !.sent = 0, !.got = 0], "PLAYING", "PLAYING")
     ELSE IF c.state = "PLAYING" THEN [rest EXCEPT !.age = 0]
     ELSE rest

AfterAck(c) == {Acked(c, k) : k \in 1..c.got}

\* The client has the whole setup and asks to play.
HasSetup(c) == c.setup = SetupUnits /\ \A i \in c.got + 1..Len(c.buf) : c.buf[i] # "setup"

\* Handle_setup: the next chunk, once there is room for it, and the wait for
\* the rest of the acknowledgements.
NextChunk(c) ==
  LET room == Chunk - Len(c.buf)
      n    == Min({room, SetupUnits - c.setup})
      d    == [Write(c, [i \in 1..n |-> "setup"]) EXCEPT !.setup = @ + n, !.age = @ - Extension]
  IN IF room <= 0 THEN c
     ELSE IF d.setup = SetupUnits THEN SetState(d, "DRAIN", "LOGIN") ELSE d

\* ... which looks for acknowledgements first if some are due, and may find
\* that the client has gone.
HandleSetup(c) ==
  IF c.setup = 0 \/ c.buf = <<>>
  THEN {NextChunk(c)}
  ELSE {NextChunk(d) : d \in {c} \cup AfterAck(c)} \cup {Free}

\* Input: one connection in one loop.
TimedOut(c) == c.age > Timeout(c)

InputOn(c) ==
  IF c.state = "FREE" \/ TimedOut(c) THEN {Free}
  ELSE IF c.state \in {"LISTENING", "PLAYING"} THEN {c}
  ELSE UNION {IF d.state \notin {"FREE"} /\ d.buf # <<>> THEN SendReliable(d) ELSE {d} :
              d \in IF c.state = "SETUP" THEN HandleSetup(c) ELSE {c}}

\* main_loops moves on; one loop past the time-out is as good as many.
Older(c) == IF c.state = "FREE" THEN c ELSE [c EXCEPT !.age = Min({@ + 1, Timeout(c) + 1})]
=============================================================================
