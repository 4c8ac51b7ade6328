----------------------------- MODULE Admission -----------------------------
(***************************************************************************)
(* How clients get into the game: the contact port and the queue of those  *)
(* who want to enter (contact.c), their connections (module Connections),  *)
(* the robots that give up their bases (robot.c) and the part of Main_loop *)
(* (server.c) that drives all three.  Packets are handled between loops; a *)
(* loop is one step for Input and one for Queue_loop and                   *)
(* Robot_add_remove.                                                       *)
(*                                                                         *)
(* Nobody pauses here and a team is found or not, whatever is free: module *)
(* Roster has teams, bases and pausers.  A locked game and an unknown       *)
(* version turn a request down, which changes nothing.                    *)
(***************************************************************************)
EXTENDS Connections

CONSTANTS
  HostOf,          \* the computer of a client
  NumBases,        \* World.NumBases
  MaxRobots,       \* maxRobots
  MaxQueued,       \* MaxQueuedPlayers
  QueueLoops,      \* 30 * fps: how long a silent client stays queued
  CheckLoops,      \* 2
  AckLoops,        \* 2 + (fps >> 2)
  PositionLoops    \* 3 * fps: between two reports of a position

ASSUME AdmissionAssumption ==
  /\ NumBases \in Nat \ {0} /\ MaxRobots \in Nat /\ MaxQueued \in Nat
  /\ {QueueLoops, CheckLoops, AckLoops, PositionLoops} \subseteq Nat
  /\ CheckLoops <= AckLoops

VARIABLES
  conn,      \* Conn[]
  logins,    \* login_in_progress
  players,   \* the clients among Players[]
  robots,    \* NumRobots
  queue,     \* qp_list
  since,     \* loops since last_unqueued_loops
  pc         \* where Main_loop is

vars == <<conn, logins, players, robots, queue, since, pc>>

NumPlayers == Cardinality(players) + robots

Entry(c) == [who |-> c, port |-> FALSE, recv |-> 0, acked |-> 0]

Init ==
  /\ conn = [s \in Slots |-> Free]
  /\ logins = 0 /\ players = {} /\ robots = 0
  /\ queue = <<>>
  /\ since = AckLoops + 1
  /\ pc = "select"

\* Conn_set_state counts the connections that are neither free nor in the game.
Counted(new) ==
  /\ conn' = new
  /\ logins' = logins + Cardinality({s \in Slots : Logging(new[s]) /\ ~Logging(conn[s])})
                      - Cardinality({s \in Slots : ~Logging(new[s]) /\ Logging(conn[s])})

Put(s, c) == Counted([conn EXCEPT ![s] = c])

\* Destroy_connection takes the player along.
Vacated(new) == players \ {conn[s].who : s \in {t \in Slots : InGame(conn[t]) /\ ~InGame(new[t])}}

(* Packets for the contact port. *)

Queued(c) == {i \in DOMAIN queue : queue[i].who = c}

\* Check_names, and the tests of Queue_player for others with the nick or at
\* the computer; the nick is compared with the letters as they are there.
Unwelcome(c) ==
  \/ \E p \in players : NickOf[p] = NickOf[c]
  \/ Cardinality({i \in DOMAIN queue : HostOf[queue[i].who] = HostOf[c]}) > 1

EnterQueue(c) ==
  /\ pc = "select" /\ ~Unwelcome(c)
  /\ IF Queued(c) # {}
     THEN queue' = [queue EXCEPT ![Min(Queued(c))].recv = 0]
     ELSE Len(queue) < MaxQueued /\ queue' = Append(queue, Entry(c))
  /\ UNCHANGED <<conn, logins, players, robots, since, pc>>

ToTheVeryFront(q, n) == 0

\* Queue_advance_player: behind those who are entering the game.
LastEntering(q, n) == Cardinality({i \in 1..n : q[i].port})

Advance(c) ==
  /\ pc = "select"
  /\ \E i \in Queued(c) :
       /\ i > 1 /\ ~queue[i].port
       /\ queue' = InsertAt(RemoveAt(queue, i), LastEntering(queue, i - 1) + 1, queue[i])
  /\ UNCHANGED <<conn, logins, players, robots, since, pc>>

(* Packets for a connection. *)

Verify(s) ==
  /\ pc = "select" /\ "verify" \in Handled(conn[s].state)
  /\ \E c \in Verified(conn[s]) : Put(s, c)
  /\ UNCHANGED <<players, robots, queue, since, pc>>

ReceiveAck(s) ==
  /\ pc = "select" /\ "ack" \in Handled(conn[s].state)
  /\ \E c \in AfterAck(conn[s]) : Put(s, c)
  /\ UNCHANGED <<players, robots, queue, since, pc>>

\* Handle_login: refused if the nick is in the game; the reply and what the
\* client has to know of the others come behind what is still on its way.
Login(s) ==
  LET c == conn[s] IN
  /\ pc = "select" /\ c.state = "LOGIN" /\ HasSetup(c)
  /\ IF \E p \in players : NickOf[p] = NickOf[c.who]
     THEN Put(s, Free) /\ UNCHANGED players
     ELSE /\ Put(s, SetState(Write(c, <<"reply", "info">>), "READY", "PLAYING"))
          /\ players' = players \cup {c.who}
  /\ UNCHANGED <<robots, queue, since, pc>>

\* What an active player sends keeps the connection.
PlayOn(s) ==
  /\ pc = "select" /\ conn[s].state = "PLAYING"
  /\ Put(s, [conn[s] EXCEPT !.age = 0])
  /\ UNCHANGED <<players, robots, queue, since, pc>>

\* Somebody, at the contact port or in the game, kicks a robot.
KickRobot ==
  /\ pc = "select" /\ robots > 0
  /\ robots' = robots - 1
  /\ UNCHANGED <<conn, logins, players, queue, since, pc>>

\* A quit packet, one that is out of place or garbled, an error of the socket,
\* or somebody who kicks the player: Destroy_connection.
Hangup(s) ==
  /\ pc = "select" /\ conn[s].state # "FREE"
  /\ Put(s, Free)
  /\ players' = Vacated([conn EXCEPT ![s] = Free])
  /\ UNCHANGED <<robots, queue, since, pc>>
-----------------------------------------------------------------------------
(* Main_loop. *)

Aged(e) == [e EXCEPT !.recv = Min({@ + 1, QueueLoops + 1}),
                     !.acked = Min({@ + 1, Max({AckLoops + 1, PositionLoops})})]
AllAged == [i \in 1..Len(queue) |-> Aged(queue[i])]

\* main_loops moves on, and Input works through the connections.
Input ==
  /\ pc = "select" /\ pc' = "queue"
  /\ queue' = AllAged
  /\ since' = Min({since + 1, AckLoops + 1})
  /\ \E new \in [Slots -> UNION {InputOn(Older(conn[s])) : s \in Slots}] :
       /\ \A s \in Slots : new[s] \in InputOn(Older(conn[s]))
       /\ Counted(new)
       /\ players' = Vacated(new)
  /\ UNCHANGED robots

SilentPort(e) == e.port /\ e.recv > QueueLoops

\* Those who are entering: dropped if they are silent or their connection does
\* not wait for them any more, reminded of their port if it is time.
Silent(e) == e.recv > QueueLoops

Gone(e)   == Silent(e) \/ (e.acked > CheckLoops /\ ~Awaited(conn, e.who))
Kept(q)   ==
  LET kept[n \in 0..Len(q)] == IF n = 0 THEN <<>>
                               ELSE IF q[n].port /\ Gone(q[n]) THEN kept[n - 1]
                               ELSE Append(kept[n - 1], q[n])
  IN  kept[Len(q)]
Reminded  == {i \in DOMAIN queue : queue[i].port /\ ~Gone(queue[i]) /\ queue[i].acked > AckLoops}

\* Queue_ack for the first of them; nobody behind him is looked at.
ReminderSent ==
  LET i == Min(Reminded)
  IN Kept(SubSeq(queue, 1, i - 1)) \o <<[queue[i] EXCEPT !.acked = 0]>>
       \o SubSeq(queue, i + 1, Len(queue))

BaseWithoutLogins(n) == n < NumBases

\* Is there a home base?
BaseFor(n) == n + logins < NumBases

\* The first in q who has no port: let in, if there is a base and a team.
LetIn(q, first, kicked) ==
  /\ ~Silent(q[first]) /\ since > AckLoops
  /\ \/ kicked = 0 /\ BaseFor(NumPlayers)
     \/ kicked = 1 /\ ~BaseFor(NumPlayers) /\ robots > 0 /\ BaseFor(NumPlayers - 1)
  /\ LET slots == SetupSlot(conn, q[first].who) IN
     IF slots = {}
     THEN queue' = RemoveAt(q, first) /\ UNCHANGED <<conn, logins, since>>
     ELSE /\ \E s \in slots :
               IF conn[s].state = "FREE" THEN Put(s, Opened(q[first].who))
               ELSE UNCHANGED <<conn, logins>>
          /\ queue' = [q EXCEPT ![first].port = TRUE, ![first].acked = 0]
          /\ since' = 0

\* The others are told their position, one in a loop.
Report(q, first) ==
  LET due == {i \in first..Len(q) : Silent(q[i]) \/ q[i].acked >= PositionLoops}
      i   == Min(due)
  IN queue' = IF due = {} THEN q
              ELSE IF Silent(q[i]) THEN RemoveAt(q, i) ELSE [q EXCEPT ![i].acked = 0]

\* A robot is kicked for a base even if its base is not enough, and even if no
\* team is found then.
KickedInVain(q, first) ==
  IF ~Silent(q[first]) /\ since > AckLoops /\ ~BaseFor(NumPlayers) /\ robots > 0
  THEN {1} ELSE {0}

LastOf(waiting) == Max(waiting)

FirstOf(waiting) == Min(waiting)

QueueLoop(kicked) ==
  IF Reminded # {}
  THEN kicked = 0 /\ queue' = ReminderSent /\ UNCHANGED <<conn, logins, since>>
  ELSE LET q       == Kept(queue)
           waiting == {i \in DOMAIN q : ~q[i].port}
           first   == FirstOf(waiting)
       IN IF waiting = {}
          THEN kicked = 0 /\ queue' = q /\ UNCHANGED <<conn, logins, since>>
          ELSE \/ LetIn(q, first, kicked)
               \/ /\ Silent(q[first]) /\ kicked = 0
                  /\ queue' = RemoveAt(q, first) /\ UNCHANGED <<conn, logins, since>>
               \/ /\ ~Silent(q[first]) /\ kicked \in KickedInVain(q, first)
                  /\ Report(q, first) /\ UNCHANGED <<conn, logins, since>>

OneRobotMore(n) == n <= MaxRobots /\ Cardinality(players) + n + logins' < NumBases

\* Robot_add_remove: a robot comes, after a while, if there is a base for it,
\* and leaves if it should not be here.
RobotComes(n) == n < MaxRobots /\ Cardinality(players) + n + logins' < NumBases

RobotLeaves(n) == n > 0 /\ (Cardinality(players) + n > NumBases \/ n > MaxRobots)

RobotAddRemove(n) ==
  IF RobotComes(n) THEN robots' \in {n, n + 1}
  ELSE robots' = IF RobotLeaves(n) THEN n - 1 ELSE n

EndLoop ==
  /\ pc = "queue" /\ pc' = "select"
  /\ \E kicked \in 0..1 : QueueLoop(kicked) /\ RobotAddRemove(robots - kicked)
  /\ UNCHANGED players

Packet ==
  \/ KickRobot
  \/ \E c \in Clients : EnterQueue(c) \/ Advance(c)
  \/ \E s \in Slots : \/ Verify(s) \/ ReceiveAck(s) \/ Login(s) \/ PlayOn(s) \/ Hangup(s)

Next == Packet \/ Input \/ EndLoop

Spec == Init /\ [][Next]_vars

\* The timer calls Main_loop whatever the clients do.
FairSpec == Spec /\ WF_vars(Input) /\ WF_vars(EndLoop)
-----------------------------------------------------------------------------
(* Properties. *)

\* Those who are entering come first in the queue, as the two loops of
\* Queue_loop (contact.c:686, 712) take for granted, and nobody is in it twice,
\* whatever Queue_advance_player relinks.
EnteringFirst ==
  /\ \A i, j \in DOMAIN queue : i < j /\ queue[j].port => queue[i].port
  /\ \A i, j \in DOMAIN queue : queue[i].who = queue[j].who => i = j

\* Everybody who has been let in finds a home base when the login is done
\* (netserver.c:937): players, robots and those who are still logging in never
\* outnumber the bases.
SeatForEveryLogin == NumPlayers + logins <= NumBases

\* No two connections have one nick, and a nick in the game is that of the
\* client behind its connection only (netserver.c:577, 898).
OneConnectionPerNick ==
  /\ \A s, t \in Slots : conn[s].state # "FREE" /\ conn[t].state # "FREE"
       /\ NickOf[conn[s].who] = NickOf[conn[t].who] => s = t
  /\ players = {conn[s].who : s \in {t \in Slots : InGame(conn[t])}}

\* The clients without a port, who are behind those with one, are served as
\* OrderedEntry promises.
Ports    == {i \in DOMAIN queue : queue[i].port}
Entering == {queue[i].who : i \in Ports}
Waiting  == LET n == Cardinality(Ports)
            IN  [k \in 1..(Len(queue) - n) |-> queue[n + k].who]
Ordered == INSTANCE OrderedEntry WITH waiting <- Waiting, entering <- Entering
ServedInOrder == Ordered!Spec

\* A client who stops asking does not stay in the queue (contact.c:689, 715,
\* 774), though one call of Queue_loop does not look at everybody, unless
\* operators go on for ever moving others in front.
SilentIsDropped ==
  \A c \in Clients : \/ []<><<EnterQueue(c)>>_vars
                     \/ []<><<\E d \in Clients : Advance(d)>>_vars
                     \/ []<>(Queued(c) = {})
=============================================================================
