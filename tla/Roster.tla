------------------------------- MODULE Roster -------------------------------
(***************************************************************************)
(* Who is in the game, on which team and at which home base: player.c,     *)
(* team.c, the team command of command.c, the admission of queued clients  *)
(* (Queue_loop of contact.c), the login of netserver.c and the comings and *)
(* goings of robots (robot.c), on a TEAM_PLAY map.                         *)
(*                                                                         *)
(* The server is one thread, so every handler is one action.  The handlers *)
(* share helpers that work on the whole roster, which is one record; a     *)
(* helper that makes a choice (rfrac() picks a base, scores pick a robot   *)
(* or a team) returns the set of rosters it may leave behind.              *)
(*                                                                         *)
(* pl_state tells only what this module needs: whether a player is paused. *)
(* Whether a player may pause or swap now (distance to the base, treasures *)
(* away from home, the unpause delay) is left open: every such request may *)
(* also be refused.  A null pointer that the code follows stops the server *)
(* and is recorded in `fault'.                                             *)
(***************************************************************************)
EXTENDS Integers, FiniteSets

CONSTANTS
  Humans, Robots,      \* who may play: clients, robot definitions
  Teams, PauseTeam,    \* team numbers; PAUSE_TEAM_NUM
  Bases, BaseTeam,     \* home bases of the map, and the team of each
  RobotTeam,           \* option robotTeam
  ReserveRobotTeam,    \* option reserveRobotTeam
  RestrictRobots,      \* option restrictRobots
  MaxRobots,           \* option maxRobots
  MaxPaused,           \* MAX_PAUSED_PLAYERS
  Targets,             \* players that a team command may name
  NoTeam, NoBase, Nobody

Everyone == Humans \cup Robots

ASSUME PlayersAssumption == /\ IsFiniteSet(Everyone)
                            /\ Humans \cap Robots = {}
                            /\ Nobody \notin Everyone
                            /\ Targets \subseteq Everyone
ASSUME TeamsAssumption   == /\ IsFiniteSet(Teams)
                            /\ PauseTeam \in Teams /\ NoTeam \notin Teams
                            /\ RobotTeam \in Teams \ {PauseTeam}
ASSUME BasesAssumption   == /\ IsFiniteSet(Bases)
                            /\ BaseTeam \in [Bases -> Teams]
                            /\ NoBase \notin Bases
ASSUME OptionsAssumption == /\ ReserveRobotTeam \in BOOLEAN
                            /\ RestrictRobots \in BOOLEAN
                            /\ MaxRobots \in Nat /\ MaxPaused \in Nat \ {0}

VARIABLES
  roster,   \* Players[], the counters of the teams, and who waits to swap
  pending   \* connp->team of every client that is connected, but not logged in

vars == <<roster, pending>>

BasesOf(t)  == {b \in Bases : BaseTeam[b] = t}
NumBases(t) == Cardinality(BasesOf(t))

Connected(r, p) == p \in r.players /\ p \in Humans
Paused(r, p)    == p \in r.players /\ r.pl_state[p] = "PAUSED"
NumRobots(r)    == Cardinality(r.players \cap Robots)
HasRoom(r, t)   == r.NumMembers[t] < NumBases(t)

LoginsInProgress == Cardinality({h \in Humans : pending[h] # NoTeam})

Init ==
  /\ roster = [players    |-> {},
               team       |-> [p \in Everyone |-> NoTeam],
               home       |-> [p \in Everyone |-> NoBase],
               pl_state   |-> [p \in Everyone |-> "UNDEFINED"],
               NumMembers |-> [t \in Teams |-> 0],
               TeamRobots |-> [t \in Teams |-> 0],
               NumPaused  |-> 0,
               Swapper    |-> [t \in Teams |-> Nobody],
               fault      |-> "none"]
  /\ pending = [h \in Humans |-> NoTeam]

Crash(r, where) == [r EXCEPT !.fault = where]

-----------------------------------------------------------------------------
(* Helpers on the roster.                                                  *)

\* Mutant of Unqueue: World.teams[].Swapper is left as it is.
StayQueued(queue, gone) == queue

\* Nobody in `gone' waits to swap to a team any more.
Unqueue(queue, gone) == [t \in Teams |-> IF queue[t] \in gone THEN Nobody ELSE queue[t]]

\* Players leave (Player_remove for each of them): nobody waits to swap with
\* them any more, they no longer count, and their structure is cleared.
Depart(r, gone) ==
  LET In(t) == {p \in gone : r.team[p] = t} IN
  [r EXCEPT !.players    = @ \ gone,
            !.team       = [p \in Everyone |-> IF p \in gone THEN NoTeam ELSE @[p]],
            !.home       = [p \in Everyone |-> IF p \in gone THEN NoBase ELSE @[p]],
            !.pl_state   = [p \in Everyone |-> IF p \in gone THEN "UNDEFINED" ELSE @[p]],
            !.NumMembers = [t \in Teams |-> @[t] - Cardinality(In(t))],
            !.TeamRobots = [t \in Teams |-> @[t] - Cardinality(In(t) \cap Robots)],
            !.NumPaused  = @ - Cardinality({p \in gone : Paused(r, p)}),
            !.Swapper    = Unqueue(@, gone)]

\* A player becomes a member of a team (Player_add_to_team).
Enlist(r, p, t) ==
  [r EXCEPT !.team[p]       = t,
            !.NumMembers[t] = @ + 1,
            !.TeamRobots[t] = IF p \in Robots THEN @ + 1 ELSE @]

\* ... and stops being one (Player_remove_from_team).
Discharge(r, p) ==
  LET t == r.team[p] IN
  [r EXCEPT !.team[p]       = NoTeam,
            !.NumMembers[t] = @ - 1,
            !.TeamRobots[t] = IF p \in Robots THEN @ - 1 ELSE @]

\* Player_compute_entry_state, as far as pausing goes.
EntryState(t) == IF t = PauseTeam THEN "PAUSED" ELSE "ACTIVE"

\* The bases Team_pick_free_base may return; none stands for NULL.
FreeBases(r, t) == BasesOf(t) \ {r.home[p] : p \in r.players}

\* A player whose base is settled takes part in the game on team t.
Settle(r, p, t, b) ==
  [r EXCEPT !.home[p] = b, !.pl_state[p] = EntryState(t)]

\* Mutant of Move: the old team keeps counting the player.
MoveKeepsMembership(r, p, t, b) == Settle(Enlist(r, p, t), p, t, b)

\* A player goes to another team, once a base is found there.
Move(r, p, t, b) == Settle(Enlist(Discharge(r, p), p, t), p, t, b)

\* Player_swap_team: with no base to be had the player is removed.
SwapTeam(r, p, t) ==
  IF t = PauseTeam THEN {Move(r, p, t, NoBase)}
  ELSE IF FreeBases(r, t) = {} THEN {Depart(r, {p})}
  ELSE {Move(r, p, t, b) : b \in FreeBases(r, t)}

Traded(f, p, q) == [f EXCEPT ![p] = f[q], ![q] = f[p]]

\* Players_swap_teams: two players trade teams and bases.
Exchange(r, p, q) ==
  [r EXCEPT !.team        = Traded(@, p, q),
            !.home        = Traded(@, p, q),
            !.pl_state[p] = EntryState(r.team[q]),
            !.pl_state[q] = EntryState(r.team[p])]

\* Player_pause_forced: when too many pause, all connected pausers are kicked.
PauseForced(r, p) ==
  LET kicked == IF r.NumPaused >= MaxPaused
                THEN {q \in r.players : Connected(r, q) /\ Paused(r, q)}
                ELSE {}
  IN  [Move(Depart(r, kicked), p, PauseTeam, NoBase) EXCEPT !.NumPaused = @ + 1]

\* Mutant of Unpaused: the player is not taken off the pausers' count.
UnpausedUncounted(r, p, t) == SwapTeam(r, p, t)

\* Player_unpause, once the delay is over and a team is found.
Unpaused(r, p, t) == {[q EXCEPT !.NumPaused = @ - 1] : q \in SwapTeam(r, p, t)}

-----------------------------------------------------------------------------
(* Finding a team, and room for a newcomer.                                *)

Playing(r, t) == Cardinality({p \in r.players : r.team[p] = t /\ r.pl_state[p] = "ACTIVE"})

OpenToHumans(r) ==
  {t \in Teams \ {PauseTeam} :
     HasRoom(r, t) /\ ~(t = RobotTeam /\ ReserveRobotTeam /\ RestrictRobots)}

\* Team_find_available(PL_TYPE_HUMAN): the teams it may return; none stands
\* for NULL.  Scores, which are not modelled, choose among the candidates.
TeamsForHuman(r) ==
  LET open   == OpenToHumans(r)
      busy   == {t \in Teams : Playing(r, t) > 0}
      filled == open \cap busy
      best   == IF Cardinality(busy) <= 1 THEN open \ busy
                ELSE IF filled = {} THEN open
                ELSE {t \in filled : \A u \in filled : Playing(r, t) <= Playing(r, u)}
      candidates == IF best = {} THEN open ELSE best
  IN  IF Cardinality(candidates) = 1 THEN candidates ELSE candidates \ {RobotTeam}

\* Kick_robot_players: at most one robot leaves; with no team given, and no
\* reserved robot team, Robot_kick(NULL) reads the type of no player.
KickRobot(r, t) ==
  LET kickable == IF t = NoTeam
                  THEN {p \in r.players \cap Robots : r.team[p] # RobotTeam}
                  ELSE {p \in r.players \cap Robots : r.team[p] = t /\ r.TeamRobots[t] > 0}
  IN  IF NumRobots(r) = 0 THEN {r}
      ELSE IF t = NoTeam /\ ~ReserveRobotTeam THEN {Crash(r, "robot_kick")}
      ELSE IF kickable = {} THEN {r}
      ELSE {Depart(r, {p}) : p \in kickable}

\* Is there a home base available?
BaseAvailable(r) ==
  Cardinality(r.players) - r.NumPaused + LoginsInProgress < Cardinality(Bases)

\* The client's own suggestion: kept if the team has, or is given, room.
Suggested(r, t) ==
  IF t = NoTeam THEN {<<r, NoTeam>>}
  ELSE IF HasRoom(r, t) THEN {<<r, t>>}
  ELSE IF t = RobotTeam /\ ReserveRobotTeam THEN {<<r, NoTeam>>}
  ELSE {<<q, IF q = r THEN NoTeam ELSE t>> : q \in KickRobot(r, t)}

WithTeam(r) == IF TeamsForHuman(r) = {} THEN {<<r, NoTeam>>}
               ELSE {<<r, t>> : t \in TeamsForHuman(r)}

\* Without one, a team that is available, perhaps after a robot was kicked.
Found(r) ==
  IF TeamsForHuman(r) # {} \/ ReserveRobotTeam THEN WithTeam(r)
  ELSE UNION {WithTeam(q) : q \in KickRobot(r, NoTeam)}

-----------------------------------------------------------------------------
(* The handlers.                                                           *)

Running == roster.fault = "none"

Outside(h) == h \notin roster.players /\ pending[h] = NoTeam

\* Queue_loop, for the first client in the queue without a login port: make
\* room, choose a team and set up a connection, if there is one to be had.
QueueLoop(h, suggestion) ==
  /\ Running
  /\ Outside(h)
  /\ \E r \in IF BaseAvailable(roster) THEN {roster} ELSE KickRobot(roster, NoTeam) :
       IF ~BaseAvailable(r)
       THEN roster' = r /\ UNCHANGED pending
       ELSE \E s \in Suggested(r, suggestion) :
            \E c \in IF s[2] = NoTeam THEN Found(s[1]) ELSE {s} :
              /\ roster' = c[1]
              /\ \/ pending' = [pending EXCEPT ![h] = c[2]]
                 \/ UNCHANGED pending

\* The connection is destroyed (time-out, error) before the client logs in.
PendingLost(h) ==
  /\ Running
  /\ pending[h] # NoTeam
  /\ pending' = [pending EXCEPT ![h] = NoTeam]
  /\ UNCHANGED roster

\* Handle_login.  With no base left in the team that was chosen at setup, the
\* handler destroys pl->connp, which is set further down only.
Login(h) ==
  LET t == pending[h]
      r == [roster EXCEPT !.players = @ \cup {h}]
  IN  /\ Running
      /\ t # NoTeam
      /\ pending' = [pending EXCEPT ![h] = NoTeam]
      /\ IF Cardinality(roster.players) >= Cardinality(Bases) + MaxPaused
         THEN UNCHANGED roster
         ELSE IF FreeBases(roster, t) = {}
         THEN roster' = Crash(Enlist(r, h, t), "login")
         ELSE \E b \in FreeBases(roster, t) : roster' = Settle(Enlist(r, h, t), h, t, b)

\* A client quits, times out or is kicked; a robot retires or is kicked.
Leave(p) ==
  /\ Running
  /\ p \in roster.players
  /\ roster' = Depart(roster, {p})
  /\ UNCHANGED pending

\* Mutant of RoomForRobot: restrictRobots is not looked at.
RoomAnywhere(r) ==
  Cardinality(r.players) + LoginsInProgress < Cardinality(Bases)

RoomForRobot(r) ==
  /\ Cardinality(r.players) + LoginsInProgress < Cardinality(Bases)
  /\ RestrictRobots => HasRoom(r, RobotTeam)

\* Robot_add_remove and Robot_add: a robot without a team is removed before
\* it has any robot data to free.
RobotAdd(p) ==
  LET r == [roster EXCEPT !.players = @ \cup {p}] IN
  /\ Running
  /\ p \in Robots \ roster.players
  /\ NumRobots(roster) < MaxRobots
  /\ RoomForRobot(roster)
  /\ IF ~HasRoom(roster, RobotTeam)
     THEN roster' = Crash(r, "robot_add")
     ELSE IF FreeBases(roster, RobotTeam) = {}
     THEN UNCHANGED roster
     ELSE \E b \in FreeBases(roster, RobotTeam) :
            roster' = Settle(Enlist(r, p, RobotTeam), p, RobotTeam, b)
  /\ UNCHANGED pending

\* Mutant of ChangeHome's test: a base of another team may be taken over.
AnyBase(p, b) == b # roster.home[p]

MayTakeOver(p, b) == b # roster.home[p] /\ BaseTeam[b] = roster.team[p]

\* Player_change_home: the owner of the base gets the other one in return.
ChangeHome(p, b) ==
  /\ Running
  /\ Connected(roster, p) /\ ~Paused(roster, p)
  /\ MayTakeOver(p, b)
  /\ roster' = [roster EXCEPT !.home =
                  [q \in Everyone |-> IF q = p THEN b
                                      ELSE IF q \in roster.players /\ @[q] = b
                                      THEN roster.home[p] ELSE @[q]]]
  /\ UNCHANGED pending

\* The pause key, an operator's pause command and pausing for idleness.
Pause(p) ==
  /\ Running
  /\ Connected(roster, p) /\ ~Paused(roster, p)
  /\ roster' = PauseForced(roster, p)
  /\ UNCHANGED pending

\* The pause key of a paused player.
Unpause(p) ==
  /\ Running
  /\ Connected(roster, p) /\ Paused(roster, p)
  /\ \E t \in TeamsForHuman(roster) : roster' \in Unpaused(roster, p, t)
  /\ UNCHANGED pending

\* Cmd_team, the destination being full: trade with the one who waits for our
\* place, with a paused player of that team, or wait for a place there.
TeamCommandFull(r, p, t) ==
  LET waiting == r.Swapper[r.team[p]]
      pausers == {q \in r.players : Connected(r, q) /\ Paused(r, q) /\ r.team[q] = t}
  IN  IF waiting # Nobody /\ r.team[waiting] = t THEN {Exchange(r, p, waiting)}
      ELSE IF pausers # {} THEN {Exchange(r, p, q) : q \in pausers}
      ELSE {[r EXCEPT !.Swapper[t] = p]}

\* Cmd_team, there being room: whoever waits for our place is served first.
TeamCommandRoom(r, p, t) ==
  LET waiting == r.Swapper[r.team[p]] IN
  IF waiting # Nobody THEN {Exchange(r, p, waiting)}
  ELSE {r} \cup (IF Paused(r, p) THEN Unpaused(r, p, t)
                 ELSE IF t = PauseTeam THEN {PauseForced(r, p)}
                 ELSE SwapTeam(r, p, t))

\* Cmd_team: every request first takes the player off the swap queues.  The
\* way to the pause team looks at the distance from the home base, which a
\* paused player does not have.
TeamCommand(p, t) ==
  LET r == [roster EXCEPT !.Swapper = Unqueue(@, {p})]
  IN  /\ Running
      /\ p \in roster.players \cap Targets
      /\ \/ /\ t = PauseTeam
            /\ roster' = IF roster.home[p] = NoBase THEN Crash(r, "pause_base") ELSE r
         \/ /\ ~(t = PauseTeam /\ roster.home[p] = NoBase)
            /\ roster' \in
                 IF \/ t = r.team[p]
                    \/ NumBases(t) = 0
                    \/ ReserveRobotTeam /\ t = RobotTeam
                 THEN {r}
                 ELSE IF HasRoom(r, t) THEN TeamCommandRoom(r, p, t)
                 ELSE TeamCommandFull(r, p, t)
      /\ UNCHANGED pending

Next ==
  \/ \E h \in Humans, t \in Teams \cup {NoTeam} : QueueLoop(h, t)
  \/ \E h \in Humans : PendingLost(h)
  \/ \E h \in Humans : Login(h)
  \/ \E p \in Everyone : Leave(p)
  \/ \E p \in Robots : RobotAdd(p)
  \/ \E p \in Humans, b \in Bases : ChangeHome(p, b)
  \/ \E p \in Humans : Pause(p)
  \/ \E p \in Humans : Unpause(p)
  \/ \E p \in Everyone, t \in Teams : TeamCommand(p, t)

Spec == Init /\ [][Next]_vars
-----------------------------------------------------------------------------
(* Properties.                                                             *)

\* Type invariant.  The counters never go below zero.
TypeOK ==
  /\ roster \in [players    : SUBSET Everyone,
                 team       : [Everyone -> Teams \cup {NoTeam}],
                 home       : [Everyone -> Bases \cup {NoBase}],
                 pl_state   : [Everyone -> {"UNDEFINED", "ACTIVE", "PAUSED"}],
                 NumMembers : [Teams -> Nat],
                 TeamRobots : [Teams -> Nat],
                 NumPaused  : Nat,
                 Swapper    : [Teams -> Everyone \cup {Nobody}],
                 fault      : {"none", "robot_kick", "robot_add", "login", "pause_base"}]
  /\ pending \in [Humans -> Teams \cup {NoTeam}]

\* The member counts of the teams, kept by ++ and -- in a dozen handlers, are
\* the numbers of players (and robots) that point to the team.
MembersCounted ==
  \A t \in Teams :
    LET members == {p \in roster.players : roster.team[p] = t} IN
    /\ roster.NumMembers[t] = Cardinality(members)
    /\ roster.TeamRobots[t] = Cardinality(members \cap Robots)

\* NumPaused counts the paused players, who are the members of the pause team
\* (player.c:1022), through pausing, unpausing, trades and departures; and they
\* never take more than the places set aside for players without a base.
PausedCounted ==
  /\ roster.NumPaused = Cardinality({p \in roster.players : Paused(roster, p)})
  /\ Running => \A p \in roster.players :
                  Paused(roster, p) <=> roster.team[p] = PauseTeam
  /\ roster.NumPaused <= MaxPaused

\* Every playing player has a home base, which belongs to the player's team and
\* to no other player; a paused one has none.
HomesAreExclusive ==
  Running =>
    /\ \A p \in roster.players :
         IF Paused(roster, p) THEN roster.home[p] = NoBase
         ELSE /\ roster.home[p] \in Bases
              /\ BaseTeam[roster.home[p]] = roster.team[p]
    /\ \A p, q \in roster.players :
         p # q /\ roster.home[p] = roster.home[q] => roster.home[p] = NoBase

\* The player a team remembers as waiting for a place has not left since.
SwapperIsPresent == \A t \in Teams : roster.Swapper[t] \in roster.players \cup {Nobody}

\* Nobody who asks to swap or to unpause is removed from the game for want of
\* a base (player.c:879): the room that was checked is a base that is found.
NobodyDroppedBySwapping ==
  [][\A p \in roster.players :
       (Unpause(p) \/ \E t \in Teams : TeamCommand(p, t)) => p \in roster'.players]_vars

\* With the default options robots come and go without a null pointer being
\* followed (robot.c:647, contact.c:163).
RobotsComeAndGo == roster.fault \notin {"robot_kick", "robot_add"}

\* Handle_login finds a base for the player it has let in; its errors are
\* handled at handle_result, as the comment at netserver.c:916 asks.
LoginFindsABase == roster.fault # "login"

\* The team command "swaps you to given team" (command.c:248): its caller ends
\* up there, or stays.
SwapsToGivenTeam ==
  [][\A p \in roster.players, t \in Teams :
       TeamCommand(p, t) /\ p \in roster'.players
         => roster'.team[p] \in {t, roster.team[p]}]_vars
=============================================================================
