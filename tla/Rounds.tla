------------------------------- MODULE Rounds -------------------------------
(***************************************************************************)
(* How a round goes and ends: the states of the players (player.c,         *)
(* update.c), the treasures that decide a round (walls.c, score.c,         *)
(* object.c), and the frame of Main_loop (server.c) that works on them in  *)
(* a fixed order: input, movement, collisions, the aftermath of kills, the *)
(* verdict on the round, and the reset.  The map is played by teams with   *)
(* limited lives, a team has at most one treasure, and nobody is a robot.  *)
(*                                                                         *)
(* Players[] is a sequence here, since the loops over it remove players    *)
(* while they run: the last player takes the place of the one who leaves.  *)
(* These loops make one step per player.                                   *)
(*                                                                         *)
(* Left open: where the ships are (who is hit, who is close to a base),    *)
(* how long delays take (recovery, self-destruction, idling), and whether  *)
(* a team has room; module Roster is about bases and room.                 *)
(***************************************************************************)
EXTENDS Integers, SequencesExt

CONSTANTS
  Ids,             \* who may play
  Teams,           \* teams with bases
  TreasureTeams,   \* ... and with a treasure
  PauseTeam,       \* PAUSE_TEAM_NUM
  Lives,           \* World.rules->lives
  MaxPaused,       \* MAX_PAUSED_PLAYERS
  NoTeam

ASSUME RulesAssumption == /\ PauseTeam \notin Teams
                          /\ TreasureTeams \subseteq Teams
                          /\ NoTeam \notin Teams \cup {PauseTeam}
                          /\ Lives \in Nat /\ MaxPaused \in Nat \ {0}

VARIABLES
  game,        \* Players[], what the players are up to, NumPaused
  treasures,   \* which ones are away, about to time out, left, destroyed
  pc,          \* the part of Main_loop that runs
  i            \* the index of its loop over Players[]

vars == <<game, treasures, pc, i>>

Playing == {"ALIVE", "APPEARING"}
Out     == {"DEAD", "WAITING"}
Active  == Playing \cup Out \cup {"KILLED"}      \* Player_is_active

Those(g, states) == {p \in ToSet(g.order) : g.pl_state[p] \in states}
TeamsOf(g, ps)   == {g.team[p] : p \in ps}
Nth(g)           == g.order[i]

Untouched == [missing |-> {}, expired |-> {}, left |-> TreasureTeams, destroyers |-> {}]

\* Objects_time_out and Teams_reset: every ball is on its way home.
TimeOut(tr) == [Untouched EXCEPT !.missing = tr.missing, !.expired = tr.missing]

Init ==
  /\ game = [order     |-> <<>>,
             team      |-> [p \in Ids |-> NoTeam],
             pl_state  |-> [p \in Ids |-> "UNDEFINED"],
             life      |-> [p \in Ids |-> 0],
             slain     |-> [p \in Ids |-> FALSE],    \* deaths > self_deaths
             fuse      |-> [p \in Ids |-> FALSE],    \* self_destruct_count > 0
             NumPaused |-> 0]
  /\ treasures = Untouched
  /\ pc = "input"
  /\ i = 1

-----------------------------------------------------------------------------
(* Helpers on the game.                                                    *)

\* Mutant of SwapRemove: the last entry is lost instead.
CutLast(seq, p) == SubSeq(seq, 1, Len(seq) - 1)

\* The last entry takes the place of the one that goes.
SwapRemove(seq, p) ==
  LET n == Len(seq)
  IN  SubSeq([k \in 1..n |-> IF seq[k] = p THEN seq[n] ELSE seq[k]], 1, n - 1)

\* Player_remove.
Depart(g, p) ==
  [g EXCEPT !.order       = SwapRemove(@, p),
            !.team[p]     = NoTeam,
            !.pl_state[p] = "UNDEFINED",
            !.life[p]     = 0,
            !.slain[p]    = FALSE,
            !.fuse[p]     = FALSE,
            !.NumPaused   = IF g.pl_state[p] = "PAUSED" THEN @ - 1 ELSE @]

\* Player_compute_entry_state of p, whose team is t already.
EntryState(g, away, p, t) ==
  LET active == Those(g, Active)
      onTeam == {q \in active : g.team[q] = t}
      alone  == \/ Cardinality(active \cup {p}) <= 1
                \/ Cardinality(onTeam) + 1 = Cardinality(active \cup {p})
      begun  == away # {} \/ \E q \in active : g.slain[q]
  IN  IF t = PauseTeam THEN "PAUSED"
      ELSE IF g.pl_state[p] \in Out THEN "WAITING"
      ELSE IF begun /\ ~alone THEN "WAITING"
      ELSE IF g.pl_state[p] = "APPEARING" THEN "APPEARING"
      ELSE "ALIVE"

\* p is put into a team, and its state follows (Player_swap_team).
Move(g, p, t) ==
  LET h == [g EXCEPT !.team[p] = t]
  IN  [h EXCEPT !.pl_state[p] = EntryState(h, treasures.missing, p, t)]

\* Mutant of Kicked: those who are kicked still count as paused.
KickedUncounted(g, p) ==
  IF g.pl_state[p] = "PAUSED" THEN [Depart(g, p) EXCEPT !.NumPaused = @ + 1] ELSE g

Kicked(g, p) == IF g.pl_state[p] = "PAUSED" THEN Depart(g, p) ELSE g

\* Players_kick_paused, from the last player to the first: after[k] is what is
\* left when k of them have been looked at.
KickPaused(g) ==
  LET n == Len(g.order)
      after[k \in 0..n] == IF k = 0 THEN g ELSE Kicked(after[k - 1], g.order[n + 1 - k])
  IN  after[n]

\* Player_pause_forced of a player who is not paused.
PauseForced(g, p) ==
  LET h == Move(IF g.NumPaused >= MaxPaused THEN KickPaused(g) ELSE g, p, PauseTeam)
  IN  [h EXCEPT !.slain[p] = FALSE, !.life[p] = Lives, !.NumPaused = @ + 1]

\* Player_destroy: dead, or one life less.
Destroyed(g, p) ==
  IF g.life[p] = 0 THEN [g EXCEPT !.pl_state[p] = "DEAD"]
  ELSE [g EXCEPT !.pl_state[p] = "APPEARING", !.life[p] = @ - 1]

\* Who is left idle too long is paused by the loops that notice it.
MayBeIdle(g) == {FALSE, Len(g.order) > 1}

-----------------------------------------------------------------------------
(* Input: what clients ask for, and the main loop's tests that follow it.  *)

Stay == UNCHANGED <<pc, i>>

\* Handle_login: the newcomer is not active while its state is computed.
Join(p, t) ==
  /\ pc = "input"
  /\ p \notin ToSet(game.order)
  /\ game' = Move([game EXCEPT !.order = Append(@, p), !.life[p] = Lives], p, t)
  /\ UNCHANGED treasures /\ Stay

\* A connection ends; balls that the player carries are destroyed.
Leave(p) ==
  /\ pc = "input"
  /\ p \in ToSet(game.order)
  /\ game' = Depart(game, p)
  /\ \E carried \in SUBSET treasures.missing :
       treasures' = [treasures EXCEPT !.expired = @ \cup carried]
  /\ Stay

\* May the player's team be left?  Player_pause_self and Cmd_team.
MayLeaveTeam(p) ==
  \/ game.pl_state[p] = "WAITING"
  \/ game.team[p] \notin treasures.missing
  \/ \A q \in Those(game, Active) : game.team[q] = game.team[p]

\* The pause key.
PauseSelf(p) ==
  /\ pc = "input"
  /\ p \in Those(game, Active)
  /\ MayLeaveTeam(p)
  /\ game' = PauseForced(game, p)
  /\ UNCHANGED treasures /\ Stay

\* An operator pauses a player (Cmd_pause), wherever the treasures are.
PauseCommand(p) ==
  /\ pc = "input"
  /\ p \in Those(game, Active)
  /\ game' = PauseForced(game, p)
  /\ UNCHANGED treasures /\ Stay

\* Player_unpause, by the pause key or the team command.
Unpause(p, t) ==
  /\ pc = "input"
  /\ p \in Those(game, {"PAUSED"})
  /\ game' = [Move(game, p, t) EXCEPT !.NumPaused = @ - 1]
  /\ UNCHANGED treasures /\ Stay

\* Cmd_team, a one-way swap to a team with room.
SwapTeam(p, t) ==
  /\ pc = "input"
  /\ p \in Those(game, Active)
  /\ t # game.team[p]
  /\ MayLeaveTeam(p)
  /\ game' = Move(game, p, t)
  /\ UNCHANGED treasures /\ Stay

\* Players_swap_teams with a player who waits for our place, and may have
\* paused since: both change teams before the states are computed in turn.
Trade(p, q) ==
  LET traded == [game EXCEPT !.team[p] = game.team[q], !.team[q] = game.team[p]] IN
  /\ pc = "input"
  /\ p \in Those(game, Active)
  /\ q \in ToSet(game.order)
  /\ game.team[p] # game.team[q]
  /\ game' = Move(Move(traded, p, game.team[q]), q, game.team[p])
  /\ UNCHANGED treasures /\ Stay

\* The self-destruct key, which only an alive player can use.
SelfDestructKey(p) ==
  /\ pc = "input"
  /\ p \in Those(game, {"ALIVE"})
  /\ game' = [game EXCEPT !.fuse[p] = ~@]
  /\ UNCHANGED treasures /\ Stay

\* An operator's reset command (Cmd_reset) runs Players_reset at once.
CommandReset ==
  /\ pc = "input"
  /\ game.order # <<>>
  /\ pc' = "command_reset"
  /\ i' = 1
  /\ UNCHANGED <<game, treasures>>

\* With nobody left but pausers the treasures are reset; with nobody at all
\* the frame ends here.
BeginFrame ==
  /\ pc = "input"
  /\ treasures' = IF Len(game.order) = game.NumPaused THEN TimeOut(treasures)
                  ELSE treasures
  /\ pc' = IF game.order = <<>> THEN "input" ELSE "update"
  /\ i' = 1
  /\ UNCHANGED game
-----------------------------------------------------------------------------
(* The frame.  Balls move first, then the players one by one, and then     *)
(* collisions are looked for.                                              *)

\* A ball comes home, or is brought to the treasure box of another team while
\* it belongs to a player of that team.  It counts if its own team plays.
BallComesHome(t) ==
  /\ pc = "update" /\ i = 1
  /\ t \in treasures.missing \ treasures.expired
  /\ treasures' = [treasures EXCEPT !.expired = @ \cup {t}]
  /\ UNCHANGED game /\ Stay

BallIsCashed(t, winner) ==
  /\ pc = "update" /\ i = 1
  /\ t \in treasures.missing \ treasures.expired
  /\ winner \in TeamsOf(game, ToSet(game.order)) \cap (TreasureTeams \ {t})
  /\ treasures' =
       IF t \in TeamsOf(game, Those(game, Playing \cup {"DEAD"}))
       THEN [treasures EXCEPT !.expired = @ \cup {t},
                              !.left = @ \ {t}, !.destroyers = @ \cup {winner}]
       ELSE [treasures EXCEPT !.expired = @ \cup {t}]
  /\ UNCHANGED game /\ Stay

\* What Update_players makes of a player: time passes, an appearing player may
\* have recovered, and a self-destruct count may have run out.
Updated(g, p) ==
  LET moved == {g, [g EXCEPT !.pl_state[p] = IF @ = "APPEARING" THEN "ALIVE" ELSE @]}
      boom(h) == Destroyed([h EXCEPT !.fuse[p] = FALSE], p)
  IN  IF g.pl_state[p] = "PAUSED" THEN {g}
      ELSE moved \cup {boom(h) : h \in {m \in moved : m.fuse[p] /\ m.pl_state[p] # "APPEARING"}}

UpdatePlayer ==
  /\ pc = "update" /\ i <= Len(game.order)
  /\ game' \in Updated(game, Nth(game))
  /\ i' = i + 1
  /\ UNCHANGED <<treasures, pc>>

UpdateEnds ==
  /\ pc = "update" /\ i > Len(game.order)
  /\ pc' = "collide"
  /\ UNCHANGED <<game, treasures, i>>

\* A player is killed, by others or by own doing: a wall, the own shot.
Hit(p, byOthers) ==
  /\ pc = "collide"
  /\ p \in Those(game, {"ALIVE"})
  /\ game' = [game EXCEPT !.pl_state[p] = "KILLED", !.slain[p] = @ \/ byOthers]
  /\ UNCHANGED treasures /\ Stay

\* Somebody gets hold of a ball in its box.
BallIsTaken(t) ==
  /\ pc = "collide"
  /\ Those(game, {"ALIVE"}) # {}
  /\ t \in TreasureTeams \ treasures.missing
  /\ treasures' = [treasures EXCEPT !.missing = @ \cup {t}]
  /\ UNCHANGED game /\ Stay

\* Mutant of LastIndex: off by one.
LastButOne(g) == Len(g.order) - 1

LastIndex(g) == Len(g.order)

CollideEnds ==
  /\ pc = "collide"
  /\ pc' = "killed"
  /\ i' = LastIndex(game)
  /\ UNCHANGED <<game, treasures>>

\* Players_handle_after_kill, from the last player to the first.  Pausing one
\* may kick others, and the place may be beyond the array then.
AfterKill ==
  /\ pc = "killed" /\ i > 0
  /\ IF i <= Len(game.order) /\ Nth(game) \in Those(game, {"KILLED"})
     THEN LET g == Destroyed(game, Nth(game)) IN
          \E idle \in MayBeIdle(game) :
            game' = IF idle THEN PauseForced(g, Nth(game)) ELSE g
     ELSE UNCHANGED game
  /\ i' = i - 1
  /\ UNCHANGED <<treasures, pc>>

AfterKillEnds ==
  /\ pc = "killed" /\ i = 0
  /\ pc' = "status"
  /\ UNCHANGED <<game, treasures, i>>

-----------------------------------------------------------------------------
(* The verdict on the round (Update_game_status) and the reset.            *)

AliveTeams(g)   == TeamsOf(g, Those(g, Playing))
DeadTeams(g)    == TeamsOf(g, Those(g, Out)) \ AliveTeams(g)
OnAliveTeam(g)  == TeamsOf(g, Those(g, Active)) \subseteq AliveTeams(g)

\* With two teams alive a round lasts while two have a treasure left, or while
\* nobody has destroyed one.
Fought(g, tr) ==
  /\ Cardinality(AliveTeams(g)) > 1
  /\ Cardinality(tr.left \cap AliveTeams(g)) <= 1
  /\ tr.destroyers \cap AliveTeams(g) # {}

\* Mutant of Deserted: those who wait for a round alone are forgotten.
NeverDeserted(g) == FALSE

\* One team is left, and some of its players wait for a new round.
Deserted(g) ==
  /\ Cardinality(AliveTeams(g)) = 1
  /\ Those(g, Out) # {}
  /\ OnAliveTeam(g)

RoundIsOver(g, tr) ==
  \/ Fought(g, tr)
  \/ Cardinality(AliveTeams(g)) <= 1 /\ DeadTeams(g) # {}
  \/ Deserted(g)

Home(tr) == [tr EXCEPT !.missing = @ \ tr.expired, !.expired = {}]

\* Update_game_status, and Objects_remove_timed_out if the round goes on.
Status ==
  /\ pc = "status"
  /\ IF RoundIsOver(game, treasures)
     THEN pc' = "reset" /\ UNCHANGED treasures
     ELSE pc' = "input" /\ treasures' = Home(treasures)
  /\ i' = 1
  /\ UNCHANGED game

\* Mutant of Renewed: whoever waits keeps waiting.
RenewedUnlessWaiting(g, p) ==
  IF g.pl_state[p] = "WAITING" THEN g
  ELSE [g EXCEPT !.pl_state[p] = "APPEARING", !.life[p] = Lives, !.slain[p] = FALSE]

Renewed(g, p) ==
  [g EXCEPT !.pl_state[p] = "APPEARING", !.life[p] = Lives, !.slain[p] = FALSE]

\* One turn of the loop of Players_reset.
ResetPlayer ==
  /\ pc \in {"reset", "command_reset"} /\ i <= Len(game.order)
  /\ LET p == Nth(game) IN
     \/ /\ p \in Those(game, Playing) /\ TRUE \in MayBeIdle(game)
        /\ game' = PauseForced(game, p)
     \/ /\ p \in Those(game, Playing \cup Out)
        /\ game' = Renewed(game, p)
     \/ /\ p \notin Those(game, Playing \cup Out)
        /\ UNCHANGED game
  /\ i' = i + 1
  /\ UNCHANGED <<treasures, pc>>

\* Objects_time_out and Teams_reset follow; at the end of a round the balls
\* that have timed out go home in the same frame.
ResetEnds ==
  /\ pc \in {"reset", "command_reset"} /\ i > Len(game.order)
  /\ treasures' = IF pc = "reset" THEN Home(TimeOut(treasures)) ELSE TimeOut(treasures)
  /\ pc' = "input"
  /\ i' = 1
  /\ UNCHANGED game

Input ==
  \/ \E p \in Ids, t \in Teams : Join(p, t)
  \/ \E p \in Ids : Leave(p)
  \/ \E p \in Ids : PauseSelf(p)
  \/ \E p \in Ids : PauseCommand(p)
  \/ \E p \in Ids, t \in Teams : Unpause(p, t)
  \/ \E p \in Ids, t \in Teams : SwapTeam(p, t)
  \/ \E p, q \in Ids : Trade(p, q)
  \/ \E p \in Ids : SelfDestructKey(p)
  \/ CommandReset

Chance ==
  \/ \E t \in TreasureTeams : BallComesHome(t)
  \/ \E t, winner \in TreasureTeams : BallIsCashed(t, winner)
  \/ \E p \in Ids, byOthers \in BOOLEAN : Hit(p, byOthers)
  \/ \E t \in TreasureTeams : BallIsTaken(t)

\* What the main loop does whatever happens.
Frame ==
  \/ BeginFrame
  \/ UpdatePlayer \/ UpdateEnds
  \/ CollideEnds
  \/ AfterKill \/ AfterKillEnds
  \/ Status
  \/ ResetPlayer \/ ResetEnds

Next == Input \/ Chance \/ Frame

Spec == Init /\ [][Next]_vars

\* A timer drives the main loop: frames go on, whatever the clients do.
FairSpec == Spec /\ WF_vars(Frame)
-----------------------------------------------------------------------------
(* Properties.                                                             *)

\* Players[] names each player in the game once, and nobody else, whoever is
\* removed by whichever loop over it (player.c:570).
ArrayIsRoster ==
  /\ \A j, k \in DOMAIN game.order : game.order[j] = game.order[k] => j = k
  /\ \A p \in Ids : p \in ToSet(game.order) <=> game.pl_state[p] # "UNDEFINED"

\* The paused players are the members of the pause team (player.c:1022), and
\* they are as many as NumPaused says, in the middle of every loop.
PausersCounted ==
  /\ game.NumPaused = Cardinality(Those(game, {"PAUSED"}))
  /\ \A p \in ToSet(game.order) : game.team[p] = PauseTeam <=> game.pl_state[p] = "PAUSED"

\* Once the aftermath of kills is over no player is KILLED any more
\* (server.c:391), even if pausing one has moved others in Players[].
NobodyStaysKilled ==
  pc \notin {"collide", "killed"} => Those(game, {"KILLED"}) = {}

\* A frame does not end with a player out of the round who has nobody to fight
\* it: unless two teams play on, the round was over and has been reset.
NoRoundWithoutFight ==
  [][pc = "status" /\ pc' = "input"
       => Those(game', Out) = {} \/ Cardinality(AliveTeams(game')) > 1]_vars

Stuck(p) == p \in Those(game, Out) /\ Cardinality(AliveTeams(game)) <= 1

\* Players who are out of a round that has nobody left to fight it get to play
\* again, or fighting is taken up again: the main loop does not forget them.
OutIsNotForever == \A p \in Ids : Stuck(p) ~> ~Stuck(p)

\* The reset covers "all active players" (player.c:295).
ResetIsComplete ==
  [][ResetEnds => Those(game, Active) = Those(game, {"APPEARING"})]_vars

\* A dead player "has to wait till the end of round" (player.c:1034): the way
\* back to life is the reset.
WaitsForTheReset ==
  [][\A p \in Those(game, Out) :
       game'.pl_state[p] \in Playing => pc \in {"reset", "command_reset"}]_vars
=============================================================================
