------------------------------- MODULE Balls -------------------------------
(***************************************************************************)
(* Objects and balls (object.c, shot.c, collision.c, ship.c): the array    *)
(* Obj[], whose structs are used again, the balls of the treasures, the    *)
(* players who connect to them, carry them, throw them and leave the game  *)
(* with them, through the phases of Main_loop.                             *)
(*                                                                         *)
(* Distances, speeds and shields are choices.  Shots stand for all objects *)
(* that are no balls.  A frame in between only moves things (frameDivisor). *)
(***************************************************************************)
EXTENDS Integers, SequencesExt

CONSTANTS
  Pilots,       \* structs of players
  Team,         \* their teams
  NumTreasures, \* the treasures that have a team, each named as its team
  MaxObjects,   \* MAX_TOTAL_OBJECTS
  MaxAtOnce     \* bound on what happens to players and objects in one move

\* main puts the balls into the boxes while Obj[] is empty: a map has fewer
\* treasures than Obj[] has structs (16384), or balls are missing from the start.
ASSUME BallsAssumption ==
  /\ Pilots \subseteq Nat \ {0}
  /\ NumTreasures \in Nat /\ MaxObjects \in Nat /\ NumTreasures <= MaxObjects

Nil == 0
Treasures == 1..NumTreasures
Store == 1..MaxObjects
Wiped == [type |-> "none", owner |-> Nil, attached |-> FALSE, of |-> Nil, expired |-> FALSE]

VARIABLES
  pilots,     \* Players[]
  alive, killed,
  connector,    \* players with USES_CONNECTOR
  carrying,    \* players with HAS_BALL
  tmp,          \* ball_tmp: what a player is connecting to
  obj,          \* the structs
  arr, numObjs, \* Obj[] and NumObjs
  inBox,        \* have, of the treasures
  mainPhase, turn

arenaVars == <<pilots, alive, killed, connector, carrying, tmp, obj, arr, numObjs, inBox>>
ballVars  == <<arenaVars, mainPhase, turn>>

-----------------------------------------------------------------------------
(* The arena as a record that is passed from call to call. *)

Now == [pilots |-> pilots, alive |-> alive, killed |-> killed, connector |-> connector,
        carrying |-> carrying, tmp |-> tmp, obj |-> obj, arr |-> arr, num |-> numObjs,
        inBox |-> inBox]

ArenaBecomes(s) ==
  /\ pilots' = s.pilots /\ alive' = s.alive /\ killed' = s.killed
  /\ connector' = s.connector /\ carrying' = s.carrying /\ tmp' = s.tmp
  /\ obj' = s.obj /\ arr' = s.arr /\ numObjs' = s.num /\ inBox' = s.inBox

Aboard(s) == ToSet(s.pilots)
ObjectsIn(s) == {s.arr[i] : i \in 1..s.num}
BallsIn(s) == {o \in ObjectsIn(s) : s.obj[o].type = "ball"}
Held(s, p) == {o \in BallsIn(s) : s.obj[o].attached /\ s.obj[o].owner = p}

\* Object_add, with what its callers write into the struct.
AddObject(s, new) ==
  IF s.num = MaxObjects THEN s
  ELSE [s EXCEPT !.obj[s.arr[s.num + 1]] = new, !.num = @ + 1]

\* Ball_treasure_add.
Put(t) == [Wiped EXCEPT !.type = "ball", !.of = t]

AddBall(s, t) ==
  [AddObject(s, Put(t))
     EXCEPT !.inBox[t] = IF s.num = MaxObjects THEN @ ELSE TRUE]

\* Ball_detach of one ball, and of all that the players have to do with.
Detach(s, p, o) ==
  LET loose == IF s.tmp[p] = o THEN [s EXCEPT !.tmp[p] = Nil, !.connector = @ \ {p}] ELSE s
  IN IF p \notin s.carrying THEN loose
     ELSE [loose EXCEPT !.obj[o].attached = @ /\ o \notin Held(s, p),
                        !.carrying = IF Held(s, p) \subseteq {o} THEN @ \ {p} ELSE @]

DetachAll(s, ps) ==
  [s EXCEPT !.tmp = [p \in Pilots |-> IF p \in ps THEN Nil ELSE s.tmp[p]],
            !.connector = @ \ ps,
            !.obj = [o \in Store |-> IF \E p \in ps \cap s.carrying : o \in Held(s, p)
                                    THEN [s.obj[o] EXCEPT !.attached = FALSE] ELSE s.obj[o]],
            !.carrying = @ \ ps]

\* The end of Object_remove: the last object takes the place in Obj[].
SwapOut(s, o) ==
  LET i    == CHOOSE j \in 1..s.num : s.arr[j] = o
      last == s.arr[s.num]
  IN [s EXCEPT !.arr = [@ EXCEPT ![i] = last, ![s.num] = o],
               !.num = @ - 1, !.obj[o] = Wiped]

StillTowed(s, o) ==
  IF s.obj[o].type # "ball" THEN SwapOut(s, o)
  ELSE SwapOut([s EXCEPT !.inBox[s.obj[o].of] = FALSE,
                         !.tmp = [p \in Pilots |-> IF s.tmp[p] = o THEN Nil ELSE s.tmp[p]]], o)

\* Object_remove: whoever is connecting to a ball gives up.
RemoveObject(s, o) ==
  IF s.obj[o].type # "ball" THEN SwapOut(s, o)
  ELSE LET let_go == IF s.obj[o].attached THEN Detach(s, s.obj[o].owner, o)
                     ELSE [s EXCEPT !.tmp = [p \in Pilots |->
                             IF s.tmp[p] = o /\ p \in Aboard(s) THEN Nil ELSE s.tmp[p]]]
       IN SwapOut([let_go EXCEPT !.inBox[s.obj[o].of] = FALSE], o)

\* One turn of Objects_remove_timed_out.
TimeOut(s, o) ==
  IF ~s.obj[o].expired THEN s
  ELSE IF s.obj[o].type = "ball" THEN AddBall(RemoveObject(s, o), s.obj[o].of)
  ELSE RemoveObject(s, o)

\* A loop through Obj[], from its end.
ThroughObj(s, Op(_, _)) ==
  LET after[k \in 0..s.num] ==
        IF k = 0 THEN s ELSE Op(after[k - 1], after[k - 1].arr[s.num + 1 - k])
  IN after[s.num]

RemoveTimedOut(s) == ThroughObj(s, TimeOut)

Expire(s, os) == [s EXCEPT !.obj = [o \in Store |->
                    IF o \in os THEN [s.obj[o] EXCEPT !.expired = TRUE] ELSE s.obj[o]]]

\* Player_destroy and Player_reset, for each of some players.
Destroy(s, ps) == [DetachAll(s, ps) EXCEPT !.alive = @ \ ps, !.killed = @ \ ps]

\* Player_go_home forgets what the player has.
GoesHome(s, ps) == [s EXCEPT !.carrying = @ \ ps, !.alive = @ \cup ps]
-----------------------------------------------------------------------------
\* main puts a ball into the box of every treasure of a team.
BallsInit ==
  /\ pilots = <<>> /\ alive = {} /\ killed = {} /\ connector = {} /\ carrying = {}
  /\ tmp = [p \in Pilots |-> Nil]
  /\ obj = [o \in Store |-> IF o \in Treasures THEN Put(o) ELSE Wiped]
  /\ arr = [o \in Store |-> o] /\ numObjs = NumTreasures
  /\ inBox = [t \in Treasures |-> TRUE]
  /\ mainPhase = "input" /\ turn = 0
-----------------------------------------------------------------------------
(* Between the frames' phases: packets, keys, logins. *)

Input(s) == mainPhase = "input" /\ ArenaBecomes(s) /\ UNCHANGED <<mainPhase, turn>>

Enters == \E p \in Pilots \ Aboard(Now) : Input([Now EXCEPT !.pilots = Append(@, p)])

\* Player_remove: balls in tow are lost, the others and the shots have no owner.
Disown(s, p, o) ==
  LET let_go == IF s.obj[o].attached THEN Detach(s, p, o) ELSE s
      gone   == IF s.obj[o].attached \/ s.obj[o].type = "shot" THEN Expire(let_go, {o}) ELSE s
  IN IF s.obj[o].owner # p THEN s ELSE [gone EXCEPT !.obj[o] = [@ EXCEPT !.owner = Nil]]

Disowned(s, p) == ThroughObj(s, LAMBDA u, o : Disown(u, p, o))

SwapLast(seq, p) ==
  LET i == CHOOSE j \in DOMAIN seq : seq[j] = p
  IN SubSeq([seq EXCEPT ![i] = Last(seq)], 1, Len(seq) - 1)

RemovePilot(s, p) ==
  [Disowned(s, p) EXCEPT
     !.pilots = SwapLast(s.pilots, p), !.alive = @ \ {p}, !.killed = @ \ {p},
     !.connector = @ \ {p}, !.carrying = @ \ {p}, !.tmp[p] = Nil]

Departs == \E p \in Aboard(Now) : Input(RemovePilot(Now, p))

PressConnector   == \E p \in Aboard(Now) : Input([Now EXCEPT !.connector = @ \cup {p}])
ReleaseConnector == \E p \in Aboard(Now) : Input([Now EXCEPT !.connector = @ \ {p}])
DropBall         == \E p \in Aboard(Now) : Input(DetachAll(Now, {p}))

\* Player_swap_team and Players_swap_teams, to pause or to wait.
Pause == \E p \in alive : Input([DetachAll(Now, {p}) EXCEPT !.alive = @ \ {p}])

\* Shot_add, and Make_debris of the thrust.
Fire == \E p \in alive : Input(AddObject(Now, [Wiped EXCEPT !.type = "shot", !.owner = p]))
-----------------------------------------------------------------------------
(* The frame. *)

\* Update_mobile_objects: connectors may snap, but not between real frames;
\* what moves may hit a wall or a treasure.
MoveObject(s, o, snapped, crashed) ==
  LET let_go == IF o \in snapped /\ s.obj[o].attached THEN Detach(s, s.obj[o].owner, o) ELSE s
  IN IF o \in crashed THEN Expire(let_go, {o}) ELSE let_go

MoveObjects(s, snapped, crashed) ==
  ThroughObj(s, LAMBDA u, o : MoveObject(u, o, snapped, crashed))

Moving(s) ==
  {o \in ObjectsIn(s) : s.obj[o].type # "ball" \/ s.obj[o].attached \/ ~s.inBox[s.obj[o].of]}

\* Update_players: some recover, some destroy themselves, some hit a wall.
UpdatePlayers(s, back, suicides, crashed) ==
  [Destroy(GoesHome(s, back), suicides) EXCEPT !.killed = @ \cup (crashed \ suicides)]

Move ==
  /\ mainPhase = "input"
  /\ \E real \in BOOLEAN :
     \E snapped \in SUBSET ObjectsIn(Now) : \E crashed \in SUBSET ObjectsIn(Now) :
     \E back \in SUBSET (Aboard(Now) \ alive) :
     \E suicides \in SUBSET Aboard(Now) : \E crashing \in SUBSET alive :
       /\ snapped \subseteq IF real THEN {o \in BallsIn(Now) : obj[o].attached} ELSE {}
       /\ crashed \subseteq Moving(Now)
       /\ suicides # {} => real
       /\ Cardinality(snapped) + Cardinality(crashed) + Cardinality(back)
            + Cardinality(suicides) + Cardinality(crashing) <= MaxAtOnce
       /\ ArenaBecomes(UpdatePlayers(MoveObjects(Now, snapped, crashed), back, suicides, crashing))
       /\ mainPhase' = IF real /\ pilots # <<>> THEN "collide" ELSE "finish"
       /\ turn' = IF real /\ pilots # <<>> THEN 1 ELSE 0

\* Collision_player_attach_ball.
Attached(s, p, o) ==
  LET ball == s.obj[o]
      t    == ball.of
  IN [s EXCEPT !.obj[o] = [ball EXCEPT !.attached = TRUE, !.owner = p,
                             !.expired = ball.expired /\ ~(t # Nil /\ s.inBox[t])],
               !.inBox = [u \in Treasures |-> s.inBox[u] /\ u # t],
               !.carrying = @ \cup {p}, !.tmp[p] = Nil]

InReach(s, p) ==
  {o \in BallsIn(s) : /\ ~s.obj[o].expired /\ ~s.obj[o].attached
                      /\ ~(s.inBox[s.obj[o].of] /\ s.obj[o].of = Team[p])}

AttachOutcomes(s, p) ==
  IF p \notin s.connector THEN {[s EXCEPT !.tmp[p] = Nil]}
  ELSE IF s.tmp[p] = Nil THEN {s} \cup {[s EXCEPT !.tmp[p] = o] : o \in InReach(s, p)}
  ELSE IF s.obj[s.tmp[p]].attached THEN {[s EXCEPT !.tmp[p] = Nil]}
  ELSE {s, Attached(s, p, s.tmp[p])}

\* Collision_player_object_check: what the player may hit, if not immune.
Hittable(s, p) ==
  {o \in ObjectsIn(s) :
     /\ ~s.obj[o].expired
     /\ \/ s.obj[o].owner \in {Nil, p}
        \/ s.obj[o].type = "ball" /\ ~s.obj[o].attached
        \/ Team[s.obj[o].owner] # Team[p]}

HitOutcomes(s, p) ==
  {s} \cup {Expire(s, {o}) : o \in Hittable(s, p)}
      \cup {[Expire(s, {o}) EXCEPT !.killed = @ \cup {p}] : o \in Hittable(s, p)}

\* One player of Collision_players_check: killed by or with another, or not.
Collide ==
  /\ mainPhase = "collide"
  /\ LET p == pilots[turn]
     IN IF p \notin alive \ killed THEN UNCHANGED arenaVars
        ELSE \/ \E others \in SUBSET {q \in alive : \E j \in turn + 1..Len(pilots) : pilots[j] = q} :
                  others # {} /\ ArenaBecomes([Now EXCEPT !.killed = @ \cup {p} \cup others])
             \/ \E s \in AttachOutcomes(Now, p) : \E t \in HitOutcomes(s, p) : ArenaBecomes(t)
  /\ IF turn = Len(pilots) THEN mainPhase' = "finish" /\ turn' = 0
     ELSE turn' = turn + 1 /\ UNCHANGED mainPhase

\* Players_handle_after_kill, Update_game_status with its reset, and
\* Objects_remove_timed_out, where some have come to the end of their lives.
Finish ==
  /\ mainPhase = "finish" /\ mainPhase' = "input"
  /\ LET s == Destroy(Now, killed)
     IN \E reset \in BOOLEAN, old \in {{}} \cup {{o} : o \in ObjectsIn(Now)} :
          ArenaBecomes(RemoveTimedOut(IF reset THEN Expire(Destroy(s, Aboard(s)), ObjectsIn(s))
                                          ELSE Expire(s, old)))
  /\ UNCHANGED turn

BallsNext ==
  \/ Enters \/ Departs \/ PressConnector \/ ReleaseConnector \/ DropBall \/ Pause \/ Fire
  \/ Move \/ Collide \/ Finish

BallsSpec == BallsInit /\ [][BallsNext]_ballVars
-----------------------------------------------------------------------------
\* Nobody pulls a ball that is not there, no ball is pulled by somebody who is
\* not there, and each treasure keeps exactly one ball, in its box or outside,
\* whoever leaves, dies, pauses or throws, and however the structs of Obj[] are
\* used again (shot.c:334, object.c:108, player.c:517).
BallsAreAccountedFor ==
  /\ \A p \in Pilots : p \in carrying <=> Held(Now, p) # {}
  /\ \A o \in BallsIn(Now) : obj[o].attached => obj[o].owner \in Aboard(Now)
  /\ \A t \in Treasures : \E o \in BallsIn(Now) :
       /\ {u \in BallsIn(Now) : obj[u].of = t} = {o}
       /\ inBox[t] => ~obj[o].attached
  /\ \A p \in Pilots : tmp[p] # Nil => p \in alive /\ tmp[p] \in BallsIn(Now)
=============================================================================
