---------------------------- MODULE ObjectFlight ----------------------------
(***************************************************************************)
(* Move_object (walls.c): an object flies through the map, in one step     *)
(* when no wall can be near, in segments otherwise.                        *)
(*                                                                         *)
(* Left out: the frames that are only interpolated, the brake at a bounce, *)
(* and the direction the object points in. Between frames the velocity may *)
(* become any other: gravity, collisions and strings.                      *)
(***************************************************************************)
EXTENDS Walls

CONSTANTS
  Speeds,     \* the components of a velocity, in half clicks
  MaxBounce   \* maxObjectWallBounceSpeed

VARIABLES
  pos,        \* obj->pos
  vel,        \* ms.vel
  todo,       \* what is left of the movement of this frame
  nothing,    \* nothing_done
  moving,     \* Move_object runs
  crash       \* "", or why the object expired

vars == <<pos, vel, todo, nothing, moving, crash>>

Init ==
  /\ pos \in {p \in Everywhere : Free(p)}
  /\ vel = <<0, 0>> /\ todo = <<0, 0>> /\ nothing = 0
  /\ moving = FALSE /\ crash = ""
-----------------------------------------------------------------------------
\* Move_object: at once, if no wall is near enough to meet.
Fits(v) == LET max == DistanceAt(pos) - 2 IN
           max > 0 /\ max * Size * max * Size >= Square(v)

MoveObject ==
  /\ ~moving /\ crash = ""
  /\ vel' \in Speeds \X Speeds
  /\ IF Fits(vel')
     THEN /\ pos' = Plus(pos, Clicks(vel'))
          /\ UNCHANGED <<todo, moving>>
     ELSE todo' = Clicks(vel') /\ moving' = TRUE /\ UNCHANGED pos
  /\ nothing' = 0
  /\ UNCHANGED crash

Stop(why) == /\ crash' = why /\ moving' = FALSE /\ todo' = <<0, 0>>
             /\ UNCHANGED <<pos, nothing>>

\* Nothing was done: a bounce, or an edge.
Stuck(v, t) ==
  /\ vel' = v
  /\ IF nothing = 4 THEN Stop("Unknown")
     ELSE /\ nothing' = nothing + 1
          /\ todo' = t /\ moving' = (t # <<0, 0>>)
          /\ UNCHANGED <<pos, crash>>

Segment ==
  /\ moving
  /\ \E s \in Segments([pos |-> pos, vel |-> vel, todo |-> todo]) :
       \/ s.to = "crash" /\ Stop(s.why) /\ UNCHANGED vel
       \/ s.to = "bounce" /\ Stop("Life") /\ UNCHANGED vel
       \/ /\ s.to = "bounce"
          /\ IF Square(vel) > MaxBounce * MaxBounce
             THEN Stop("Speed") /\ vel' = Bounced(vel, s.wall)
             ELSE Stuck(Bounced(vel, s.wall), Bounced(todo, s.wall))
       \/ s.to = "moved" /\ s.by = <<0, 0>> /\ Stuck(vel, todo)
       \/ /\ s.to = "moved" /\ s.by # <<0, 0>>
          /\ pos' = Plus(pos, s.by)
          /\ todo' = <<todo[1] - s.by[1], todo[2] - s.by[2]>>
          /\ moving' = (todo' # <<0, 0>>)
          /\ nothing' = 0
          /\ UNCHANGED <<vel, crash>>

Next == MoveObject \/ Segment
-----------------------------------------------------------------------------
(* An object never gets into a wall, through one, or stuck between two:    *)
(* whatever its velocity and however its way was rounded, it stays in the  *)
(* open part of the map. "We should never reach this", the code says of    *)
(* one crash (walls.c:685), and of another that it happened in the early   *)
(* stages of this code (walls.c:944): it does, but only to what flies      *)
(* exactly along an edge.                                                  *)
WallsAreTight ==
  /\ Free(pos)
  /\ crash \notin {"Never", "Unknown"}
  /\ crash \in {"Wall", "Trapped"} => 0 \in {vel[1], vel[2]}
=============================================================================
