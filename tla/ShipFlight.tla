----------------------------- MODULE ShipFlight -----------------------------
(***************************************************************************)
(* Move_player (walls.c): the points of a ship fly together, as far in     *)
(* each turn of the loop as the one that gets least far; if some point     *)
(* bounces, all of them do.  The points keep their places around the       *)
(* centre, which is what the model keeps.                                  *)
(*                                                                         *)
(* Left out: the turn a bounce gives the ship, and the brake. A frame may  *)
(* change each component of the velocity by Thrust at most: with more, the *)
(* ship is let past walls that the test on pl->velocity did not see.       *)
(***************************************************************************)
EXTENDS Walls, Sequences, Functions

CONSTANTS
  Points,     \* where the points of the ship are, a sequence
  Speeds, Thrust,
  MaxBounce   \* maxShieldedWallBounceSpeed

VARIABLES
  pos, vel,   \* pl->pos, pl->vel
  speed2,     \* pl->velocity, squared: computed when the ship has moved
  todo, nothing, moving, crash

vars == <<pos, vel, speed2, todo, nothing, moving, crash>>

Clear(p) == Free(p) /\ \A i \in DOMAIN Points : Free(Plus(p, Points[i]))

Init ==
  /\ pos \in {p \in Everywhere : Clear(p)}
  /\ vel = <<0, 0>> /\ speed2 = 0 /\ todo = <<0, 0>> /\ nothing = 0
  /\ moving = FALSE /\ crash = ""
-----------------------------------------------------------------------------
\* At once, if the speed of the last frame would not bring the ship to a wall.
Fits == LET max == DistanceAt(pos) - 3 IN
        max > 0 /\ max * Size * max * Size >= speed2

MovePlayer ==
  /\ ~moving /\ crash = ""
  /\ vel' \in {v \in Speeds \X Speeds : \A k \in {1, 2} : AbsOf(v[k] - vel[k]) <= Thrust}
  /\ IF Fits
     THEN /\ pos' = Plus(pos, Clicks(vel')) /\ speed2' = Square(vel')
          /\ UNCHANGED <<todo, moving>>
     ELSE todo' = Clicks(vel') /\ moving' = TRUE /\ UNCHANGED <<pos, speed2>>
  /\ nothing' = 0
  /\ UNCHANGED crash

Stop(v, why) == /\ crash' = why /\ moving' = FALSE /\ todo' = <<0, 0>>
                /\ vel' = v /\ speed2' = Square(v)
                /\ UNCHANGED nothing

Point(i) == [pos |-> Plus(pos, Points[i]), vel |-> vel, todo |-> todo]

\* What becomes of the points: any choice of what each can meet.
Outcomes ==
  LET can == [i \in DOMAIN Points |-> Segments(Point(i))] IN
  {o \in [DOMAIN Points -> UNION Range(can)] : \A i \in DOMAIN Points : o[i] \in can[i]}

Those(o, to) == {i \in DOMAIN Points : o[i].to = to}

\* The bounce that counts is drawn among the points that bounce, one by one.
Drawn(bs) ==
  LET n    == Len(Points)
      draw(i, c) == IF c = {} \/ \E b \in c : i - 1 < n - (b - 1) THEN c \cup {i} ELSE c IN
  FoldFunction(LAMBDA i, c : IF i \in bs THEN draw(i, c) ELSE c, {}, [i \in 1..n |-> n + 1 - i])

Rest(o, i) == <<AbsOf(todo[1] - o[i].by[1]), AbsOf(todo[2] - o[i].by[2])>>

\* The point with most left to do.
FirstPoint(o) == 1

LeastFar(o) ==
  FoldFunction(LAMBDA i, w : IF Rest(o, i)[1] > Rest(o, w)[1] \/ Rest(o, i)[2] > Rest(o, w)[2]
                             THEN i ELSE w,
               1, [i \in 1..Len(Points) |-> Len(Points) + 1 - i])

\* nothing_done
Stuck(v, t) ==
  IF nothing = 4 THEN Stop(v, "Unknown") /\ UNCHANGED pos
  ELSE /\ nothing' = nothing + 1
       /\ vel' = v /\ todo' = t /\ moving' = (t # <<0, 0>>)
       /\ speed2' = Square(v)
       /\ UNCHANGED <<pos, crash>>

Advance(d) ==
  /\ pos' = Plus(pos, d)
  /\ todo' = <<todo[1] - d[1], todo[2] - d[2]>>
  /\ moving' = (todo' # <<0, 0>>)
  /\ nothing' = 0
  /\ speed2' = Square(vel)
  /\ UNCHANGED <<vel, crash>>

\* Far from every wall.
Glide ==
  /\ moving /\ DistanceAt(pos) > 3
  /\ Advance(Clipped(todo, ((DistanceAt(pos) - 3) * Size) \div 2))

\* The first point that crashes ends it: where there is no way to fly on, or
\* in a treasure.
CrashAt ==
  \E o \in Outcomes :
    /\ Those(o, "crash") # {}
    /\ Stop(vel, o[Min(Those(o, "crash"))].why)
    /\ UNCHANGED pos

\* A point bounces: too fast, or without fuel, it is a crash.
BounceAt ==
  \E o \in Outcomes :
    /\ Those(o, "crash") = {}
    /\ \E i \in Drawn(Those(o, "bounce")) :
         LET v == Bounced(vel, o[i].wall) IN
         IF Square(vel) > MaxBounce * MaxBounce THEN Stop(v, "Speed") /\ UNCHANGED pos
         ELSE \/ Stop(v, "NoFuel") /\ UNCHANGED pos
              \/ Stuck(v, Bounced(todo, o[i].wall))

MoveAt ==
  \E o \in Outcomes :
    /\ Those(o, "moved") = DOMAIN Points
    /\ LET d == o[LeastFar(o)].by IN
       IF d = <<0, 0>> THEN Stuck(vel, todo) ELSE Advance(d)

NearWalls == moving /\ DistanceAt(pos) <= 3 /\ (CrashAt \/ BounceAt \/ MoveAt)

Next == MovePlayer \/ Glide \/ NearWalls
-----------------------------------------------------------------------------
(* No ship flies through a wall or into it with any of its points, as long *)
(* as a frame does not make it much faster: the test that spares it the    *)
(* walls looks at the speed of the frame before.                           *)
ShipsStayClear ==
  /\ Clear(pos)
  /\ crash # "Never"
  /\ crash \in {"Wall", "Trapped"} => 0 \in {vel[1], vel[2]}
=============================================================================
