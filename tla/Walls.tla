------------------------------- MODULE Walls -------------------------------
(***************************************************************************)
(* One segment of the flight of a point (walls.c, Move_segment): through   *)
(* blocks that are known to be far from any wall, or within one block,     *)
(* where it may meet a wall and bounce. Positions are integers, clicks;    *)
(* what is divided is rounded the way the code rounds it, so that a        *)
(* segment may end a click beside the line of flight.                      *)
(*                                                                         *)
(* A point m has a position, a velocity and what is left of the movement   *)
(* of the frame (move_state_t).                                            *)
(***************************************************************************)
EXTENDS Blocks

CONSTANTS
  Size,       \* BLOCK_CLICKS
  Map,        \* World.block
  Distance    \* walldist

Block(p)  == <<p[1] \div Size, p[2] \div Size>>
Wrap(p)   == <<p[1] % (X * Size), p[2] % (Y * Size)>>
Plus(p, d) == Wrap(<<p[1] + d[1], p[2] + d[2]>>)

\* The share of n / d that an (int) conversion leaves, and the one that
\* DOUBLE_TO_INT32 rounds to.
SignOf(n)      == IF n < 0 THEN -1 ELSE 1
Trunc(n, d)    == SignOf(n) * SignOf(d) * (AbsOf(n) \div AbsOf(d))
Rounded(n, d)  == SignOf(n) * SignOf(d) * ((2 * AbsOf(n) + AbsOf(d)) \div (2 * AbsOf(d)))

Square(v) == v[1] * v[1] + v[2] * v[2]

\* FLOAT_TO_CLICK
Clicks(v) == <<Trunc(v[1], 2), Trunc(v[2], 2)>>

DistanceAt(p) == Distance[Block(p)]

Walled == {"FILLED", "FUEL"}

\* A point that is not within a wall: on the edge of one at most.
FreePart(kind, off) ==
  CASE kind \in Halves -> LET c == OpenCorner(kind) IN
                          c[1] * (2 * off[1] - Size) + c[2] * (2 * off[2] - Size) >= 0
    [] kind \in Walled -> FALSE
    [] OTHER           -> TRUE

Free(p) ==
  \E bx \in {p[1] \div Size, (p[1] - 1) \div Size}, by \in {p[2] \div Size, (p[2] - 1) \div Size} :
    FreePart(Map[<<bx % X, by % Y>>], <<p[1] - bx * Size, p[2] - by * Size>>)

Everywhere == (0..X * Size - 1) \X (0..Y * Size - 1)
-----------------------------------------------------------------------------
\* The largest part of the movement t that keeps within max clicks.
Clipped(t, max) ==
  IF AbsOf(t[1]) <= max /\ AbsOf(t[2]) <= max THEN t
  ELSE IF AbsOf(t[1]) > AbsOf(t[2]) THEN <<SignOf(t[1]) * max, Trunc(t[2] * max, AbsOf(t[1]))>>
  ELSE <<Trunc(t[1] * max, AbsOf(t[2])), SignOf(t[2]) * max>>

\* What a segment comes to.
Moved(d)     == [to |-> "moved", by |-> d]
Bounce(wall) == [to |-> "bounce", wall |-> wall]
Crash(why)   == [to |-> "crash", why |-> why]

\* Collision_object_wall_check: the block a point on an edge is about to
\* enter, and the offset in it.
Entered(m) ==
  LET b     == Block(m.pos)
      off   == <<m.pos[1] % Size, m.pos[2] % Size>>
      back(k) == IF off[k] = 0 /\ m.vel[k] < 0 THEN 1 ELSE 0 IN
  [block  |-> At(b, -back(1), -back(2)),
   off    |-> <<off[1] + back(1) * Size, off[2] + back(2) * Size>>,
   inside |-> off[1] # 0 /\ off[2] # 0]

\* ... how far the movement goes in that block,
Within(off, vel, todo) ==
  LET stop(k) == IF vel[k] < 0
                 THEN IF off[k] + todo[k] < 0 THEN -off[k] ELSE todo[k]
                 ELSE IF off[k] + todo[k] > Size THEN Size - off[k] ELSE todo[k]
      d == <<stop(1), stop(2)>>
      x == AbsOf(d[1] * todo[2])
      y == AbsOf(d[2] * todo[1]) IN
  IF d = todo \/ 0 \in {todo[1], todo[2]} \/ x = y THEN d
  ELSE IF x > y THEN <<Rounded(todo[1] * d[2], todo[2]), d[2]>>
  ELSE <<d[1], Rounded(todo[2] * d[1], todo[1])>>

\* ... a solid block: the edges the object comes from outside to,
SolidBounces(off, vel) ==
  {w \in {"HorLo", "HorHi", "VerLo", "VerHi"} :
     CASE w = "HorLo" -> off[1] = 0 /\ vel[1] > 0
       [] w = "HorHi" -> off[1] = Size /\ vel[1] < 0
       [] w = "VerLo" -> off[2] = 0 /\ vel[2] > 0
       [] w = "VerHi" -> off[2] = Size /\ vel[2] < 0}

SolidMove(off, todo, d) ==
  IF \/ todo = <<0, 0>>
     \/ \E k \in {1, 2} : todo[k] = 0 /\ off[k] \in {0, Size}
  THEN Moved(d) ELSE Crash("Never")

\* ... a treasure: the upper half of its block is half a circle, which the
\* movement misses if three points of it do,
TreasureMove(off, d) ==
  LET end    == <<off[1] + d[1], off[2] + d[2]>>
      mid    == <<(off[1] + end[1]) \div 2, (off[2] + end[2]) \div 2>>
      beside(p) == LET x == 2 * p[1] - Size  y == 2 * p[2] - Size IN x * x + y * y > Size * Size IN
  IF 2 * off[2] > Size /\ 2 * end[2] > Size /\ \A p \in {off, mid, end} : beside(p)
  THEN Moved(d) ELSE Crash("Treasure")

\* ... and a half block, turned so that it is open to the upper right: REC_LD.
EdgeBounces(off, v) ==
  {w \in {"HorLo", "VerLo"} :
     CASE w = "HorLo" -> off[1] = 0 /\ v[1] > 0
       [] w = "VerLo" -> off[2] = 0 /\ v[2] > 0}

HalfBounces(off, v) ==
  EdgeBounces(off, v)
  \cup {w \in {"Diagonal"} : off \in {<<0, Size>>, <<Size, 0>>} /\ v[1] + v[2] < 0}

\* Up to the diagonal along the longer axis k.
ToDiagonal(off, t, k) ==
  LET rest  == Trunc((Size - off[1] - off[2]) * t[k], t[1] + t[2])
      on(n) == IF k = 1 THEN <<n, Trunc(n * t[2], t[1])>> ELSE <<Trunc(n * t[1], t[2]), n>>
      past  == off[1] + off[2] + on(rest)[1] + on(rest)[2] < Size
      n     == IF past THEN rest + 1 ELSE rest IN
  IF n = 0 THEN Bounce("Diagonal") ELSE Moved(on(n))

HalfMove(off, t, d) ==
  IF off[1] + off[2] < Size THEN Crash("Wall")
  ELSE IF off[1] + off[2] + d[1] + d[2] >= Size THEN Moved(d)
  ELSE ToDiagonal(off, t, IF AbsOf(t[1]) >= AbsOf(t[2]) THEN 1 ELSE 2)
-----------------------------------------------------------------------------
\* The other half blocks are mirrored: an offset, a movement, a bounce.
Mirror(kind, v) == LET c == OpenCorner(kind) IN <<c[1] * v[1], c[2] * v[2]>>

MirrorOff(kind, off) ==
  LET c == OpenCorner(kind) IN
  <<IF c[1] = 1 THEN off[1] ELSE Size - off[1], IF c[2] = 1 THEN off[2] ELSE Size - off[2]>>

MirrorWall(kind, w) ==
  CASE w = "HorLo" -> IF OpenCorner(kind)[1] = 1 THEN "HorLo" ELSE "HorHi"
    [] w = "VerLo" -> IF OpenCorner(kind)[2] = 1 THEN "VerLo" ELSE "VerHi"
    [] OTHER       -> w

\* Another wall is right behind the edge: nothing comes from there.
Across(block, w) ==
  CASE w = "HorLo" -> Map[At(block, -1, 0)]
    [] w = "HorHi" -> Map[At(block, 1, 0)]
    [] w = "VerLo" -> Map[At(block, 0, -1)]
    [] w = "VerHi" -> Map[At(block, 0, 1)]
    [] OTHER       -> "SPACE"

Facing(w) ==
  CASE w = "HorLo" -> {"REC_RU", "REC_RD"}
    [] w = "HorHi" -> {"REC_LU", "REC_LD"}
    [] w = "VerLo" -> {"REC_RU", "REC_LU"}
    [] w = "VerHi" -> {"REC_RD", "REC_LD"}
    [] OTHER       -> {}

Behind(block, w) == Across(block, w) \in Walled \cup Facing(w)

\* Any bounce that is possible; two that are not make a corner, and at the
\* end of a diagonal the object passes.
Chosen(block, kind, off, d, walls) ==
  LET open == {w \in walls : ~Behind(block, w)}
      turn == MirrorOff(kind, off) IN
  CASE open # {}                                        -> {Bounce(w) : w \in open}
    [] walls \in {{"HorLo", "VerLo"}, {"HorHi", "VerHi"}} -> {Bounce("Falling")}
    [] walls \in {{"HorLo", "VerHi"}, {"HorHi", "VerLo"}} -> {Bounce("Rising")}
    [] kind \in Halves /\ turn \in {<<0, Size>>, <<Size, 0>>} -> {Moved(d)}
    [] OTHER -> {Crash("Trapped")}

\* The walls that a diagonal stands for: one that falls or one that rises.
Slope(kind, w) ==
  IF w # "Diagonal" THEN w
  ELSE IF kind \in {"REC_LD", "REC_RU"} THEN "Falling" ELSE "Rising"

\* Collision_object_wall_check.
WallCheck(m) ==
  LET e     == Entered(m)
      kind  == Map[e.block]
      d     == Within(e.off, m.vel, m.todo)
      turn  == MirrorOff(kind, e.off)
      half  == {MirrorWall(kind, w) : w \in HalfBounces(turn, Mirror(kind, m.vel))}
      walls == IF kind \in Halves THEN {Slope(kind, w) : w \in half} ELSE SolidBounces(e.off, m.vel)
      there == HalfMove(turn, Mirror(kind, m.todo), Mirror(kind, d)) IN
  CASE kind \notin Solid                   -> {Moved(d)}
    [] kind = "TREASURE"                   -> {TreasureMove(e.off, d)}
    [] kind \notin Halves /\ e.inside      -> {Crash("Wall")}
    [] walls # {}                          -> Chosen(e.block, kind, e.off, d, walls)
    [] kind \notin Halves                  -> {SolidMove(e.off, m.todo, d)}
    [] there.to = "bounce"                 -> {Bounce(Slope(kind, "Diagonal"))}
    [] there.to = "moved"                  -> {Moved(Mirror(kind, there.by))}
    [] OTHER                               -> {there}

\* Move_segment.
Segments(m) ==
  IF DistanceAt(m.pos) > 2
  THEN {Moved(Clipped(m.todo, ((DistanceAt(m.pos) - 2) * Size) \div 2))}
  ELSE WallCheck(m)

\* Bounce_wall.
Bounced(v, wall) ==
  CASE wall \in {"HorLo", "HorHi"} -> <<-v[1], v[2]>>
    [] wall \in {"VerLo", "VerHi"} -> <<v[1], -v[2]>>
    [] wall = "Falling"            -> <<-v[2], -v[1]>>
    [] wall = "Rising"             -> <<v[2], v[1]>>
=============================================================================
