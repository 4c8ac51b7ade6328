------------------------------- MODULE Blocks -------------------------------
(***************************************************************************)
(* The blocks of a map, with WRAP_PLAY: the world is a torus.  A block is  *)
(* open, solid, or solid in one half below or above a diagonal; the half   *)
(* blocks are named after the corner that is solid (map.h).                *)
(***************************************************************************)
EXTENDS Integers, FiniteSetsExt

CONSTANTS X, Y    \* World.x, World.y

BlockGrid == (0..X - 1) \X (0..Y - 1)

Halves == {"REC_LD", "REC_LU", "REC_RD", "REC_RU"}
Solid  == Halves \cup {"FILLED", "FUEL", "TREASURE"}     \* WALLDIST_MASK

\* WRAP_XBLOCK and WRAP_YBLOCK.
At(b, dx, dy) == <<(b[1] + dx) % X, (b[2] + dy) % Y>>

\* The corner of a half block that is open, seen from its middle.
OpenCorner(kind) ==
  CASE kind = "REC_LD" -> <<1, 1>>
    [] kind = "REC_LU" -> <<1, -1>>
    [] kind = "REC_RD" -> <<-1, 1>>
    [] kind = "REC_RU" -> <<-1, -1>>
    [] OTHER           -> <<0, 0>>

AbsOf(n) == IF n < 0 THEN -n ELSE n

Blocks(dx, dy) == IF AbsOf(dx) > AbsOf(dy) THEN AbsOf(dx) ELSE AbsOf(dy)

\* From b to the wall that is dx and dy blocks off, in half blocks: half a
\* block more where the open corner of a half block faces b.
Gap(map, b, dx, dy) ==
  LET k    == Blocks(dx, dy)
      open == OpenCorner(map[At(b, dx, dy)]) IN
  2 * k + (IF k > 0 /\ <<-dx, -dy>> = <<k * open[1], k * open[2]>> THEN 1 ELSE 0)

\* No distance is larger: walldist has bytes.
MaxDist == LET side == IF X < Y THEN X ELSE Y IN IF 2 * side > 255 THEN 255 ELSE 2 * side

\* What walldist promises: the distance to the nearest wall, times 2.
WallDistance(map, b) ==
  LET offsets == {o \in (-X..X) \X (-Y..Y) : map[At(b, o[1], o[2])] \in Solid} IN
  Min({MaxDist} \cup {Gap(map, b, o[1], o[2]) : o \in offsets})
=============================================================================
