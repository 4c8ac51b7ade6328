------------------------------ MODULE Walldist ------------------------------
(***************************************************************************)
(* Walldist_init (walls.c): a breadth-first search from all walls at once, *)
(* with a circular queue of as many entries as the map has blocks.         *)
(***************************************************************************)
EXTENDS Blocks

CONSTANT WallMaps     \* the maps to measure

ASSUME WalldistAssumption ==
  X \in Nat \ {0} /\ Y \in Nat \ {0} /\ \A m \in WallMaps : DOMAIN m = BlockGrid

VARIABLES
  measured,       \* World.block
  walldist,
  queue, qfront, qback,
  lapped          \* history: the queue was full, and what it held was lost

wallVars == <<measured, walldist, queue, qfront, qback, lapped>>

NumBlocks == X * Y
Places    == 0..NumBlocks - 1

\* The blocks of the map, column by column.
InOrder(n) == <<(n - 1) \div Y, (n - 1) % Y>>

\* One block: walls go to the back of the queue.
Noted(m, n, s) ==
  IF m[InOrder(n)] \in Solid
  THEN [queue |-> [s.queue EXCEPT ![s.qback] = InOrder(n)], qback |-> s.qback + 1]
  ELSE s

WallsOf(m) ==
  LET after[n \in 0..NumBlocks] ==
        IF n = 0 THEN [queue |-> [i \in Places |-> <<0, 0>>], qback |-> 0] ELSE Noted(m, n, after[n - 1])
  IN after[NumBlocks]

WalldistInit ==
  /\ measured \in WallMaps
  /\ walldist = [b \in BlockGrid |-> IF measured[b] \in Solid THEN 0 ELSE MaxDist]
  /\ queue = WallsOf(measured).queue
  /\ qfront = 0 /\ qback = WallsOf(measured).qback /\ lapped = FALSE
-----------------------------------------------------------------------------
PastAnyCorner(b, d) ==
  walldist[b] + 2 + (IF walldist[b] = 0 /\ measured[b] \in Halves /\ 0 \notin {d[1], d[2]} THEN 1 ELSE 0)

\* Two half blocks per block, and one more past the open corner of a half block.
NewDist(b, d) ==
  walldist[b] + 2 + (IF walldist[b] = 0 /\ d = OpenCorner(measured[b]) THEN 1 ELSE 0)

\* The neighbours of a block, in their order; it is one of them.
Side(n) == <<((n - 1) \div 3) - 1, ((n - 1) % 3) - 1>>

Further(i) == IF i + 1 = NumBlocks THEN 0 ELSE i + 1

\* One neighbour: what is nearer than was known goes to the back of the queue.
Neared(b, d, front, s) ==
  LET n    == At(b, d[1], d[2])
      dist == NewDist(b, d) IN
  IF dist < s.walldist[n]
  THEN [walldist |-> [s.walldist EXCEPT ![n] = dist],
        queue    |-> [s.queue EXCEPT ![s.qback] = n],
        qback    |-> Further(s.qback),
        lapped   |-> s.lapped \/ Further(s.qback) = front]
  ELSE s

Search == [walldist |-> walldist, queue |-> queue, qback |-> qback, lapped |-> lapped]

\* All of them, unless no byte can tell what is farther.
AllNeared(b, front) ==
  LET after[n \in 0..9] == IF n = 0 THEN Search ELSE Neared(b, Side(n), front, after[n - 1])
  IN IF walldist[b] + 2 < 255 THEN after[9] ELSE Search

TakeBlock ==
  /\ qfront # qback
  /\ qfront' = Further(qfront)
  /\ LET s == AllNeared(queue[qfront], qfront') IN
     walldist' = s.walldist /\ queue' = s.queue /\ qback' = s.qback /\ lapped' = s.lapped
  /\ UNCHANGED measured

WalldistSpec == WalldistInit /\ [][TakeBlock]_wallVars
-----------------------------------------------------------------------------
(* When the search is over, every block is as far from the nearest wall as *)
(* walldist says, so that what moves less in a frame cannot meet a wall:   *)
(* no entry of the queue was overwritten, and no block was reached by a    *)
(* longer way first and left at that.                                      *)
DistancesAreTrue ==
  qfront = qback => \A b \in BlockGrid : walldist[b] = WallDistance(measured, b)
=============================================================================
