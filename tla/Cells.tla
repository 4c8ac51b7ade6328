------------------------------- MODULE Cells -------------------------------
(***************************************************************************)
(* The cells of collision detection (collision.c, server.c): in every      *)
(* frame the objects are chained up by the block they are in, the chains   *)
(* are searched around every player, and all is undone.  The links are in  *)
(* the objects, whose structures are used again and again.                 *)
(*                                                                         *)
(* Left out: the limit of the list that a search makes, which is as long   *)
(* as Obj[].                                                               *)
(***************************************************************************)
EXTENDS Integers, Sequences, Functions

CONSTANTS
  WorldX, WorldY,  \* World.x, World.y
  NumObjs,         \* NumObjs: objects are named by their index in Obj[]
  Searches         \* around which block, and how far: around the players

Grid == (0..WorldX - 1) \X (0..WorldY - 1)

ASSUME CellsAssumption ==
  /\ WorldX \in Nat \ {0} /\ WorldY \in Nat \ {0} /\ NumObjs \in Nat
  /\ Searches \subseteq Grid \X Nat

Flying   == 1..NumObjs
NoObject == 0

VARIABLES
  wrapped,     \* WRAP_PLAY
  cellPhase,   \* of Main_loop: "move" or "collide"
  block,       \* by object: where it is
  lapsed,      \* Object_is_expired
  cells,       \* Cells: the tail of the chain of a block
  used,        \* UsedCells
  prev, next   \* cell_prev, cell_next

links    == <<cells, used, prev, next>>
cellVars == <<wrapped, cellPhase, block, lapsed, links>>

CellsStart ==
  /\ wrapped \in BOOLEAN /\ cellPhase = "move"
  /\ block = [o \in Flying |-> <<0, 0>>] /\ lapsed = {}
  /\ cells = [b \in Grid |-> NoObject] /\ used = <<>>
  /\ prev = [o \in Flying |-> NoObject] /\ next = prev
-----------------------------------------------------------------------------
\* Objects fly, expire, and are replaced by new ones.
Fly ==
  /\ cellPhase = "move"
  /\ \E o \in Flying, b \in Grid, ends \in BOOLEAN :
       /\ block' = [block EXCEPT ![o] = b]
       /\ lapsed' = IF ends THEN lapsed \cup {o} ELSE lapsed \ {o}
  /\ UNCHANGED <<wrapped, cellPhase, links>>

Links == [cells |-> cells, used |-> used, prev |-> prev, next |-> next]

LinksBecome(s) == /\ cells' = s.cells /\ used' = s.used
                  /\ prev' = s.prev /\ next' = s.next

\* Into the chain of its block.
Chained(s, o) ==
  LET cell == block[o]
      tail == s.cells[cell] IN
  [cells |-> [s.cells EXCEPT ![cell] = o],
   used  |-> IF tail = NoObject THEN Append(s.used, cell) ELSE s.used,
   prev  |-> [s.prev EXCEPT ![o] = tail],
   next  |-> IF tail = NoObject THEN s.next ELSE [s.next EXCEPT ![tail] = o]]

AllChained(s) ==
  LET after[o \in 0..NumObjs] ==
        IF o = 0 THEN s ELSE IF o \in lapsed THEN after[o - 1] ELSE Chained(after[o - 1], o)
  IN after[NumObjs]

CellsInit ==
  /\ cellPhase = "move" /\ cellPhase' = "collide"
  /\ LinksBecome(AllChained(Links))
  /\ UNCHANGED <<wrapped, block, lapsed>>

\* A collision, maybe: what expires remains in its chain.
ObjectsCollide ==
  /\ cellPhase = "collide"
  /\ \E o \in Flying \ lapsed : lapsed' = lapsed \cup {o}
  /\ UNCHANGED <<wrapped, cellPhase, block, links>>

\* Along a chain, from its tail.
Walk(s, tail) ==
  LET Before(o) == IF o = NoObject THEN NoObject ELSE s.prev[o]
      at[k \in 0..NumObjs] == IF k = 0 THEN tail ELSE Before(at[k - 1])
  IN at

OnChain(s, cell) == Range(Walk(s, s.cells[cell])) \ {NoObject}

\* Collision_cells_cleanup, for one cell: every link is cut at both ends.
Unchained(s, cell) ==
  [s EXCEPT
     !.prev = [o \in Flying |-> IF o \in OnChain(s, cell) THEN NoObject ELSE s.prev[o]],
     !.next = [o \in Flying |-> IF \E p \in OnChain(s, cell) : s.prev[p] = o THEN NoObject ELSE s.next[o]]]

KeptTail(s, cell) == Unchained(s, cell)

Cleaned(s, cell) == [Unchained(s, cell) EXCEPT !.cells[cell] = NoObject]

\* From the last of UsedCells to the first.
AllCleaned(s) ==
  LET after[k \in 0..Len(s.used)] ==
        IF k = 0 THEN s ELSE Cleaned(after[k - 1], s.used[Len(s.used) + 1 - k])
  IN [after[Len(s.used)] EXCEPT !.used = <<>>]

CellsCleanup ==
  /\ cellPhase = "collide" /\ cellPhase' = "move"
  /\ LinksBecome(AllCleaned(Links))
  /\ UNCHANGED <<wrapped, block, lapsed>>

CellsNext == Fly \/ CellsInit \/ ObjectsCollide \/ CellsCleanup

CellsSpec == CellsStart /\ [][CellsNext]_cellVars
-----------------------------------------------------------------------------
(* Collision_cells_objects_get. *)

Lesser(a, b) == IF a < b THEN a ELSE b

\* How far a search goes; around a small world, not far enough to meet itself
\* by more than a row.
Radius(r) ==
  IF ~wrapped THEN Lesser(Lesser(r, WorldX), WorldY)
  ELSE LET rx == IF 2 * r > WorldX THEN WorldX \div 2 ELSE r
       IN IF 2 * rx > WorldY THEN WorldY \div 2 ELSE rx

Around(n, size) == IF n < 0 THEN n + size ELSE IF n >= size THEN n - size ELSE n

\* The block that is d columns and rows from b.
CellAt(b, d) ==
  IF wrapped THEN <<Around(b[1] + d[1], WorldX), Around(b[2] + d[2], WorldY)>>
  ELSE <<b[1] + d[1], b[2] + d[2]>>

\* The columns and rows of a search.
Span(b, r) ==
  {d \in (-Radius(r)..Radius(r)) \X (-Radius(r)..Radius(r)) : CellAt(b, d) \in Grid}

\* The list a search makes: the objects by the block and by the place in its
\* chain that they are met at.
ObjectList(b, r) ==
  LET walk == [d \in Span(b, r) |-> Walk(Links, cells[CellAt(b, d)])] IN
  [h \in {e \in Span(b, r) \X (0..NumObjs) : walk[e[1]][e[2]] # NoObject} |-> walk[h[1]][h[2]]]
-----------------------------------------------------------------------------
Apart(m, n, size) ==
  LET d == IF m < n THEN n - m ELSE m - n
  IN IF wrapped THEN Lesser(d, size - d) ELSE d

Within(b, r) ==
  {o \in Flying : Apart(block[o][1], b[1], WorldX) <= r /\ Apart(block[o][2], b[2], WorldY) <= r}

(* Every chain ends. The search around a block finds every object that is  *)
(* within the radius, across the borders too, and nothing that is farther  *)
(* off or was there in an earlier frame; in a world that is wider than the *)
(* search, it finds each once. Between the frames nothing is linked.       *)
CellsAreTrue ==
  /\ cellPhase = "collide" =>
       /\ \A b \in Grid : Walk(Links, cells[b])[NumObjs] = NoObject
       /\ \A search \in Searches :
            LET b == search[1]  r == search[2]  found == ObjectList(b, r)  objects == Range(found) IN
            /\ Within(b, Radius(r)) \ lapsed \subseteq objects
            /\ objects \subseteq Within(b, Radius(r))
            /\ (wrapped => 2 * Radius(r) < WorldX /\ 2 * Radius(r) < WorldY) => IsInjective(found)
  /\ cellPhase = "move" => used = <<>> /\ \A o \in Flying : prev[o] = NoObject /\ next[o] = NoObject
=============================================================================
