------------------------------ MODULE MapText ------------------------------
(***************************************************************************)
(* The map (map.c): Map_parse reads the drawing of a map one character at  *)
(* a time, row by row from the top, and makes a block of each; bases,      *)
(* treasures and fuel stations are numbered and given to teams, and bases  *)
(* are turned to the attractor beside them.                                *)
(*                                                                         *)
(* A drawing is a sequence of characters in which "/" ends a line.         *)
(***************************************************************************)
EXTENDS Integers, Sequences, FiniteSets

CONSTANTS
  Drawings,             \* mapData
  MapWidth, MapHeight   \* mapWidth, mapHeight

\* The code reads on behind a drawing that ends in a line that is too long and
\* not ended.
ASSUME MapAssumption ==
  /\ MapWidth \in Nat \ {0} /\ MapHeight \in Nat \ {0}
  /\ \A t \in Drawings :
       /\ t \in Seq(STRING)
       /\ \A k \in DOMAIN t : (\A j \in k..Len(t) : t[j] # "/") => Len(t) - k < MapWidth

VARIABLES
  mapText, extraBorder, teamPlay, wrapPlay,   \* the options
  mapPhase,          \* "read", "objects", "treasures", "fuels", "turn" or "done"
  column, row,       \* x and y of the loops over the blocks
  reading,           \* s: the character that is read next
  number,            \* i of the loops over treasures and fuel stations
  worldBlock,        \* World.block: by block, what is drawn there
  bases,             \* World.base: where, of which team, which way
  treasures, fuels,  \* World.treasures, World.fuel: where, of which team
  teams,             \* World.teams
  numTeamBases

mapOptions == <<mapText, extraBorder, teamPlay, wrapPlay>>
mapPlace   == <<column, row, reading, number>>
mapObjects == <<bases, treasures, fuels, teams, numTeamBases>>
mapVars    == <<mapOptions, mapPhase, mapPlace, worldBlock, mapObjects>>

Nobody  == -1    \* NULL
NoBlock == "?"
Border  == IF extraBorder THEN 1 ELSE 0
SizeX   == MapWidth + 2 * Border
SizeY   == MapHeight + 2 * Border
MapGrid == (0..SizeX - 1) \X (0..SizeY - 1)

TeamNumbers == 0..9
Digits      == <<"0", "1", "2", "3", "4", "5", "6", "7", "8", "9">>
BaseTags    == {"_"} \cup {Digits[k] : k \in DOMAIN Digits}

MapInit ==
  /\ mapText \in Drawings
  /\ extraBorder \in BOOLEAN /\ teamPlay \in BOOLEAN /\ wrapPlay \in BOOLEAN
  /\ mapPhase = "read" /\ column = 0 /\ row = SizeY - 1 /\ reading = 1 /\ number = 1
  /\ worldBlock = [b \in MapGrid |-> NoBlock]
  /\ bases = <<>> /\ treasures = <<>> /\ fuels = <<>> /\ numTeamBases = 0
  /\ teams = [t \in TeamNumbers |-> [numBases |-> 0, numTreasures |-> 0]]
-----------------------------------------------------------------------------
(* The drawing. *)

InBorder == extraBorder /\ (row \in {0, SizeY - 1} \/ column \in {0, SizeX - 1})

NextRow ==
  /\ column' = 0
  /\ IF row = 0 THEN row' = 0 /\ mapPhase' = "objects" ELSE row' = row - 1 /\ UNCHANGED mapPhase
  /\ UNCHANGED worldBlock

\* Without teams there are no treasures.
Tag(c) == IF c = "*" /\ ~teamPlay THEN " " ELSE c

Draw(c) ==
  /\ worldBlock' = [worldBlock EXCEPT ![<<column, row>>] = Tag(c)]
  /\ column' = column + 1
  /\ UNCHANGED <<row, mapPhase>>

\* The extra border takes nothing from the drawing.
InTheBorder ==
  /\ InBorder
  /\ IF column >= SizeX THEN NextRow ELSE Draw("x")
  /\ UNCHANGED reading

\* The characters of lines.
Tags == {k \in DOMAIN mapText : mapText[k] # "/"}

\* A line that is too short is filled up with space, and its end is read again.
Missing == column < SizeX /\ reading \notin Tags

EndTaken(k) == k + 1

Reread(k) == k

FillUp == Missing /\ Draw(" ") /\ reading' = Reread(reading)

\* The end of the line, to which what is too long is skipped.
LineEnd ==
  CHOOSE k \in reading..Len(mapText) :
    mapText[k] = "/" /\ \A j \in reading..k - 1 : mapText[j] # "/"

EndOfRow ==
  /\ column >= SizeX
  /\ NextRow
  /\ reading' = IF reading > Len(mapText) THEN reading ELSE LineEnd + 1

InTheDrawing ==
  /\ ~InBorder
  /\ \/ FillUp
     \/ EndOfRow
     \/ column < SizeX /\ ~Missing /\ Draw(mapText[reading]) /\ reading' = reading + 1

Read ==
  /\ mapPhase = "read"
  /\ InTheBorder \/ InTheDrawing
  /\ UNCHANGED <<mapOptions, number, mapObjects>>
-----------------------------------------------------------------------------
(* The objects: every block that is one is numbered, and gets an entry. *)

\* The team a character gives a base to.
TeamOf(c) == IF c = "_" THEN 0 ELSE CHOOSE t \in TeamNumbers : Digits[t + 1] = c

Owned(b, t) == [at |-> b, team |-> t]

CountBase(b) ==
  LET t == IF teamPlay THEN TeamOf(worldBlock[b]) ELSE Nobody IN
  /\ bases' = Append(bases, [at |-> b, team |-> t, dir |-> "up"])
  /\ IF teamPlay
     THEN /\ teams' = [teams EXCEPT ![t].numBases = @ + 1]
          /\ numTeamBases' = numTeamBases + (IF teams[t].numBases = 0 THEN 1 ELSE 0)
     ELSE UNCHANGED <<teams, numTeamBases>>

MakeObject ==
  /\ mapPhase = "objects"
  /\ LET b == <<column, row>>  c == worldBlock[b] IN
     /\ IF c \in BaseTags THEN CountBase(b) ELSE UNCHANGED <<bases, teams, numTeamBases>>
     /\ treasures' = IF c = "*" THEN Append(treasures, Owned(b, Nobody)) ELSE treasures
     /\ fuels' = IF c = "#" THEN Append(fuels, Owned(b, Nobody)) ELSE fuels
  /\ IF row < SizeY - 1 THEN row' = row + 1 /\ UNCHANGED <<column, mapPhase>>
     ELSE /\ row' = 0
          /\ column' = column + 1
          /\ mapPhase' = IF column < SizeX - 1 THEN "objects" ELSE IF teamPlay THEN "treasures" ELSE "turn"
  /\ UNCHANGED <<mapOptions, reading, number, worldBlock>>

\* WRAP_DX and WRAP_DY: the shorter way, around the world if that is allowed.
Along(d, size) ==
  CASE ~wrapPlay                -> d
    [] wrapPlay /\ 2 * d < -size -> d + size
    [] wrapPlay /\ 2 * d > size  -> d - size
    [] OTHER                    -> d

Far(a, b) == LET dx == Along(a[1] - b[1], SizeX)  dy == Along(a[2] - b[2], SizeY) IN dx * dx + dy * dy

\* Map_get_closest_team: the first of the bases that are nearest.
ClosestTeam(b) ==
  LET best[k \in 0..Len(bases)] ==
        IF k = 0 THEN 0
        ELSE IF best[k - 1] = 0 \/ Far(bases[k].at, b) < Far(bases[best[k - 1]].at, b) THEN k
        ELSE best[k - 1]
  IN IF best[Len(bases)] = 0 THEN Nobody ELSE bases[best[Len(bases)]].team

GiveTreasure ==
  /\ mapPhase = "treasures"
  /\ IF number > Len(treasures)
     THEN mapPhase' = "fuels" /\ number' = 1 /\ UNCHANGED <<treasures, teams>>
     ELSE LET t == ClosestTeam(treasures[number].at) IN
          /\ treasures' = [treasures EXCEPT ![number] = Owned(treasures[number].at, t)]
          /\ teams' = IF t = Nobody THEN teams ELSE [teams EXCEPT ![t].numTreasures = @ + 1]
          /\ number' = number + 1 /\ UNCHANGED mapPhase
  /\ UNCHANGED <<mapOptions, column, row, reading, worldBlock, bases, fuels, numTeamBases>>

GiveFuel ==
  /\ mapPhase = "fuels"
  /\ IF number > Len(fuels) THEN mapPhase' = "turn" /\ UNCHANGED <<number, fuels>>
     ELSE /\ fuels' = [fuels EXCEPT ![number] = Owned(fuels[number].at, ClosestTeam(fuels[number].at))]
          /\ number' = number + 1 /\ UNCHANGED mapPhase
  /\ UNCHANGED <<mapOptions, column, row, reading, worldBlock, bases, treasures, teams, numTeamBases>>
-----------------------------------------------------------------------------
(* Map_compute_base_direction. *)

Directions == {"up", "down", "right", "left"}

GoneAround(n, size) == IF n < 0 THEN n + size ELSE IF n >= size THEN n - size ELSE n

NextTo(b, dir) ==
  CASE dir = "up"    -> <<b[1], b[2] + 1>>
    [] dir = "down"  -> <<b[1], b[2] - 1>>
    [] dir = "right" -> <<b[1] + 1, b[2]>>
    [] dir = "left"  -> <<b[1] - 1, b[2]>>

\* Beside a block, at the edge of the map only if the world goes around.
Beside(b, dir) ==
  LET n == NextTo(b, dir) IN
  IF wrapPlay THEN {<<GoneAround(n[1], SizeX), GoneAround(n[2], SizeY)>>} ELSE {n} \cap MapGrid

Attracted(b, dir) == \E n \in Beside(b, dir) : worldBlock[n] = "$"

Facing(b) ==
  IF Attracted(b, "up") THEN "up" ELSE IF Attracted(b, "down") THEN "down"
  ELSE IF Attracted(b, "right") THEN "right" ELSE IF Attracted(b, "left") THEN "left" ELSE "up"

\* The attractors vanish when every base is turned.
TurnBases ==
  /\ mapPhase = "turn" /\ mapPhase' = "done"
  /\ bases' = [k \in DOMAIN bases |-> [at |-> bases[k].at, team |-> bases[k].team, dir |-> Facing(bases[k].at)]]
  /\ worldBlock' = [b \in MapGrid |-> IF worldBlock[b] = "$" THEN " " ELSE worldBlock[b]]
  /\ UNCHANGED <<mapOptions, mapPlace, treasures, fuels, teams, numTeamBases>>

MapNext == Read \/ MakeObject \/ GiveTreasure \/ GiveFuel \/ TurnBases

MapSpec == MapInit /\ [][MapNext]_mapVars
-----------------------------------------------------------------------------
(* The drawing as one sees it. *)

\* The character k stands in column c of a line, of which there are some above.
Above(k) == Cardinality({j \in 1..k : mapText[j] = "/"})

Stands(k, line, c) ==
  /\ c <= k /\ Above(k) = line
  /\ k = c \/ mapText[k - c] = "/"
  /\ \A j \in k - c + 1..k : mapText[j] # "/"

OnBorder(b) == extraBorder /\ (b[1] \in {0, SizeX - 1} \/ b[2] \in {0, SizeY - 1})

Drawn(b) ==
  LET at(k) == Stands(k, MapHeight - 1 - (b[2] - Border), b[1] - Border + 1) IN
  IF OnBorder(b) THEN "x"
  ELSE IF \E k \in DOMAIN mapText : at(k) THEN mapText[CHOOSE k \in DOMAIN mapText : at(k)] ELSE " "

\* The objects of a kind: one for each block that is drawn so.
OneEach(objects, Is(_)) ==
  /\ \A j, k \in DOMAIN objects : objects[j].at = objects[k].at => j = k
  /\ {objects[k].at : k \in DOMAIN objects} = {b \in MapGrid : Is(Drawn(b))}

NearestHas(e) ==
  IF bases = <<>> THEN e.team = Nobody
  ELSE \E k \in DOMAIN bases :
         bases[k].team = e.team /\ \A j \in DOMAIN bases : Far(bases[k].at, e.at) <= Far(bases[j].at, e.at)

(* The map is what was drawn, though lines are too short, too long or      *)
(* missing: each block is in its place and each object has its entry, a    *)
(* treasure belongs to a team whose base is nearest, the teams' counts are *)
(* of what they have, and a base faces an attractor if there is one beside *)
(* it.                                                                     *)
MapIsAsDrawn ==
  mapPhase = "done" =>
    /\ \A b \in MapGrid : worldBlock[b] = IF Drawn(b) = "$" THEN " " ELSE Tag(Drawn(b))
    /\ OneEach(bases, LAMBDA c : c \in BaseTags)
    /\ OneEach(treasures, LAMBDA c : c = "*" /\ teamPlay)
    /\ OneEach(fuels, LAMBDA c : c = "#")
    /\ \A k \in DOMAIN bases :
         (\E dir \in Directions : \E n \in Beside(bases[k].at, dir) : Drawn(n) = "$")
           => \E n \in Beside(bases[k].at, bases[k].dir) : Drawn(n) = "$"
    /\ teamPlay =>
         /\ \A k \in DOMAIN treasures : NearestHas(treasures[k])
         /\ \A k \in DOMAIN fuels : NearestHas(fuels[k])
         /\ \A t \in TeamNumbers :
              /\ teams[t].numBases = Cardinality({b \in MapGrid : Drawn(b) \in BaseTags /\ TeamOf(Drawn(b)) = t})
              /\ teams[t].numTreasures = Cardinality({k \in DOMAIN treasures : treasures[k].team = t})
         /\ numTeamBases = Cardinality({t \in TeamNumbers : teams[t].numBases > 0})
=============================================================================
