------------------------------ MODULE MCParts ------------------------------
(***************************************************************************)
(* The parts of the server that work by themselves, side by side: a        *)
(* behaviour is one of one part, which unit names.  The parts this module  *)
(* extends have variables of their own, which stay as they begin in other  *)
(* units; the other parts share v1 to v7, and those that a part does not   *)
(* use stay 0.                                                             *)
(***************************************************************************)
EXTENDS TLC, SequencesExt, FiniteSetsExt, Integers,
        Watching, PlayerTable, FuelDisplay, ClientInput, Dispatch, Rank, Options, Balls, Cells, MapText, FrameView,
        Walldist

VARIABLES unit, v1, v2, v3, v4, v5, v6, v7

own    == <<watchVars, tableVars, fuelVars, inputVars, schedVars, rankVars, optionVars, ballVars, cellVars, mapVars,
            frameVars, wallVars>>
shared == <<v1, v2, v3, v4, v5, v6, v7>>
vars   == <<unit, own, shared>>
-----------------------------------------------------------------------------
\* Two players of two teams.
Two == (1 :> 1) @@ (2 :> 2)

\* A map with every kind of half block, a treasure, and walls on both sides
\* of a way between them: row by row, the lowest first.
Rows == <<<<"SPACE", "SPACE", "SPACE", "SPACE", "SPACE", "SPACE">>,
          <<"SPACE", "REC_RU", "SPACE", "SPACE", "SPACE", "SPACE">>,
          <<"SPACE", "SPACE", "FILLED", "REC_LD", "SPACE", "SPACE">>,
          <<"SPACE", "FILLED", "SPACE", "REC_LU", "SPACE", "SPACE">>,
          <<"REC_RD", "SPACE", "SPACE", "SPACE", "SPACE", "TREASURE">>>>

Blk    == INSTANCE Blocks WITH X <- 6, Y <- 5
Island == [b \in Blk!BlockGrid |-> Rows[b[2] + 1][b[1] + 1]] @@ <<>>
Near   == [b \in Blk!BlockGrid |-> Blk!WallDistance(Island, b)] @@ <<>>

\* A ship of four points.
Cross == <<<<2, 0>>, <<0, 2>>, <<-2, 0>>, <<0, -2>>>>

\* One wall or two, of any shape.
Squares == (0..4) \X (0..2)
Shapes  == {"FILLED", "REC_LD", "REC_RU"}
Maps    == UNION {{[b \in Squares |-> IF b \in s THEN k[b] ELSE "SPACE"] @@ <<>> : k \in [s -> Shapes]} :
                  s \in {{<<1, 1>>, b} : b \in Squares}}

\* Drawings of up to three lines, and two whose last line does not end.
Lines    == {<<>>, <<"x">>, <<"1", "*">>, <<"$", "1", "x">>, <<"*", "2", "x", "#">>, <<"_", "#", "$">>}
Ended(s) == FlattenSeq([k \in DOMAIN s |-> Append(s[k], "/")])
Sheets   == {Ended(s) : s \in UNION {[1..n -> Lines] : n \in 0..3}}
              \cup {<<"x", "/", "1">>, <<"1", "*", "2">>}

\* Around a corner of the world, and farther than it is wide.
Corners == {<<<<0, 0>>, 1>>, <<<<2, 1>>, 4>>}

\* A client that wants every frame of a narrow view, and others that want few
\* of one that is wider than the world. All are on everybody's radar.
Wish == {[c \in Seats |-> IF c = 1 THEN [size |-> <<2, 3>>, fps |-> 9] ELSE [size |-> <<3, 4>>, fps |-> 2]]}
Everybody == [c \in Seats |-> Seats]
-----------------------------------------------------------------------------
Obf == INSTANCE ObjectFlight WITH X <- 6, Y <- 5, Size <- 4, Map <- Island, Distance <- Near,
  Speeds <- {-9, -5, -1, 0, 3, 7}, MaxBounce <- 8, pos <- v1, vel <- v2, todo <- v3, nothing
  <- v4, moving <- v5, crash <- v6
Shi == INSTANCE ShipFlight WITH X <- 6, Y <- 5, Size <- 6, Map <- Island, Distance <- Near,
  Points <- Cross, Speeds <- {-9, -5, 0, 3, 7}, Thrust <- 5, MaxBounce <- 8, pos <- v1, vel <-
  v2, speed2 <- v3, todo <- v4, nothing <- v5, moving <- v6, crash <- v7
-----------------------------------------------------------------------------
Init ==
  /\ unit \in {"watching", "table", "fuel", "input", "dispatch", "rank", "options", "balls", "cells", "map",
              "walldist", "object", "ship", "frame"}
  /\ WalldistInit /\ (unit # "walldist" => measured = CHOOSE m \in Maps : TRUE)
  /\ WatchInit /\ TableInit /\ FuelInit /\ InputInit /\ SchedInit /\ RankInit /\ OptionsInit /\ BallsInit
  /\ CellsStart /\ (unit # "cells" => ~wrapped)
  /\ MapInit /\ (unit # "map" => mapText = <<>> /\ ~extraBorder /\ ~teamPlay /\ ~wrapPlay)
  /\ FrameInit /\ (unit # "frame" => ~wraps /\ \A n \in FrameRooms : bufferSize <= n)
  /\ \/ /\ unit \notin {"object", "ship"}
        /\ v1 = 0 /\ v2 = 0 /\ v3 = 0 /\ v4 = 0 /\ v5 = 0 /\ v6 = 0 /\ v7 = 0
     \/ unit = "object" /\ Obf!Init /\ v7 = 0
     \/ unit = "ship" /\ Shi!Init

OptionsStep ==
  /\ unit = "options" /\ OptionsNext
  /\ UNCHANGED <<unit, watchVars, tableVars, fuelVars, inputVars, schedVars,
                 rankVars, ballVars, cellVars, mapVars, frameVars, wallVars, shared>>
DispatchStep ==
  /\ unit = "dispatch" /\ SchedNext
  /\ UNCHANGED <<unit, watchVars, tableVars, fuelVars, inputVars, rankVars,
                 optionVars, ballVars, cellVars, mapVars, frameVars, wallVars, shared>>
WatchingStep ==
  /\ unit = "watching" /\ WatchNext
  /\ UNCHANGED <<unit, tableVars, fuelVars, inputVars, schedVars, rankVars,
                 optionVars, ballVars, cellVars, mapVars, frameVars, wallVars, shared>>
PlayerTableStep ==
  /\ unit = "table" /\ TableNext
  /\ UNCHANGED <<unit, watchVars, fuelVars, inputVars, schedVars, rankVars,
                 optionVars, ballVars, cellVars, mapVars, frameVars, wallVars, shared>>
FuelDisplayStep ==
  /\ unit = "fuel" /\ FuelNext
  /\ UNCHANGED <<unit, watchVars, tableVars, inputVars, schedVars, rankVars,
                 optionVars, ballVars, cellVars, mapVars, frameVars, wallVars, shared>>
ClientInputStep ==
  /\ unit = "input" /\ InputNext
  /\ UNCHANGED <<unit, watchVars, tableVars, fuelVars, schedVars, rankVars,
                 optionVars, ballVars, cellVars, mapVars, frameVars, wallVars, shared>>
\* The table is followed until a player who plays loses his node.
RankStep ==
  /\ unit = "rank" /\ ~spoiled /\ RankNext
  /\ UNCHANGED <<unit, watchVars, tableVars, fuelVars, inputVars, schedVars,
                 optionVars, ballVars, cellVars, mapVars, frameVars, wallVars, shared>>
BallsStep ==
  /\ unit = "balls" /\ BallsNext
  /\ UNCHANGED <<unit, watchVars, tableVars, fuelVars, inputVars, schedVars,
                 rankVars, optionVars, cellVars, mapVars, frameVars, wallVars, shared>>
CellsStep ==
  /\ unit = "cells" /\ CellsNext
  /\ UNCHANGED <<unit, watchVars, tableVars, fuelVars, inputVars, schedVars,
                 rankVars, optionVars, ballVars, mapVars, frameVars, wallVars, shared>>
MapTextStep ==
  /\ unit = "map" /\ MapNext
  /\ UNCHANGED <<unit, watchVars, tableVars, fuelVars, inputVars, schedVars,
                 rankVars, optionVars, ballVars, cellVars, frameVars, wallVars, shared>>
FrameViewStep ==
  /\ unit = "frame" /\ FrameNext
  /\ UNCHANGED <<unit, watchVars, tableVars, fuelVars, inputVars, schedVars,
                 rankVars, optionVars, ballVars, cellVars, mapVars, wallVars, shared>>
WalldistStep ==
  /\ unit = "walldist" /\ TakeBlock
  /\ UNCHANGED <<unit, watchVars, tableVars, fuelVars, inputVars, schedVars,
                 rankVars, optionVars, ballVars, cellVars, mapVars, frameVars, shared>>
ObjectFlightStep == unit = "object" /\ Obf!Next /\ UNCHANGED <<unit, own, v7>>
ShipFlightStep == unit = "ship" /\ Shi!Next /\ UNCHANGED <<unit, own>>

Next ==
  \/ OptionsStep \/ DispatchStep \/ WatchingStep \/ PlayerTableStep \/ FuelDisplayStep
  \/ ClientInputStep \/ RankStep \/ BallsStep \/ CellsStep \/ MapTextStep
  \/ WalldistStep \/ ObjectFlightStep \/ ShipFlightStep \/ FrameViewStep

Spec == Init /\ [][Next]_vars
-----------------------------------------------------------------------------
\* ObjectFlight: no object gets into a wall or past one, or stuck.
WallsAreTight == unit = "object" => Obf!WallsAreTight

\* ShipFlight: no point of a ship gets into a wall or past one.
ShipsStayClear == unit = "ship" => Shi!ShipsStayClear
=============================================================================
