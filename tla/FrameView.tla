----------------------------- MODULE FrameView -----------------------------
(***************************************************************************)
(* A frame for every client (frame.c, netserver.c): who gets one, from     *)
(* whose place it is seen, what of the world is in view, and how it is     *)
(* packed.  Shots are collected by area of the screen in arrays that all   *)
(* clients share, and are sent as offsets within their area; ships and     *)
(* radar blips have places of their own.  What finds no room in the packet *)
(* is left out.  Players are named by their index in Players[], shots by   *)
(* one of their own.                                                       *)
(*                                                                         *)
(* Left out: balls, wreckage and lines, which are sent as ships are;       *)
(* sparks, which are sent as shots are; fuel stations (FuelDisplay); the   *)
(* coarser places on the radar; colours.                                   *)
(***************************************************************************)
EXTENDS Integers, Sequences, FiniteSets

CONSTANTS
  PixelsX, PixelsY,          \* World.width, World.height
  NumSeats, Bots,            \* NumPlayers, and who of them has no client
  NumShots,                  \* how many shots are in Obj[]
  Displays,                  \* the views and player_fps that clients may ask for
  Radars,                    \* by player, whom he has on the radar: all, or his team
  AreaSize, MaxView,         \* 256, MAX_VIEW_SIZE
  PerArea,                   \* 255: what one packet of shots can tell
  FrameRooms, WriteSpare,    \* sizes of connp->w, and SOCKBUF_WRITE_SPARE of it
  FrameFps, FrameDivisor,    \* fps, frameDivisor
  MovingShips, MovingShots   \* bounds: who moves

Seats  == 1..NumSeats
Shots  == 1..NumShots
Axes   == {1, 2}
Pixels == (0..PixelsX - 1) \X (0..PixelsY - 1)
Nowhere == 0

Started == 42   \* Send_start_of_frame and Send_self, in bytes

ASSUME FrameAssumption ==
  /\ PixelsX \in Nat \ {0} /\ PixelsY \in Nat \ {0} /\ NumSeats \in 1..255 /\ NumShots \in Nat
  /\ AreaSize \in Nat \ {0} /\ MaxView \in Nat \ {0} /\ PerArea \in Nat
  /\ Displays \subseteq [Seats -> [size : (1..MaxView) \X (1..MaxView), fps : Nat \ {0}]]
  /\ Radars \in [Seats -> SUBSET Seats] /\ Bots \subseteq Seats
  /\ WriteSpare \in Nat /\ WriteSpare >= 5
  /\ FrameRooms \subseteq {n \in Nat : n > Started + WriteSpare}
  /\ FrameFps \in Nat \ {0} /\ FrameDivisor \in Nat \ {0}

VARIABLES
  upNext,          \* of the loop over Players[]; 0 outside of it
  wraps,           \* WRAP_PLAY
  shipAt, shotAt,  \* where everything is in this frame
  condition,       \* by player: "alive", "dead" (and recovered) or "returning"
  lockedOn,        \* by player: lock.object, or Nowhere
  display,         \* by player: view_width and view_height, player_fps
  bufferSize,      \* of connp->w
  frameCycle,      \* frame_cycle
  drawers,         \* fastshot_ptr: by area, the offsets collected
  screen,          \* by player: the frame the client got, or NoFrame
  framesGot        \* history: by player, how many in this cycle

scene     == <<wraps, shipAt, shotAt, condition, lockedOn, display, bufferSize>>
frameVars == <<upNext, scene, frameCycle, drawers, screen, framesGot>>

\* A frame that finds no room for PKT_END is dropped: it is broken.
NoFrame  == [got |-> "nothing", items |-> {}]
Broken   == [got |-> "broken", items |-> {}]
Whole(i) == [got |-> "frame", items |-> i]

\* How many areas the largest view has.
MaxAreas == (MaxView + AreaSize - 1) \div AreaSize
NumAreas == MaxAreas * MaxAreas
Cleared  == [k \in 0..NumAreas - 1 |-> <<>>]

FrameInit ==
  /\ upNext = 1 /\ frameCycle = 0
  /\ wraps \in BOOLEAN /\ display \in Displays /\ bufferSize \in FrameRooms
  /\ shipAt = [o \in Seats |-> <<0, 0>>] /\ shotAt = [s \in Shots |-> <<0, 0>>]
  /\ condition = [o \in Seats |-> "alive"] /\ lockedOn = [o \in Seats |-> Nowhere]
  /\ drawers = Cleared
  /\ screen = [o \in Seats |-> NoFrame] /\ framesGot = [o \in Seats |-> 0]
-----------------------------------------------------------------------------
\* Frame_update: at whose place the frame of a client is seen.
SeenFrom(c) == IF lockedOn[c] # Nowhere /\ condition[c] = "dead" THEN lockedOn[c] ELSE c

Extent(k)  == IF k = 1 THEN PixelsX ELSE PixelsY
ViewSize(c, k) == display[c].size[k]

\* Frame_parameters: the lower left corner of the view, and where that is in
\* the world next to this one.
Corner(c, k) == shipAt[SeenFrom(c)][k] - ViewSize(c, k) \div 2

NearWorld(c, k) ==
  IF wraps /\ Corner(c, k) < 0 /\ Corner(c, k) + ViewSize(c, k) < Extent(k)
  THEN Corner(c, k) + Extent(k) ELSE Corner(c, k)

RealWorld(c, k) ==
  IF wraps /\ Corner(c, k) > 0 /\ Corner(c, k) + ViewSize(c, k) >= Extent(k)
  THEN Corner(c, k) - Extent(k) ELSE Corner(c, k)

Between(n, low, size) == low < n /\ n < low + size

\* inview
InView(c, p) ==
  \A k \in Axes : \/ Between(p[k], NearWorld(c, k), ViewSize(c, k))
                  \/ Between(p[k], RealWorld(c, k), ViewSize(c, k))
-----------------------------------------------------------------------------
\* A packet of n bytes, unless it finds no room: Packet_printf.
Packed(w, n, item) ==
  IF w.len + n < bufferSize - WriteSpare THEN [len |-> w.len + n, items |-> w.items \cup {item}] ELSE w

Ship(o) == [what |-> "ship", of |-> o, at |-> shipAt[o]]
Blip(o) == [what |-> "radar", of |-> o, at |-> shipAt[o]]

\* Frame_ships
Sighted(c, o, w) ==
  IF condition[o] = "alive" /\ InView(c, shipAt[o]) THEN Packed(w, 9, Ship(o)) ELSE w

ShipsSent(c) ==
  LET after[o \in 0..NumSeats] ==
        IF o = 0 THEN [len |-> Started, items |-> {}] ELSE Sighted(c, o, after[o - 1])
  IN after[NumSeats]

\* Frame_parameters: how many areas lie side by side, and above each other.
AreasOf(c, k) == (ViewSize(c, k) + AreaSize - 1) \div AreaSize

NotWrapped(n, size) == n

Wrapped(n, size) == IF n < 0 THEN n + size ELSE n

FromCorner(c, p, k) == Wrapped(p[k] - NearWorld(c, k), Extent(k))

AreaOf(c, p) ==
  ((FromCorner(c, p, 2) \div AreaSize) % AreasOf(c, 2)) * AreasOf(c, 1)
    + ((FromCorner(c, p, 1) \div AreaSize) % AreasOf(c, 1))

\* DEBRIS_STORE: into the drawer of its area.
Stored(bs, c, s) ==
  LET x == FromCorner(c, shotAt[s], 1)
      y == FromCorner(c, shotAt[s], 2)
      k == AreaOf(c, shotAt[s]) IN
  IF x \notin 0..ViewSize(c, 1) - 1 \/ y \notin 0..ViewSize(c, 2) - 1 \/ Len(bs[k]) >= PerArea THEN bs
  ELSE [bs EXCEPT ![k] = Append(@, [of |-> s, at |-> <<x % AreaSize, y % AreaSize>>])]

\* Frame_shots, in the order of object_shuffle.
Spotted(c, s, bs) == IF InView(c, shotAt[s]) THEN Stored(bs, c, s) ELSE bs

Collected(c, order) ==
  LET after[j \in 0..NumShots] ==
        IF j = 0 THEN drawers ELSE Spotted(c, order[j], after[j - 1])
  IN after[NumShots]

Orders == {f \in [Shots -> Shots] : \A i, j \in Shots : f[i] = f[j] => i = j}

\* The room that Send_fastradar and Send_fastshot leave at the end.
Avail(w) == bufferSize - w.len - WriteSpare - 3

\* The rows of the radar that Frame_radar_buffer_send can tell.
OnRadar(p) == (((256 * PixelsY) \div PixelsX) * p[2]) \div PixelsY < 1024

\* Frame_radar: others who are alive. A lock blinks.
Blips(c, blink) ==
  {o \in Radars[SeenFrom(c)] \ {c} :
     condition[o] = "alive" /\ ~(blink /\ o = lockedOn[SeenFrom(c)]) /\ OnRadar(shipAt[o])}

\* Send_fastradar: how many of n blips find room. radar_shuffle says which.
BlipsThatFit(w, n) ==
  IF 3 * n < Avail(w) THEN n ELSE IF Avail(w) > 3 THEN (Avail(w) - 2) \div 3 ELSE 0

RadarSent(w, n, shown) ==
  IF n = 0 \/ (3 * n >= Avail(w) /\ Avail(w) <= 3) THEN w
  ELSE [len |-> w.len + 2 + 3 * Cardinality(shown), items |-> w.items \cup {Blip(o) : o \in shown}]

\* What the client makes of an offset in an area.
Placed(c, k, e) ==
  LET area == <<k % AreasOf(c, 1), k \div AreasOf(c, 1)>>
      at(a) == Corner(c, a) + area[a] * AreaSize + e.at[a]
      inWorld(a) == IF wraps THEN at(a) % Extent(a) ELSE at(a) IN
  [what |-> "shot", of |-> e.of, at |-> <<inWorld(1), inWorld(2)>>]

\* Send_fastshot: the part of a drawer that finds room.
ShotsThatFit(w, n) ==
  IF 2 * n < Avail(w) THEN n ELSE IF Avail(w) > 2 THEN (Avail(w) - 1) \div 2 ELSE 0

AreaSent(c, bs, w, k) ==
  LET n == ShotsThatFit(w, Len(bs[k])) IN
  IF bs[k] = <<>> \/ n = 0 THEN w
  ELSE [len |-> w.len + 3 + 2 * n, items |-> w.items \cup {Placed(c, k, bs[k][j]) : j \in 1..n}]

\* fastshot_end
ShotsSent(c, bs, w) ==
  LET after[k \in 0..NumAreas] == IF k = 0 THEN w ELSE AreaSent(c, bs, after[k - 1], k - 1)
  IN after[NumAreas]

StillFull(bs) == bs

\* After fastshot_end the drawers are empty for the next client.
Drained(bs) == Cleared

\* Send_end_of_frame
EndOfFrame(w) == IF w.len + 5 < bufferSize THEN Whole(w.items) ELSE Broken

SendFrame(c) ==
  \E order \in Orders, blink \in BOOLEAN :
    LET bs    == Collected(c, order)
        ships == ShipsSent(c)
        blips == Blips(c, blink) IN
    \E shown \in SUBSET blips :
      /\ Cardinality(shown) = BlipsThatFit(ships, Cardinality(blips))
      /\ screen' = [screen EXCEPT ![c] =
                      EndOfFrame(ShotsSent(c, bs, RadarSent(ships, Cardinality(blips), shown)))]
      /\ drawers' = Drained(bs)

\* Frame_update: a client that wants fewer frames gets every second, fourth,
\* eighth... of a cycle.
Widened(fps, divisor) == IF FrameFps > fps * divisor THEN 2 * divisor ELSE divisor

Divisor(fps) ==
  LET after[n \in 0..FrameFps] == IF n = 0 THEN 2 ELSE Widened(fps, after[n - 1])
  IN IF fps < FrameFps THEN after[FrameFps] ELSE 1

GetsAFrame(c) == c \notin Bots /\ frameCycle % Divisor(display[c].fps) = 0

FrameUpdate ==
  /\ upNext # 0
  /\ upNext' = IF upNext = NumSeats THEN 0 ELSE upNext + 1
  /\ IF GetsAFrame(upNext)
     THEN SendFrame(upNext) /\ framesGot' = [framesGot EXCEPT ![upNext] = @ + 1]
     ELSE UNCHANGED <<screen, drawers, framesGot>>
  /\ UNCHANGED <<scene, frameCycle>>
-----------------------------------------------------------------------------
\* What happens until the next frame: things move, players die, recover and
\* lock on others.
Change ==
  \/ \E o \in MovingShips \cap Seats, p \in Pixels :
       shipAt' = [shipAt EXCEPT ![o] = p] /\ UNCHANGED <<shotAt, condition, lockedOn>>
  \/ \E s \in MovingShots \cap Shots, p \in Pixels :
       shotAt' = [shotAt EXCEPT ![s] = p] /\ UNCHANGED <<shipAt, condition, lockedOn>>
  \/ \E o \in MovingShips \cap Seats, c \in {"alive", "dead", "returning"} :
       condition' = [condition EXCEPT ![o] = c] /\ UNCHANGED <<shipAt, shotAt, lockedOn>>
  \/ \E o \in MovingShips \cap Seats, l \in Seats \cup {Nowhere} :
       o # l /\ lockedOn' = [lockedOn EXCEPT ![o] = l] /\ UNCHANGED <<shipAt, shotAt, condition>>

NextFrame ==
  /\ upNext = 0 /\ upNext' = 1
  /\ frameCycle' = IF frameCycle = FrameDivisor - 1 THEN 0 ELSE frameCycle + 1
  /\ framesGot' = IF frameCycle' = 0 THEN [o \in Seats |-> 0] ELSE framesGot
  /\ Change
  /\ screen' = [o \in Seats |-> NoFrame]
  /\ UNCHANGED <<wraps, display, bufferSize, drawers>>

FrameNext == FrameUpdate \/ NextFrame

FrameSpec == FrameInit /\ [][FrameNext]_frameVars
-----------------------------------------------------------------------------
\* Room for all that can be in view.
Enough == Started + 9 * NumSeats + 2 + 3 * NumSeats + 5 * NumShots + WriteSpare + 4

\* What is in view, around the world if that goes around.
Seen(c, p) ==
  \A k \in Axes : \E n \in IF wraps THEN {-1, 0, 1} ELSE {0} :
    Between(p[k] + n * Extent(k), Corner(c, k), ViewSize(c, k))

Shows(items, what, o) == \E i \in items : i.what = what /\ i.of = o

\* What a frame shows is there, seen from the place the client watches.
TruthIsShown(c, items) ==
  \A i \in items :
    \/ /\ i.what = "ship" /\ i.of \in Seats /\ condition[i.of] = "alive"
       /\ i.at = shipAt[i.of] /\ Seen(c, i.at)
    \/ /\ i.what = "shot" /\ i.of \in Shots
       /\ i.at = shotAt[i.of] /\ Seen(c, i.at)
    \/ /\ i.what = "radar" /\ i.of \in Radars[SeenFrom(c)] \ {c} /\ condition[i.of] = "alive"
       /\ i.at = shipAt[i.of]

\* The view is no larger than a world that goes around.
ViewFits(c) == wraps => \A k \in Axes : ViewSize(c, k) <= Extent(k)

\* All that is in view is shown, but for shots where there are more of them
\* than a packet can tell.
AllIsShown(c, items) ==
  /\ \A o \in Seats : condition[o] = "alive" /\ Seen(c, shipAt[o]) => Shows(items, "ship", o)
  /\ \A s \in Shots : Seen(c, shotAt[s]) =>
       Shows(items, "shot", s) \/ Cardinality({t \in Shots : Shows(items, "shot", t)}) >= PerArea

\* Whoever has no blinking lock on him is on the radar, as far as it goes.
RadarIsShown(c, items) ==
  \A o \in Radars[SeenFrom(c)] \ {c, lockedOn[SeenFrom(c)]} :
    condition[o] = "alive" /\ OnRadar(shipAt[o]) => Shows(items, "radar", o)

FrameIsTrue(c, frame) ==
  /\ frame # Broken
  /\ TruthIsShown(c, frame.items)
  /\ bufferSize >= Enough =>
       (ViewFits(c) => AllIsShown(c, frame.items)) /\ RadarIsShown(c, frame.items)

\* At least half as many frames as it wants, and less than one more.
ShareIsFair(c) ==
  LET wanted == IF display[c].fps < FrameFps THEN display[c].fps ELSE FrameFps IN
  /\ 2 * framesGot[c] * FrameFps >= FrameDivisor * wanted
  /\ (framesGot[c] - 1) * FrameFps < FrameDivisor * wanted

(* Every frame ends. What it shows is where it is in the world, across the *)
(* border too, seen from the place the client watches, and nothing that    *)
(* was collected for another client; what is in view is shown while there  *)
(* is room. And a client that wants fewer frames gets its share of them.   *)
FramesAreTrue ==
  /\ \A c \in Seats : screen[c] # NoFrame => FrameIsTrue(c, screen[c])
  /\ upNext = 0 /\ frameCycle = FrameDivisor - 1 => \A c \in Seats \ Bots : ShareIsFair(c)
=============================================================================
