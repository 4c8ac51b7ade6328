---------------------------- MODULE FuelDisplay ----------------------------
(***************************************************************************)
(* One fuel station, a player who refuels at it, and the clients that show *)
(* it (map.c, update.c, frame.c, player.c, netserver.c): the server tells  *)
(* a client the fuel with every frame until the client acknowledges a      *)
(* frame that is younger than the last change, over a network that loses,  *)
(* doubles and reorders.                                                   *)
(*                                                                         *)
(* A client is external: it shows what the latest frame says and           *)
(* acknowledges it by its number.                                          *)
(***************************************************************************)
EXTENDS Integers

CONSTANTS
  Clients,     \* connections, each with a bit of conn_mask
  MaxFuel,     \* MAX_STATION_FUEL
  Regen,       \* what a station gains in a frame
  Every,       \* frames_per_update
  RefuelRate,  \* REFUEL_RATE
  MaxLoops     \* bound on frame_loops

VARIABLES
  loops,               \* frame_loops
  fuel, lastChange,    \* of the station
  connMask,
  here,                \* clients whose connection is PLAYING
  refuelling,          \* a player USES_REFUEL at the station
  shown, latest,       \* by client: the fuel it shows, the latest frame it has got
  frames, acks         \* by client: what is under way

station  == <<fuel, lastChange, connMask>>
fuelVars == <<loops, station, here, refuelling, shown, latest, frames, acks>>

FuelInit ==
  /\ loops = 1 /\ fuel = MaxFuel /\ lastChange = 1
  /\ connMask = Clients
  /\ here = {} /\ refuelling = FALSE
  /\ shown = [c \in Clients |-> MaxFuel] /\ latest = [c \in Clients |-> 0]
  /\ frames = [c \in Clients |-> {}] /\ acks = [c \in Clients |-> {}]
-----------------------------------------------------------------------------
Station == [fuel |-> fuel, lastChange |-> lastChange, connMask |-> connMask]

Changed(s, amount) == [fuel |-> amount, lastChange |-> loops, connMask |-> {}]

\* Update_fuel_stations: a little more fuel does not show, unless it is full.
Regenerated(s) ==
  LET more == s.fuel + Regen IN
  IF s.fuel = MaxFuel THEN s
  ELSE IF more >= MaxFuel THEN Changed(s, MaxFuel)
  ELSE IF s.lastChange + Every > loops THEN [s EXCEPT !.fuel = more]
  ELSE Changed(s, more)

\* Player_refuel_advance and Fuelstation_add_fuel.
Drunk(s) == IF s.fuel > RefuelRate THEN Changed(s, s.fuel - RefuelRate)
            ELSE IF s.fuel = 0 THEN s
            ELSE Changed(s, 0)

\* Handle_login: the client assumes that every station is full.
ClientLogin ==
  \E c \in Clients \ here :
    /\ here' = here \cup {c}
    /\ connMask' = IF fuel = MaxFuel THEN connMask \cup {c} ELSE connMask \ {c}
    /\ shown' = [shown EXCEPT ![c] = MaxFuel] /\ latest' = [latest EXCEPT ![c] = 0]
    /\ UNCHANGED <<loops, fuel, lastChange, refuelling, frames, acks>>

\* Destroy_connection: the socket is closed.
ClientLeaves ==
  \E c \in here :
    /\ here' = here \ {c}
    /\ frames' = [frames EXCEPT ![c] = {}] /\ acks' = [acks EXCEPT ![c] = {}]
    /\ UNCHANGED <<loops, station, refuelling, shown, latest>>

\* KEY_REFUEL, and whatever makes a player stop.
Refuel ==
  /\ refuelling' \in BOOLEAN
  /\ UNCHANGED <<loops, station, here, shown, latest, frames, acks>>

\* Frame_map, for a client that has the station in view.
Sent(c, inView) == IF c \in here /\ inView /\ c \notin connMask' THEN {[loops |-> loops + 1, fuel |-> fuel']} ELSE {}

\* A frame of Main_loop.
MainLoop ==
  /\ loops < MaxLoops
  /\ LET more == Regenerated(Station)
         s    == IF refuelling THEN Drunk(more) ELSE more
     IN /\ fuel' = s.fuel /\ lastChange' = s.lastChange /\ connMask' = s.connMask
        /\ refuelling' = (refuelling /\ more.fuel > RefuelRate)
  /\ loops' = loops + 1
  /\ \E inView \in BOOLEAN : frames' = [c \in Clients |-> frames[c] \cup Sent(c, inView)]
  /\ UNCHANGED <<here, shown, latest, acks>>
-----------------------------------------------------------------------------
(* The network and the clients.  What is read may come again. *)

Arrive ==
  \E c \in here : \E f \in frames[c] :
    /\ IF f.loops > latest[c]
       THEN /\ shown' = [shown EXCEPT ![c] = f.fuel] /\ latest' = [latest EXCEPT ![c] = f.loops]
            /\ acks' = [acks EXCEPT ![c] = @ \cup {f.loops}]
       ELSE UNCHANGED <<shown, latest, acks>>
    /\ frames' \in {frames, [frames EXCEPT ![c] = @ \ {f}]}
    /\ UNCHANGED <<loops, station, here, refuelling>>

NotOlder(ack) == ack >= lastChange

\* The frame was made after the last change.
Newer(ack) == ack > lastChange

\* Receive_ack_fuel.
AckFuel ==
  \E c \in here : \E ack \in acks[c] :
    /\ connMask' = IF Newer(ack) THEN connMask \cup {c} ELSE connMask
    /\ acks' \in {acks, [acks EXCEPT ![c] = @ \ {ack}]}
    /\ UNCHANGED <<loops, fuel, lastChange, here, refuelling, shown, latest, frames>>

FuelNext == ClientLogin \/ ClientLeaves \/ Refuel \/ MainLoop \/ Arrive \/ AckFuel

FuelSpec == FuelInit /\ [][FuelNext]_fuelVars
-----------------------------------------------------------------------------
\* The server stops telling a client about the fuel only while the client
\* shows it: what is there, but for the little that is not told, and a full
\* station as full; also when an acknowledgement comes late, twice or after
\* another change (netserver.c:2082, update.c:409).
ShownFuelIsTrue ==
  \A c \in here \cap connMask :
    /\ shown[c] <= fuel /\ fuel <= shown[c] + Regen * Every
    /\ fuel = MaxFuel => shown[c] = MaxFuel
=============================================================================
