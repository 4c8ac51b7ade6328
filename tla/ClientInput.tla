---------------------------- MODULE ClientInput ----------------------------
(***************************************************************************)
(* What the client of one player asks for by keys and by talk              *)
(* (netserver.c, event.c), through datagrams that are lost, doubled and    *)
(* reordered, while the player dies, comes back and runs out of fuel       *)
(* (update.c, player.c).                                                   *)
(*                                                                         *)
(* The client is external: it numbers its keyboard states, and what it     *)
(* says, and repeats both.  The keys are those whose effect lasts while    *)
(* they are held.                                                          *)
(***************************************************************************)
EXTENDS Integers, SequencesExt

CONSTANTS
  MaxChange,   \* bound on the keyboard states
  MaxSeq       \* bound on what is said

Keys == {"left", "right", "thrust", "fire", "refuel"}

VARIABLES
  wanted,         \* keyboard states of the client, by number
  said,           \* how much it has said
  lastKeyChange, prevKeys,   \* last_key_change, prev_keyv
  youngest,       \* the youngest keyboard state that has come
  talkSeq, heard, acked,     \* talk_sequence_num, what was done, and acknowledged
  connected, life,           \* alive, appearing or dead
  thrusting, shooting, usesRefuel, fs, turnacc

ship      == <<thrusting, shooting, usesRefuel, fs, turnacc>>
talk      == <<said, talkSeq, heard, acked>>
inputVars == <<wanted, lastKeyChange, prevKeys, youngest, talk, connected, life, ship>>

\* Player_add and Handle_login.
InputInit ==
  /\ wanted = <<>> /\ said = 0
  /\ lastKeyChange = 0 /\ prevKeys = {} /\ youngest = 0
  /\ talkSeq = 0 /\ heard = <<>> /\ acked = <<>>
  /\ connected = TRUE /\ life = "alive"
  /\ thrusting = FALSE /\ shooting = FALSE /\ usesRefuel = FALSE /\ fs = FALSE
  /\ turnacc = 0
-----------------------------------------------------------------------------
(* The client. *)

KeysNow == IF wanted = <<>> THEN {} ELSE Last(wanted)

ChangeKeys ==
  /\ connected /\ Len(wanted) < MaxChange
  /\ \E k \in Keys : wanted' = Append(wanted, SymDiff(KeysNow, {k}))
  /\ UNCHANGED <<lastKeyChange, prevKeys, youngest, talk, connected, life, ship>>

Say ==
  /\ connected /\ said < MaxSeq
  /\ said' = said + 1
  /\ UNCHANGED <<wanted, lastKeyChange, prevKeys, youngest, talkSeq, heard, acked, connected, life, ship>>
-----------------------------------------------------------------------------
(* Receive_keyboard and Handle_keyboard. *)

Latch(held, k, was) == IF k \in held /\ k \notin prevKeys THEN TRUE
                       ELSE IF k \notin held /\ k \in prevKeys THEN FALSE
                       ELSE was

Turned(keys) == (IF "left" \in keys THEN 1 ELSE 0) - (IF "right" \in keys THEN 1 ELSE 0)

\* Every key that is not as before is handled, also of the dead.
HandleKeyboard(held) ==
  /\ prevKeys' = held
  /\ thrusting' = Latch(held, "thrust", thrusting)
  /\ shooting' = Latch(held, "fire", shooting)
  \* Player_refuel_start finds a station, or not; Player_refuel_stop forgets it
  /\ \E near \in BOOLEAN :
       LET start == "refuel" \in held \ prevKeys stop == "refuel" \in prevKeys \ held
       IN /\ usesRefuel' = ((usesRefuel \/ (start /\ near)) /\ ~stop)
          /\ fs' = ((fs \/ (start /\ near)) /\ ~stop)
  /\ turnacc' = IF SymDiff(held, prevKeys) \cap {"left", "right"} = {} THEN turnacc ELSE Turned(held)

Differs(change) == change # lastKeyChange

\* An older state of the keys is not needed any more.
IsNews(change) == change > lastKeyChange

ReceiveKeyboard ==
  /\ connected
  /\ \E change \in DOMAIN wanted :
       /\ youngest' = Max({change, youngest})
       /\ IF IsNews(change)
          THEN lastKeyChange' = change /\ HandleKeyboard(wanted[change])
          ELSE UNCHANGED <<lastKeyChange, prevKeys, ship>>
  /\ UNCHANGED <<wanted, talk, connected, life>>

\* A datagram with two states of the keys: "no macros", and the player is gone.
TwoAtOnce ==
  /\ connected /\ wanted # <<>>
  /\ connected' = FALSE
  /\ UNCHANGED <<wanted, lastKeyChange, prevKeys, youngest, talk, life, ship>>
-----------------------------------------------------------------------------
(* Receive_talk. *)

AnotherOne(seq) == seq # talkSeq

Unheard(seq) == seq > talkSeq

\* The acknowledgement goes into the reliable stream first, and when that is
\* full nothing is done.  A command may end the connection.
ReceiveTalk ==
  /\ connected
  /\ \E seq \in 1..said, room \in BOOLEAN, ends \in BOOLEAN :
       IF Unheard(seq) /\ room
       THEN /\ talkSeq' = seq /\ acked' = Append(acked, seq) /\ heard' = Append(heard, seq)
            /\ connected' = ~ends
       ELSE UNCHANGED <<talkSeq, acked, heard, connected>>
  /\ UNCHANGED <<wanted, said, lastKeyChange, prevKeys, youngest, life, ship>>
-----------------------------------------------------------------------------
(* The ship meanwhile. *)

\* Update_players: the station is out of reach, empty, or the tanks are full,
\* or empty.
FuelChanges ==
  /\ connected /\ life = "alive"
  /\ \/ usesRefuel' = FALSE /\ UNCHANGED thrusting
     \/ thrusting' = FALSE /\ UNCHANGED usesRefuel
  /\ UNCHANGED <<wanted, lastKeyChange, prevKeys, youngest, talk, connected, life, shooting, fs, turnacc>>

\* Killed, or by the end of self_destruct_count: Player_destroy.
Die ==
  /\ connected /\ life = "alive"
  /\ life' \in {"appearing", "dead"}
  /\ UNCHANGED <<wanted, lastKeyChange, prevKeys, youngest, talk, connected, thrusting, shooting, usesRefuel, fs, turnacc>>

\* Player_go_home, where everybody has what the keys are for.
GoHome ==
  /\ connected /\ life # "alive"
  /\ life' = IF life = "appearing" THEN "alive" ELSE life
  /\ turnacc' = 0
  /\ UNCHANGED <<wanted, lastKeyChange, prevKeys, youngest, talk, connected, thrusting, shooting, usesRefuel, fs>>

NextRound ==
  /\ connected /\ life = "dead" /\ life' = "appearing"
  /\ UNCHANGED <<wanted, lastKeyChange, prevKeys, youngest, talk, connected, ship>>

InputNext == \/ ChangeKeys \/ Say \/ ReceiveKeyboard \/ TwoAtOnce \/ ReceiveTalk
        \/ FuelChanges \/ Die \/ GoHome \/ NextRound

InputSpec == InputInit /\ [][InputNext]_inputVars
-----------------------------------------------------------------------------
\* The ship does nothing the keys do not say, though keyboard states are lost,
\* doubled and late, and though the ship dies and comes back with keys held:
\* the keys known are those of the youngest state that came, no engine, gun or
\* hose is on without its key, nor the hose without a station, and the turn is
\* that of the keys, or none since a respawn (event.c:50, netserver.c:1696).
KeysAreObeyed ==
  /\ youngest > 0 => prevKeys = wanted[youngest]
  /\ thrusting => "thrust" \in prevKeys
  /\ shooting <=> "fire" \in prevKeys
  /\ usesRefuel => fs /\ "refuel" \in prevKeys
  /\ turnacc \in {0, Turned(prevKeys)}

\* Whatever is said is done at most once and in order, and acknowledged
\* exactly when it is done, so that the client repeats it until then
\* (netserver.c:2161).
HeardOnce ==
  /\ acked = heard
  /\ \A i, j \in DOMAIN heard : i < j => heard[i] < heard[j]
=============================================================================
