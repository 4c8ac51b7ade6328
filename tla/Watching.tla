------------------------------ MODULE Watching ------------------------------
(***************************************************************************)
(* What players keep of one another (player.c, event.c, robot.c,           *)
(* robotdef.c, ship.c): the player they are locked on, the lock bank, the  *)
(* target of a robot's war, and who has shoved them lately - pointers into *)
(* Players[], from which anybody may be removed at any time.               *)
(*                                                                         *)
(* The pointers of one player, the watcher, are followed; those of the     *)
(* others do not depend on them.  Distances, scores and what              *)
(* Player_lock_is_allowed says of others are choices.  The bank and the    *)
(* record of shoves have one place each.                                   *)
(***************************************************************************)
EXTENDS Integers, SequencesExt

CONSTANTS
  Slots,       \* structs of players
  Watcher      \* the one whose pointers are followed

None == 0

VARIABLES
  playing,          \* Players[]
  state,            \* of everybody: alive, appearing, or out of the round
  robot,            \* the watcher is a robot
  locked, lock,     \* lock.flags has LOCK_PLAYER; lock.object
  reprogram, bank,  \* REPROGRAM is set; lockbank[]
  atWar, enemy,     \* robot_lock has LOCK_PLAYER; robot_lock_pl
  pusher            \* shove_record[].pusher_pl

pointers  == <<locked, lock, reprogram, bank, atWar, enemy, pusher>>
watchVars == <<playing, state, robot, pointers>>

Players == ToSet(playing)
Others  == Players \ {Watcher}
Here    == Watcher \in Players
States  == {"alive", "appearing", "out"}

WatchInit ==
  /\ playing = <<>> /\ state = [p \in Slots |-> "out"] /\ robot = FALSE
  /\ locked = FALSE /\ lock = None /\ reprogram = FALSE /\ bank = None
  /\ atWar = FALSE /\ enemy = None /\ pusher = None
-----------------------------------------------------------------------------
(* Coming and going. *)

\* Player_add has the struct wiped.
Join ==
  \E p \in Slots \ Players, r \in BOOLEAN :
    /\ playing' = Append(playing, p)
    /\ p = Watcher \/ r = robot
    /\ robot' = r
    /\ UNCHANGED <<state, pointers>>

StillKept(pointer, p) == pointer

Forgotten(pointer, p) == IF pointer = p THEN None ELSE pointer

SwappedOut(p) ==
  LET i == CHOOSE j \in DOMAIN playing : playing[j] = p
  IN SubSeq([playing EXCEPT ![i] = Last(playing)], 1, Len(playing) - 1)

\* Player_remove of the watcher: Robot_destroy and memset.
WatcherLeaves ==
  /\ Here
  /\ playing' = SwappedOut(Watcher) /\ state' = [state EXCEPT ![Watcher] = "out"]
  /\ robot' = FALSE /\ locked' = FALSE /\ lock' = None /\ reprogram' = FALSE /\ bank' = None
  /\ atWar' = FALSE /\ enemy' = None /\ pusher' = None

OnlyOneLeft == Len(playing) - 1 <= 1

\* The lock is let go when it is on the one who leaves, or nobody else is left.
LocksOff(p) == locked /\ (lock = p \/ OnlyOneLeft)

\* Robot_reset_war for who had war on the one who leaves.
WarsEnd(p) == robot /\ atWar /\ enemy = p

OtherLeaves ==
  \E p \in Others :
    /\ playing' = SwappedOut(p) /\ state' = [state EXCEPT ![p] = "out"]
    /\ locked' = (locked /\ ~LocksOff(p))
    /\ atWar' = (atWar /\ ~WarsEnd(p))
    /\ bank' = Forgotten(bank, p) /\ pusher' = Forgotten(pusher, p)
    /\ UNCHANGED <<robot, lock, reprogram, enemy>>

StateChanges ==
  \E p \in Players, s \in States :
    /\ state' = [state EXCEPT ![p] = s]
    /\ UNCHANGED <<playing, robot, pointers>>
-----------------------------------------------------------------------------
(* Locks of humans. *)

Unchanged == <<locked, lock>>
On(p)     == <<TRUE, p>>
Off       == <<FALSE, lock>>

Becomes(l) ==
  /\ locked' = l[1] /\ lock' = l[2]
  /\ UNCHANGED <<playing, state, robot, reprogram, bank, atWar, enemy, pusher>>

\* Player_lock_closest(pl, false): whoever is alive and allowed, or nobody.
Closest == {Off} \cup {On(p) : p \in {q \in Others : state[q] = "alive"}}

\* Player_lock_closest(pl, true), and then the former if there is none.
NextClosest == {On(p) : p \in {q \in Others : state[q] = "alive" /\ ~(locked /\ q = lock)}} \cup Closest

\* Player_lock_next: around Players[], back to where it started.
NextOne ==
  IF ~locked \/ lock = None THEN Closest
  ELSE IF lock = Watcher THEN {Off} \cup {On(p) : p \in {q \in Others : state[q] # "out"}}
  ELSE {On(lock)} \cup {On(p) : p \in {q \in Others : state[q] # "out"}}

\* Player_lock_is_initialized.
LockIsInitialized == locked /\ Len(playing) > 1 /\ lock \notin {None, Watcher}

\* KEY_TOGGLE_COMPASS, or pausing.
CompassOrPause == IF LockIsInitialized THEN {Unchanged} ELSE Closest

LockKey ==
  /\ Here /\ ~robot
  /\ \E l \in Closest \cup NextClosest \cup NextOne \cup CompassOrPause : Becomes(l)

ReprogramKey ==
  /\ Here /\ ~robot
  /\ reprogram' = ~reprogram
  /\ UNCHANGED <<playing, state, robot, locked, lock, bank, atWar, enemy, pusher>>

\* KEY_LOAD_LOCK: to the bank, or from it.
LoadLockKey ==
  /\ Here /\ ~robot
  /\ IF reprogram
     THEN /\ bank' = IF locked THEN lock ELSE bank
          /\ UNCHANGED <<locked, lock>>
     ELSE /\ IF bank \notin {None, Watcher} THEN locked' = TRUE /\ lock' = bank
                                            ELSE UNCHANGED <<locked, lock>>
          /\ UNCHANGED bank
  /\ UNCHANGED <<playing, state, robot, reprogram, atWar, enemy, pusher>>
-----------------------------------------------------------------------------
(* Robots. *)

\* Robot_default_play: a better enemy, and then perhaps no enemy at all.
Foes == {q \in Others : state[q] = "alive"}

RobotPlay ==
  /\ Here /\ robot /\ state[Watcher] = "alive"
  /\ \E l \in {Unchanged} \cup {On(p) : p \in Foes} :
       \/ Becomes(l)
       \/ l[1] /\ Becomes(<<FALSE, Head(playing)>>)

War(on, p) ==
  /\ atWar' = on /\ enemy' = p
  /\ UNCHANGED <<playing, state, robot, locked, lock, reprogram, bank, pusher>>

\* Robot_war, for the robot that was killed; Robot_war and
\* Collision_player_player_check, for the robot that has its revenge.
RobotWar ==
  /\ Here /\ robot
  /\ \/ \E p \in Others : War(TRUE, p)
     \/ War(FALSE, enemy)

\* Record_shove, by the owner of an object or of a ball.
RecordShove ==
  /\ Here
  /\ \E p \in Others : pusher' = p
  /\ UNCHANGED <<playing, state, robot, locked, lock, reprogram, bank, atWar, enemy>>

WatchNext == \/ Join \/ WatcherLeaves \/ OtherLeaves \/ StateChanges
        \/ LockKey \/ ReprogramKey \/ LoadLockKey
        \/ RobotPlay \/ RobotWar \/ RecordShove

WatchSpec == WatchInit /\ [][WatchNext]_watchVars
-----------------------------------------------------------------------------
\* Nothing that is followed leads to a player who has left, or to the one who
\* has taken the struct since: the lock while its flag is set, the bank, the
\* target of a war, and the one who shoved - though Player_remove clears some
\* of them only, and others are left behind a flag (player.c:586).
PointersAreToPlayers ==
  /\ locked => lock \in Players
  /\ bank \in Players \cup {None}
  /\ atWar => enemy \in Others
  /\ pusher \in Others \cup {None}
=============================================================================
