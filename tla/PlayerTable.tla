----------------------------- MODULE PlayerTable -----------------------------
(***************************************************************************)
(* Who is who (player.c, id.c, command.c, robot.c): the array Players[],   *)
(* the queue of free identifiers, the index GetInd from identifiers into   *)
(* Players[], and what operators may do to others by name or identifier,   *)
(* among it to lock the game.                                              *)
(*                                                                         *)
(* Bases, teams and connections are left out: who gets in is a choice.     *)
(***************************************************************************)
EXTENDS Integers, SequencesExt

CONSTANTS
  NumIds,       \* NUM_IDS
  MaxPlayers,   \* structs that Players_allocate makes
  Width         \* what the counters of the queue count up to, 2^32; NumIds divides it

NoId    == 0
Ids     == 1..NumIds
Structs == 1..MaxPlayers

VARIABLES
  players, num,            \* Players[] and NumPlayers
  id,                      \* of a struct
  getInd,                  \* GetInd[]
  idQueue, getId, putId,   \* ID_queue, get_ID, put_ID
  inUse,                   \* ID_inuse
  robots,                  \* structs of robots
  operators, numOperators, \* isoperator, NumOperators
  gameLock,                \* game_lock, and by whom: nobody, an operator, from outside
  abandoned,               \* the last operator has given up the status and left it locked
  up                       \* the server runs

table     == <<players, num, id, getInd, idQueue, getId, putId, inUse, robots>>
tableVars == <<table, operators, numOperators, gameLock, abandoned, up>>

Present == {players[i] : i \in 1..num}
Humans  == Present \ robots

TableInit ==
  /\ players = [i \in Structs |-> i] /\ num = 0
  /\ id = [p \in Structs |-> NoId]
  /\ getInd = [n \in 0..NumIds |-> 0]
  /\ idQueue = [k \in 0..NumIds - 1 |-> k + 1]
  \* just before the counters wrap around
  /\ getId = Width - NumIds /\ putId = 0
  /\ inUse = {} /\ robots = {}
  /\ operators = {} /\ numOperators = 0
  /\ gameLock = "nobody" /\ abandoned = FALSE /\ up = TRUE
-----------------------------------------------------------------------------
(* Identifiers. *)

Distance == (putId - getId) % Width

PeekId == IF getId = putId THEN NoId ELSE idQueue[getId % NumIds]

\* release_ID of an identifier in use.
ReleaseId(n) ==
  /\ idQueue' = [idQueue EXCEPT ![putId % NumIds] = n] /\ putId' = (putId + 1) % Width
  /\ inUse' = inUse \ {n}
-----------------------------------------------------------------------------
(* Coming and going. *)

\* Player_add: the struct after the last one, and the next identifier.
PlayerAdd(isRobot) ==
  /\ num < MaxPlayers
  /\ LET p == players[num + 1] n == PeekId IN
       /\ id' = [id EXCEPT ![p] = n]
       /\ getInd' = [getInd EXCEPT ![n] = num]
       /\ getId' = IF n = NoId THEN getId ELSE (getId + 1) % Width
       /\ inUse' = inUse \cup ({n} \ {NoId})
       /\ robots' = IF isRobot THEN robots \cup {p} ELSE robots
  /\ num' = num + 1
  /\ UNCHANGED <<players, idQueue, putId, operators, numOperators, gameLock, abandoned, up>>

PlayerLogin == up /\ PlayerAdd(FALSE)

RobotAdd == up /\ PeekId # NoId /\ PlayerAdd(TRUE)

LastNotFound(p) ==
  LET last == players[num] ind2 == getInd[id[p]] IN
    /\ players' = [players EXCEPT ![ind2 + 1] = last, ![num] = p]
    /\ getInd' = [getInd EXCEPT ![id[p]] = num - 1]

\* The last player takes the place of the one who leaves.
Swapped(p) ==
  LET last == players[num] ind2 == getInd[id[p]] IN
    /\ players' = [players EXCEPT ![ind2 + 1] = last, ![num] = p]
    /\ getInd' = [getInd EXCEPT ![id[last]] = ind2, ![id[p]] = num - 1]

\* Robot_add that finds no base: the robot has come and gone.
RobotGoesBack ==
  /\ up /\ PeekId # NoId /\ num < MaxPlayers
  /\ LET n == PeekId IN
       /\ getInd' = [getInd EXCEPT ![n] = num]
       /\ getId' = (getId + 1) % Width
       /\ idQueue' = [idQueue EXCEPT ![putId % NumIds] = n] /\ putId' = (putId + 1) % Width
  /\ UNCHANGED <<players, num, id, inUse, robots, operators, numOperators, gameLock, abandoned, up>>

LockStays(left) == gameLock

\* The last operator who leaves unlocks the game.
LockAfter(left) == IF left = 0 THEN "nobody" ELSE gameLock

\* Player_remove.
PlayerRemove(p) ==
  /\ IF p \in operators
     THEN /\ numOperators' = numOperators - 1
          /\ gameLock' = LockAfter(numOperators - 1)
     ELSE UNCHANGED <<numOperators, gameLock>>
  /\ operators' = operators \ {p} /\ robots' = robots \ {p}
  /\ num' = num - 1
  /\ Swapped(p)
  /\ ReleaseId(id[p])
  /\ id' = [id EXCEPT ![p] = NoId]
  /\ abandoned' = (abandoned /\ gameLock' # "nobody")
  /\ UNCHANGED <<getId, up>>

\* Destroy_connection of a player, Robot_remove and Robot_kick.
PlayerLeaves == up /\ \E p \in Present : PlayerRemove(p)
-----------------------------------------------------------------------------
(* Commands: Handle_player_command passes on whether an operator speaks. *)

\* Cmd_password; there may be no password to know.
Password ==
  /\ up
  /\ \E p \in Humans, right \in BOOLEAN :
       /\ operators' = IF right THEN operators \cup {p} ELSE operators \ {p}
       /\ numOperators' = numOperators + (IF right /\ p \notin operators THEN 1 ELSE 0)
                                       - (IF ~right /\ p \in operators THEN 1 ELSE 0)
  /\ abandoned' = (operators' = {} /\ gameLock # "nobody" /\ (abandoned \/ operators # {}))
  /\ UNCHANGED <<table, gameLock, up>>

SetLock(to) ==
  /\ gameLock' = to /\ abandoned' = (abandoned /\ to # "nobody")
  /\ UNCHANGED <<table, operators, numOperators, up>>

\* Cmd_lock: already locked, it stays as it is.
LockCommand ==
  /\ up /\ operators # {}
  /\ SetLock(IF gameLock = "nobody" THEN "operator" ELSE gameLock) \/ SetLock("nobody")

\* LOCK_GAME_pack, from the owner of the server.
LockFromOutside == up /\ SetLock(IF gameLock = "nobody" THEN "outside" ELSE "nobody")

\* Cmd_kick, by the name of somebody who is there.
Kick == up /\ operators # {} /\ \E p \in Present : PlayerRemove(p)

\* Player_get_by_name with a number, and Cmd_kick: Player_by_id does not ask
\* whether the identifier is in use; a wiped struct has no team to leave.
KickById ==
  /\ up /\ operators # {}
  /\ \E n \in Ids :
       IF getInd[n] < num
       THEN PlayerRemove(players[getInd[n] + 1])
       ELSE up' = FALSE /\ UNCHANGED <<table, operators, numOperators, gameLock, abandoned>>

TableNext == \/ PlayerLogin \/ RobotAdd \/ RobotGoesBack \/ PlayerLeaves
        \/ Password \/ LockCommand \/ LockFromOutside \/ Kick \/ KickById

TableSpec == TableInit /\ [][TableNext]_tableVars
-----------------------------------------------------------------------------
\* Everybody has an identifier of their own by which they are found in
\* Players[], wherever the swaps of those who left have put them, and the
\* others wait in the queue, each once, when the counters have wrapped around
\* and whatever robot had to go back (player.c:576, id.c:89).
IdsAreTheirs ==
  LET waiting == [k \in 1..Distance |-> idQueue[(getId + k - 1) % NumIds]] IN
  /\ \A i \in 1..num : id[players[i]] \in inUse /\ getInd[id[players[i]]] = i - 1
  /\ Cardinality(inUse) = num
  /\ IsInjective(waiting) /\ ToSet(waiting) = Ids \ inUse

\* Operators are counted right, and a game that was locked by one of them does
\* not stay locked when no operator is left, unless the last one has lost the
\* status by a wrong password (player.c:499, command.c:689).
OperatorsAreCounted ==
  /\ operators \subseteq Humans /\ numOperators = Cardinality(operators)
  /\ gameLock = "operator" => operators # {} \/ abandoned
=============================================================================
