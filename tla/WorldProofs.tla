---------------------------- MODULE WorldProofs ----------------------------
(***************************************************************************)
(* The world: its objects and balls (Balls), the cells they are found in   *)
(* (Cells), the map that is read (MapText) and how far its walls are       *)
(* (Walldist).                                                             *)
(*                                                                         *)
(* Balls. Every treasure keeps exactly one ball, and nobody pulls a ball   *)
(* that is not there, for any number of players, treasures and objects, as *)
(* long as Obj[] has room for the balls of the map.  An arena is orderly   *)
(* if Obj[] names each struct once and those in use come first (Arranged), *)
(* every treasure has one ball, which is not in its box while somebody     *)
(* pulls it (Complete), and those who pull a ball are alive and in         *)
(* Players[] (Connected).  The structs themselves matter: a ball that is   *)
(* removed gives its struct back in the last place of Obj[], and the ball  *)
(* that replaces it takes that very struct (BallIsRenewed), so the balls   *)
(* of the treasures never compete with shots for room.  Each call keeps    *)
(* the arena orderly; the loops through Obj[] are followed turn by turn,   *)
(* since structs change their places while they run.                       *)
(*                                                                         *)
(* Cells. A search finds what is near, for any number of objects, any size *)
(* of the world and any searches.  While objects collide every chain goes  *)
(* down from the last object of its block through all the others to the    *)
(* first (ChainsOf), and UsedCells names the blocks with a chain (UsedAre),*)
(* so that the cleanup, which follows UsedCells backwards, leaves nothing  *)
(* linked (Cut).                                                           *)
(*                                                                         *)
(* The map. World is what was drawn, for any drawing, any size of the map  *)
(* and all options.  What is read next is at a place that the column and   *)
(* the row name (TextPlace, AtColumn), also behind lines that are too      *)
(* short, too long or missing; the objects made are those of the blocks    *)
(* passed (AllListed), the teams' counts are of them (Counted), and those  *)
(* given so far belong to the nearest (GivenToNearest).                    *)
(*                                                                         *)
(* The walls. walldist is the distance to the nearest wall, for any map,   *)
(* unless the ring of blocks to look at lost some.  What is known is never *)
(* too low, since a wall is that near (BackedBy), and a block that is not  *)
(* in the ring has told its neighbours (Relaxed).  On maps without half    *)
(* blocks the ring loses none: blocks wait once each, the nearest first    *)
(* (InTurn), since what is known is at most a block farther than the first *)
(* (KnownFrom), so that nothing is ever found nearer a second time.        *)
(***************************************************************************)
EXTENDS Balls, Cells, MapText, Walldist, Counting

Things == [type : {"none", "shot", "ball"}, owner : Pilots \cup {Nil}, attached : BOOLEAN,
           of : Treasures \cup {Nil}, expired : BOOLEAN]

Arenas == [pilots : Seq(Pilots), alive : SUBSET Pilots, killed : SUBSET Pilots,
           connector : SUBSET Pilots, carrying : SUBSET Pilots,
           tmp : [Pilots -> Store \cup {Nil}], obj : [Store -> Things],
           arr : [Store -> Store], num : 0..MaxObjects, inBox : [Treasures -> BOOLEAN]]

IsBall(s, o) == s.obj[o].type = "ball"

\* The array: a struct is in use if it is among the first NumObjs.
Arranged(s) ==
  /\ \A i, j \in Store : s.arr[i] = s.arr[j] => i = j
  /\ \A o \in Store : s.obj[o].type # "none" <=> \E i \in 1..s.num : s.arr[i] = o
  /\ \A o \in Store : s.obj[o].expired => s.obj[o].type # "none"

\* The balls: one for each treasure.
Complete(s) ==
  /\ \A o \in Store : s.obj[o].attached => IsBall(s, o)
  /\ \A o \in Store : IsBall(s, o) => s.obj[o].of \in Treasures
  /\ \A t \in Treasures : \E o \in Store : \A u \in Store :
       IsBall(s, u) /\ s.obj[u].of = t <=> u = o
  /\ \A o \in Store : s.obj[o].attached => ~s.inBox[s.obj[o].of]

\* The players: each once in Players[], and whoever carries a ball is alive.
Crew(array, living, laden) ==
  /\ \A i, j \in DOMAIN array : array[i] = array[j] => i = j
  /\ \A p \in living : \E i \in DOMAIN array : array[i] = p
  /\ laden \subseteq living

Connected(s) ==
  /\ Crew(s.pilots, s.alive, s.carrying)
  /\ \A o \in Store : s.obj[o].attached => s.obj[o].owner \in s.carrying
  /\ \A p \in s.carrying : \E o \in Store : s.obj[o].attached /\ s.obj[o].owner = p
  /\ \A p \in Pilots : s.tmp[p] # Nil => p \in s.alive /\ IsBall(s, s.tmp[p])

Orderly(s) == s \in Arenas /\ Arranged(s) /\ Complete(s) /\ Connected(s)

\* A struct that stays what it is, and is held by nobody new.
Loosened(s, u) ==
  /\ u.arr = s.arr /\ u.num = s.num /\ u.inBox = s.inBox
  /\ \A o \in Store : /\ u.obj[o].type = s.obj[o].type /\ u.obj[o].of = s.obj[o].of
                      /\ u.obj[o].attached => s.obj[o].attached
                      /\ u.obj[o].expired => u.obj[o].type # "none"

LEMMA StoreFacts ==
  /\ MaxObjects \in Nat /\ NumTreasures \in Nat /\ Treasures \subseteq Store
  /\ Nil \notin Store /\ Nil \notin Pilots /\ Nil \notin Treasures /\ Pilots \subseteq Nat
BY BallsAssumption DEF Store, Treasures, Nil

LEMMA LooseIsOrderly ==
  ASSUME NEW s, NEW u, Orderly(s), u \in Arenas, Loosened(s, u), Connected(u)
  PROVE  Orderly(u)
<1>1. Arranged(u)
  BY DEF Orderly, Arranged, Loosened
<1>2. Complete(u)
  <2>1. Complete(s)
    BY DEF Orderly
  <2>2. \A o \in Store : IsBall(u, o) <=> IsBall(s, o)
    BY DEF Loosened, IsBall
  <2>3. \A o \in Store : u.obj[o].of = s.obj[o].of /\ (u.obj[o].attached => s.obj[o].attached)
    BY DEF Loosened
  <2>4. u.inBox = s.inBox
    BY DEF Loosened
  <2> QED
    BY <2>1, <2>2, <2>3, <2>4 DEF Complete
<1> QED
  BY <1>1, <1>2 DEF Orderly

LEMMA InUse ==
  ASSUME NEW s, Orderly(s)
  PROVE  /\ ObjectsIn(s) = {o \in Store : s.obj[o].type # "none"}
         /\ BallsIn(s) = {o \in Store : IsBall(s, o)}
         /\ \A p : Held(s, p) = {o \in Store : s.obj[o].attached /\ s.obj[o].owner = p}
<1>1. s.arr \in [Store -> Store] /\ s.num \in 0..MaxObjects /\ 1..s.num \subseteq Store
  BY StoreFacts DEF Orderly, Arenas, Store
<1>2. ObjectsIn(s) = {o \in Store : s.obj[o].type # "none"}
  BY <1>1 DEF ObjectsIn, Orderly, Arranged
<1>3. BallsIn(s) = {o \in Store : IsBall(s, o)}
  BY <1>2 DEF BallsIn, IsBall
<1>4. \A o \in Store : s.obj[o].attached => IsBall(s, o)
  BY DEF Orderly, Complete
<1> QED
  BY <1>2, <1>3, <1>4 DEF Held

LEMMA ThingIs ==
  ASSUME NEW x \in Things
  PROVE  /\ \A b \in BOOLEAN : [x EXCEPT !.attached = b]
              = [type |-> x.type, owner |-> x.owner, attached |-> b, of |-> x.of, expired |-> x.expired]
         /\ \A b \in BOOLEAN : [x EXCEPT !.expired = b]
              = [type |-> x.type, owner |-> x.owner, attached |-> x.attached, of |-> x.of, expired |-> b]
         /\ \A p : [x EXCEPT !.owner = p]
              = [type |-> x.type, owner |-> p, attached |-> x.attached, of |-> x.of, expired |-> x.expired]
BY DEF Things

\* What Ball_detach leaves of a ball that p holds.
Freed(s, p, o, u) ==
  /\ u \in Arenas /\ u.pilots = s.pilots /\ u.alive = s.alive
  /\ u.arr = s.arr /\ u.num = s.num /\ u.inBox = s.inBox
  /\ u.tmp = [s.tmp EXCEPT ![p] = IF s.tmp[p] = o THEN Nil ELSE s.tmp[p]]
  /\ u.carrying = IF Held(s, p) \subseteq {o} THEN s.carrying \ {p} ELSE s.carrying
  /\ u.obj = [s.obj EXCEPT ![o] = [s.obj[o] EXCEPT !.attached = FALSE]]

LEMMA DetachIs ==
  ASSUME NEW s \in Arenas, NEW p \in s.carrying, NEW o \in Store, o \in Held(s, p),
         NEW u, u = Detach(s, p, o)
  PROVE  Freed(s, p, o, u)
<1>1. p \in Pilots /\ s.tmp \in [Pilots -> Store \cup {Nil}] /\ s.obj \in [Store -> Things]
      /\ s.obj[o] \in Things
  BY DEF Arenas
<1> DEFINE loose == IF s.tmp[p] = o THEN [s EXCEPT !.tmp[p] = Nil, !.connector = @ \ {p}] ELSE s
<1>2. /\ loose \in Arenas /\ loose.pilots = s.pilots /\ loose.alive = s.alive /\ loose.killed = s.killed
      /\ loose.carrying = s.carrying /\ loose.obj = s.obj /\ loose.arr = s.arr
      /\ loose.num = s.num /\ loose.inBox = s.inBox
      /\ loose.tmp = [s.tmp EXCEPT ![p] = IF s.tmp[p] = o THEN Nil ELSE s.tmp[p]]
  BY <1>1 DEF Arenas
<1> DEFINE thing == [s.obj[o] EXCEPT !.attached = FALSE]
           free == IF Held(s, p) \subseteq {o} THEN s.carrying \ {p} ELSE s.carrying
<1>3. Detach(s, p, o) = [loose EXCEPT !.obj[o].attached = @ /\ o \notin Held(s, p),
                            !.carrying = IF Held(s, p) \subseteq {o} THEN @ \ {p} ELSE @]
  BY DEF Detach
<1>4. thing \in Things
  BY <1>1 DEF Things
<1> HIDE DEF loose
<1>5. (loose.obj[o].attached /\ o \notin Held(s, p)) = FALSE
  OBVIOUS
<1>6. Detach(s, p, o) = [loose EXCEPT !.obj = [s.obj EXCEPT ![o] = thing], !.carrying = free]
  BY <1>2, <1>3, <1>5 DEF Arenas
<1>7. [s.obj EXCEPT ![o] = thing] \in [Store -> Things]
  BY <1>1, <1>4
<1>8. free \in SUBSET Pilots
  BY DEF Arenas
<1> HIDE DEF thing, free
<1> QED
  BY <1>2, <1>6, <1>7, <1>8 DEF Arenas, thing, free, Freed

LEMMA DetachKeeps ==
  ASSUME NEW s, Orderly(s), NEW o \in Store, s.obj[o].attached, NEW p, p = s.obj[o].owner,
         NEW u, u = Detach(s, p, o)
  PROVE  /\ Orderly(u) /\ ~u.obj[o].attached
         /\ u.pilots = s.pilots /\ u.alive = s.alive
         /\ u.arr = s.arr /\ u.num = s.num
         /\ \A v \in Store : /\ u.obj[v].type = s.obj[v].type
                             /\ u.obj[v].of = s.obj[v].of
                             /\ u.obj[v].owner = s.obj[v].owner
<1>1. s \in Arenas /\ Connected(s) /\ p \in s.carrying /\ s.obj \in [Store -> Things]
      /\ s.tmp \in [Pilots -> Store \cup {Nil}] /\ p \in Pilots
  BY DEF Orderly, Connected, Arenas
<1>2. Held(s, p) = {v \in Store : s.obj[v].attached /\ s.obj[v].owner = p}
  BY InUse
<1>3. o \in Held(s, p)
  BY <1>2
<1>a. Freed(s, p, o, u)
  BY <1>1, <1>3, DetachIs
<1>4. /\ u \in Arenas /\ u.pilots = s.pilots /\ u.alive = s.alive
      /\ u.arr = s.arr /\ u.num = s.num /\ u.inBox = s.inBox
      /\ u.tmp = [s.tmp EXCEPT ![p] = IF s.tmp[p] = o THEN Nil ELSE s.tmp[p]]
      /\ u.carrying = IF Held(s, p) \subseteq {o} THEN s.carrying \ {p} ELSE s.carrying
      /\ u.obj = [s.obj EXCEPT ![o] = [s.obj[o] EXCEPT !.attached = FALSE]]
  BY <1>a DEF Freed
<1>5. /\ \A v \in Store : v # o => u.obj[v] = s.obj[v]
      /\ u.obj[o] = [s.obj[o] EXCEPT !.attached = FALSE]
  BY <1>1, <1>4
<1>6. s.obj[o] \in Things
  BY <1>1
<1>7. /\ u.obj[o].attached = FALSE /\ u.obj[o].type = s.obj[o].type /\ u.obj[o].of = s.obj[o].of
      /\ u.obj[o].owner = s.obj[o].owner /\ u.obj[o].expired = s.obj[o].expired
  BY <1>5, <1>6, ThingIs
<1>8. \A v \in Store : /\ u.obj[v].type = s.obj[v].type /\ u.obj[v].of = s.obj[v].of
                       /\ u.obj[v].owner = s.obj[v].owner /\ u.obj[v].expired = s.obj[v].expired
                       /\ u.obj[v].attached <=> s.obj[v].attached /\ v # o
  BY <1>5, <1>7
<1>9. Loosened(s, u)
  BY <1>4, <1>8 DEF Loosened, Orderly, Arranged
<1>10. Connected(u)
  <2>1. \A v \in Store : u.obj[v].attached => u.obj[v].owner \in u.carrying
    BY <1>1, <1>2, <1>4, <1>8 DEF Connected
  <2>2. \A q \in u.carrying : \E v \in Store : u.obj[v].attached /\ u.obj[v].owner = q
    <3> SUFFICES ASSUME NEW q \in u.carrying
                 PROVE  \E v \in Store : u.obj[v].attached /\ u.obj[v].owner = q
      OBVIOUS
    <3>1. q \in s.carrying
      BY <1>4
    <3>2. CASE q = p
      <4>1. ~(Held(s, p) \subseteq {o})
        BY <1>4, <3>2
      <4>2. PICK v \in Held(s, p) : v # o
        BY <4>1
      <4> QED
        BY <1>2, <1>8, <3>2, <4>2
    <3>3. CASE q # p
      <4>1. PICK v \in Store : s.obj[v].attached /\ s.obj[v].owner = q
        BY <1>1, <3>1 DEF Connected
      <4> QED
        BY <1>8, <3>3, <4>1
    <3> QED
      BY <3>2, <3>3
  <2>3. \A q \in Pilots : u.tmp[q] # Nil => u.tmp[q] = s.tmp[q]
    BY <1>1, <1>4
  <2>4. \A q \in Pilots : u.tmp[q] # Nil => q \in u.alive /\ IsBall(u, u.tmp[q])
    <3> SUFFICES ASSUME NEW q \in Pilots, u.tmp[q] # Nil
                 PROVE  q \in u.alive /\ IsBall(u, u.tmp[q])
      OBVIOUS
    <3>1. s.tmp[q] = u.tmp[q] /\ s.tmp[q] \in Store /\ q \in s.alive /\ IsBall(s, s.tmp[q])
      BY <1>1, <2>3 DEF Connected
    <3> QED
      BY <1>4, <1>8, <3>1 DEF IsBall
  <2>5. u.carrying \subseteq s.carrying
    BY <1>4
  <2>6. Crew(u.pilots, u.alive, u.carrying)
    <3>1. Crew(u.pilots, u.alive, s.carrying)
      BY <1>1, <1>4 DEF Connected
    <3> QED
      BY <2>5, <3>1 DEF Crew
  <2> QED
    BY <2>1, <2>2, <2>4, <2>6 DEF Connected
<1> QED
  BY <1>4, <1>8, <1>9, <1>10, LooseIsOrderly

(* What does not touch the balls and who holds them.                       *)
LEMMA ElseIsOrderly ==
  ASSUME NEW s, NEW u, Orderly(s), u \in Arenas,
         u.pilots = s.pilots, u.alive = s.alive, u.carrying = s.carrying, u.tmp = s.tmp,
         u.arr = s.arr, u.num = s.num, u.inBox = s.inBox,
         \A o \in Store : /\ u.obj[o].type = s.obj[o].type /\ u.obj[o].of = s.obj[o].of
                          /\ u.obj[o].attached = s.obj[o].attached
                          /\ u.obj[o].attached => u.obj[o].owner = s.obj[o].owner
                          /\ u.obj[o].expired => u.obj[o].type # "none"
  PROVE  Orderly(u)
<1>1. Loosened(s, u)
  BY DEF Loosened
<1>2. Connected(u)
  <2>1. Connected(s) /\ s.tmp \in [Pilots -> Store \cup {Nil}]
    BY DEF Orderly, Arenas
  <2>2. \A o \in Store : IsBall(u, o) <=> IsBall(s, o)
    BY DEF IsBall
  <2>3. \A o \in Store : u.obj[o].attached => u.obj[o].owner \in u.carrying
    BY <2>1 DEF Connected
  <2>4. \A p \in u.carrying : \E o \in Store : u.obj[o].attached /\ u.obj[o].owner = p
    BY <2>1 DEF Connected
  <2>5. \A p \in Pilots : u.tmp[p] # Nil => p \in u.alive /\ IsBall(u, u.tmp[p])
    BY <2>1, <2>2 DEF Connected
  <2> QED
    BY <2>1, <2>3, <2>4, <2>5 DEF Connected
<1> QED
  BY <1>1, <1>2, LooseIsOrderly

LEMMA ExpireKeeps ==
  ASSUME NEW s, Orderly(s), NEW os, \A o \in os \cap Store : s.obj[o].type # "none"
  PROVE  /\ Orderly(Expire(s, os))
         /\ Expire(s, os).pilots = s.pilots /\ Expire(s, os).alive = s.alive
         /\ Expire(s, os).carrying = s.carrying /\ Expire(s, os).tmp = s.tmp
         /\ Expire(s, os).arr = s.arr /\ Expire(s, os).num = s.num
         /\ \A o \in Store : /\ Expire(s, os).obj[o].type = s.obj[o].type
                             /\ Expire(s, os).obj[o].of = s.obj[o].of
                             /\ Expire(s, os).obj[o].attached = s.obj[o].attached
                             /\ Expire(s, os).obj[o].owner = s.obj[o].owner
<1> DEFINE things == [o \in Store |-> IF o \in os THEN [s.obj[o] EXCEPT !.expired = TRUE] ELSE s.obj[o]]
           u == Expire(s, os)
<1>1. s \in Arenas /\ s.obj \in [Store -> Things]
  BY DEF Orderly, Arenas
<1>2. ASSUME NEW o \in Store
      PROVE  /\ things[o] \in Things /\ things[o].type = s.obj[o].type /\ things[o].of = s.obj[o].of
             /\ things[o].attached = s.obj[o].attached /\ things[o].owner = s.obj[o].owner
             /\ things[o].expired => things[o].type # "none"
  <2>1. s.obj[o] \in Things /\ (s.obj[o].expired => s.obj[o].type # "none")
    BY <1>1 DEF Orderly, Arranged
  <2>2. CASE o \in os
    <3>1. s.obj[o].type # "none" /\ things[o] = [s.obj[o] EXCEPT !.expired = TRUE]
      BY <2>2
    <3> HIDE DEF things
    <3> QED
      BY <2>1, <3>1 DEF Things
  <2>3. CASE o \notin os
    <3>1. things[o] = s.obj[o]
      BY <2>3
    <3> QED
      BY <2>1, <3>1
  <2> QED
    BY <2>2, <2>3
<1>3. u = [s EXCEPT !.obj = things]
  BY DEF Expire
<1>4. things \in [Store -> Things]
  BY <1>2
<1> HIDE DEF things
<1>5. /\ u \in Arenas /\ u.pilots = s.pilots /\ u.alive = s.alive /\ u.carrying = s.carrying
      /\ u.tmp = s.tmp /\ u.arr = s.arr /\ u.num = s.num /\ u.inBox = s.inBox /\ u.obj = things
  BY <1>1, <1>3, <1>4 DEF Arenas
<1> HIDE DEF u
<1>6. Orderly(u)
  BY <1>2, <1>5, ElseIsOrderly
<1> QED
  BY <1>2, <1>5, <1>6 DEF u

LEMMA MoveObjectKeeps ==
  ASSUME NEW s, Orderly(s), NEW o \in Store, NEW snapped, NEW crashed,
         o \in crashed => s.obj[o].type # "none"
  PROVE  /\ Orderly(MoveObject(s, o, snapped, crashed))
         /\ MoveObject(s, o, snapped, crashed).pilots = s.pilots
         /\ MoveObject(s, o, snapped, crashed).alive = s.alive
         /\ MoveObject(s, o, snapped, crashed).arr = s.arr
         /\ MoveObject(s, o, snapped, crashed).num = s.num
         /\ \A v \in Store : MoveObject(s, o, snapped, crashed).obj[v].type = s.obj[v].type
<1> DEFINE let_go == IF o \in snapped /\ s.obj[o].attached THEN Detach(s, s.obj[o].owner, o) ELSE s
<1>1. /\ Orderly(let_go) /\ let_go.pilots = s.pilots /\ let_go.alive = s.alive
      /\ let_go.arr = s.arr /\ let_go.num = s.num
      /\ \A v \in Store : let_go.obj[v].type = s.obj[v].type
  <2>1. CASE o \in snapped /\ s.obj[o].attached
    <3>1. let_go = Detach(s, s.obj[o].owner, o)
      BY <2>1
    <3> HIDE DEF let_go
    <3> QED
      BY <2>1, <3>1, DetachKeeps
  <2>2. CASE ~(o \in snapped /\ s.obj[o].attached)
    BY <2>2
  <2> QED
    BY <2>1, <2>2
<1>2. MoveObject(s, o, snapped, crashed) = IF o \in crashed THEN Expire(let_go, {o}) ELSE let_go
  BY DEF MoveObject
<1> HIDE DEF let_go
<1>3. CASE o \in crashed
  <2>1. \A v \in {o} \cap Store : let_go.obj[v].type # "none"
    BY <1>1, <1>3
  <2>2. /\ Orderly(Expire(let_go, {o}))
        /\ Expire(let_go, {o}).pilots = let_go.pilots /\ Expire(let_go, {o}).alive = let_go.alive
        /\ Expire(let_go, {o}).arr = let_go.arr /\ Expire(let_go, {o}).num = let_go.num
        /\ \A v \in Store : Expire(let_go, {o}).obj[v].type = let_go.obj[v].type
    BY <1>1, <2>1, ExpireKeeps
  <2> QED
    BY <1>1, <1>2, <1>3, <2>2
<1>4. CASE o \notin crashed
  BY <1>1, <1>2, <1>4
<1> QED
  BY <1>3, <1>4

(***************************************************************************)
(* Object_remove and Ball_treasure_add.  The struct of a ball that is      *)
(* removed is the next one that Object_add gives out, so a treasure keeps  *)
(* its struct, and whoever was connecting to it remains connected to a     *)
(* ball.                                                                   *)
(***************************************************************************)

\* What the end of Object_remove leaves: i is the place of o.
Swapped(s, o, i, u) ==
  /\ i \in 1..s.num /\ s.arr[i] = o
  /\ u \in Arenas /\ u.pilots = s.pilots /\ u.alive = s.alive /\ u.carrying = s.carrying
  /\ u.tmp = s.tmp /\ u.inBox = s.inBox
  /\ u.num = s.num - 1
  /\ u.arr = [j \in Store |-> IF j = s.num THEN o ELSE IF j = i THEN s.arr[s.num] ELSE s.arr[j]]
  /\ u.obj = [s.obj EXCEPT ![o] = Wiped]

LEMMA WipedIs ==
  /\ Wiped \in Things /\ Wiped.type = "none" /\ ~Wiped.attached /\ ~Wiped.expired /\ Wiped.owner = Nil
  /\ \A t \in Treasures :
       Put(t) \in Things /\ Put(t).type = "ball" /\ ~Put(t).attached /\ ~Put(t).expired /\ Put(t).of = t
BY DEF Wiped, Put, Things

LEMMA PlaceIs ==
  ASSUME NEW s, s \in Arenas, NEW i, i \in 1..s.num
  PROVE  /\ s.num \in 1..MaxObjects /\ s.num \in Store /\ i \in Store /\ 1..s.num \subseteq Store
         /\ s.arr \in [Store -> Store] /\ s.obj \in [Store -> Things]
<1>1. s.num \in 0..MaxObjects /\ s.arr \in [Store -> Store] /\ s.obj \in [Store -> Things]
  BY DEF Arenas
<1>2. MaxObjects \in Nat
  BY StoreFacts
<1>3. s.num \in 1..MaxObjects /\ i \in 1..MaxObjects
  BY <1>1, <1>2
<1>4. s.num \in Store /\ i \in Store /\ 1..s.num \subseteq Store
  BY <1>2, <1>3 DEF Store
<1> QED
  BY <1>1, <1>3, <1>4

LEMMA SwapOutIs ==
  ASSUME NEW s \in Arenas, NEW o \in Store, \E i \in 1..s.num : s.arr[i] = o,
         NEW u, u = SwapOut(s, o)
  PROVE  \E i : Swapped(s, o, i, u)
<1> DEFINE i == CHOOSE j \in 1..s.num : s.arr[j] = o
           last == s.arr[s.num]
           arr2 == [[s.arr EXCEPT ![i] = last] EXCEPT ![s.num] = o]
           arr3 == [j \in Store |-> IF j = s.num THEN o ELSE IF j = i THEN last ELSE s.arr[j]]
<1>1. i \in 1..s.num /\ s.arr[i] = o
  OBVIOUS
<1>2. s.arr \in [Store -> Store] /\ s.num \in 1..MaxObjects /\ s.obj \in [Store -> Things]
      /\ s.num \in Store /\ i \in Store
  BY <1>1, PlaceIs
<1>3. last \in Store
  BY <1>2
<1>4. u = [s EXCEPT !.arr = arr2, !.num = @ - 1, !.obj[o] = Wiped]
  <2>1. u = [s EXCEPT !.arr = [@ EXCEPT ![i] = last, ![s.num] = o], !.num = @ - 1, !.obj[o] = Wiped]
    BY DEF SwapOut
  <2> HIDE DEF i, last
  <2> QED
    BY <2>1
<1> HIDE DEF i, last
<1>5. arr2 = arr3
  BY <1>2, <1>3
<1>6. arr3 \in [Store -> Store]
  BY <1>2, <1>3
<1>7. s.num - 1 \in 0..MaxObjects
  BY <1>2, StoreFacts
<1>8. [s.obj EXCEPT ![o] = Wiped] \in [Store -> Things]
  BY <1>2, WipedIs
<1> HIDE DEF arr2, arr3
<1>9. u = [s EXCEPT !.arr = arr3, !.num = s.num - 1, !.obj = [s.obj EXCEPT ![o] = Wiped]]
  BY <1>4, <1>5 DEF Arenas
<1> DEFINE things == [s.obj EXCEPT ![o] = Wiped]
<1>10. /\ u \in Arenas /\ u.pilots = s.pilots /\ u.alive = s.alive /\ u.carrying = s.carrying
       /\ u.tmp = s.tmp /\ u.inBox = s.inBox /\ u.num = s.num - 1 /\ u.arr = arr3 /\ u.obj = things
  <2>1. u = [s EXCEPT !.arr = arr3, !.num = s.num - 1, !.obj = things]
    BY <1>9
  <2>2. things \in [Store -> Things]
    BY <1>8
  <2> HIDE DEF things
  <2> QED
    BY <1>6, <1>7, <2>1, <2>2 DEF Arenas
<1>11. Swapped(s, o, i, u)
  BY <1>1, <1>10 DEF Swapped, arr3, last
<1> QED
  BY <1>11

\* The array after a struct was swapped out: n were in use.
Shifted(n, arr1, o, arr2) ==
  /\ n \in 1..MaxObjects /\ arr2 \in [Store -> Store] /\ arr2[n] = o
  /\ \A j, k \in Store : arr2[j] = arr2[k] => j = k
  /\ \A v \in Store : v # o => ((\E j \in 1..n : arr1[j] = v) <=> (\E j \in 1..(n - 1) : arr2[j] = v))
  /\ \A j \in 1..(n - 1) : arr2[j] # o

LEMMA SwappedArray ==
  ASSUME NEW s, s \in Arenas, Arranged(s), NEW o \in Store, NEW i, NEW u, Swapped(s, o, i, u)
  PROVE  Shifted(s.num, s.arr, o, u.arr)
<1>1. s.arr \in [Store -> Store] /\ s.num \in 1..MaxObjects /\ i \in 1..s.num /\ s.arr[i] = o
      /\ 1..s.num \subseteq Store /\ s.num \in Store /\ i \in Store
  BY PlaceIs DEF Swapped
<1>2. \A j \in Store : u.arr[j] = IF j = s.num THEN o ELSE IF j = i THEN s.arr[s.num] ELSE s.arr[j]
  BY DEF Swapped
<1>3. u.arr \in [Store -> Store]
  BY <1>1 DEF Swapped
<1>4. \A j, k \in Store : s.arr[j] = s.arr[k] => j = k
  BY DEF Arranged
<1>5. \A j, k \in Store : u.arr[j] = u.arr[k] => j = k
  BY <1>1, <1>2, <1>4
<1>6. ASSUME NEW v \in Store, v # o
      PROVE  (\E j \in 1..s.num : s.arr[j] = v) <=> (\E j \in 1..(s.num - 1) : u.arr[j] = v)
  <2>1. ASSUME NEW j \in 1..s.num, s.arr[j] = v PROVE \E k \in 1..(s.num - 1) : u.arr[k] = v
    <3>1. j # i
      BY <1>1, <1>6, <2>1
    <3>2. CASE j = s.num
      <4>1. i \in 1..(s.num - 1) /\ u.arr[i] = v
        BY <1>1, <1>2, <2>1, <3>1, <3>2
      <4> QED
        BY <4>1
    <3>3. CASE j # s.num
      <4>1. j \in 1..(s.num - 1) /\ u.arr[j] = v
        BY <1>1, <1>2, <2>1, <3>1, <3>3
      <4> QED
        BY <4>1
    <3> QED
      BY <3>2, <3>3
  <2>2. ASSUME NEW j \in 1..(s.num - 1), u.arr[j] = v PROVE \E k \in 1..s.num : s.arr[k] = v
    <3>1. j \in Store /\ j # s.num /\ j \in 1..s.num
      BY <1>1
    <3>2. CASE j = i
      <4>1. s.arr[s.num] = v /\ s.num \in 1..s.num
        BY <1>1, <1>2, <2>2, <3>1, <3>2
      <4> QED
        BY <4>1
    <3>3. CASE j # i
      BY <1>2, <2>2, <3>1, <3>3
    <3> QED
      BY <3>2, <3>3
  <2> QED
    BY <2>1, <2>2
<1>7. u.arr[s.num] = o
  BY <1>1, <1>2
<1>8. ASSUME NEW j \in 1..(s.num - 1) PROVE u.arr[j] # o
  <2>1. j \in Store /\ j # s.num
    BY <1>1
  <2> QED
    BY <1>1, <1>5, <1>7, <2>1
<1> QED
  BY <1>1, <1>3, <1>5, <1>6, <1>7, <1>8 DEF Shifted

LEMMA ShotIsRemoved ==
  ASSUME NEW s, Orderly(s), NEW o \in Store, s.obj[o].type # "none", ~IsBall(s, o),
         NEW u, u = SwapOut(s, o)
  PROVE  Orderly(u)
<1>1. s \in Arenas /\ Arranged(s) /\ Complete(s) /\ Connected(s) /\ s.obj \in [Store -> Things]
      /\ \E i \in 1..s.num : s.arr[i] = o
  BY DEF Orderly, Arenas, Arranged
<1>2. PICK i : Swapped(s, o, i, u)
  BY <1>1, SwapOutIs
<1>3. /\ u \in Arenas /\ u.pilots = s.pilots /\ u.alive = s.alive /\ u.carrying = s.carrying
      /\ u.tmp = s.tmp /\ u.inBox = s.inBox
  BY <1>2 DEF Swapped
<1>4. u.obj[o] = Wiped /\ \A v \in Store : v # o => u.obj[v] = s.obj[v]
  BY <1>1, <1>2 DEF Swapped
<1>5. u.obj[o].type = "none" /\ ~u.obj[o].attached /\ ~u.obj[o].expired
  BY <1>4, WipedIs
<1>6. ~s.obj[o].attached
  BY <1>1 DEF Complete
<1>7. Arranged(u)
  <2>0. Shifted(s.num, s.arr, o, u.arr) /\ u.num = s.num - 1
    BY <1>1, <1>2, SwappedArray DEF Swapped
  <2>1. /\ \A j, k \in Store : u.arr[j] = u.arr[k] => j = k
        /\ \A v \in Store : v # o => ((\E j \in 1..s.num : s.arr[j] = v) <=> (\E j \in 1..u.num : u.arr[j] = v))
        /\ \A j \in 1..u.num : u.arr[j] # o
    BY <2>0 DEF Shifted
  <2>2. ASSUME NEW v \in Store PROVE u.obj[v].type # "none" <=> \E j \in 1..u.num : u.arr[j] = v
    <3>1. CASE v = o
      BY <1>5, <2>1, <3>1
    <3>2. CASE v # o
      BY <1>1, <1>4, <2>1, <3>2 DEF Arranged
    <3> QED
      BY <3>1, <3>2
  <2>3. \A v \in Store : u.obj[v].expired => u.obj[v].type # "none"
    BY <1>1, <1>4, <1>5 DEF Arranged
  <2> QED
    BY <2>1, <2>2, <2>3 DEF Arranged
<1>8. \A v \in Store : /\ IsBall(u, v) <=> IsBall(s, v)
                       /\ u.obj[v].attached <=> s.obj[v].attached
                       /\ IsBall(s, v) => u.obj[v] = s.obj[v]
                       /\ s.obj[v].attached => u.obj[v] = s.obj[v]
  BY <1>4, <1>5, <1>6 DEF IsBall
<1>9. Complete(u)
  <2>1. \A v \in Store : u.obj[v].attached => IsBall(u, v) /\ ~u.inBox[u.obj[v].of]
    BY <1>1, <1>3, <1>8 DEF Complete
  <2>2. \A v \in Store : IsBall(u, v) => u.obj[v].of \in Treasures
    BY <1>1, <1>8 DEF Complete
  <2>3. ASSUME NEW t \in Treasures
        PROVE  \E w \in Store : \A v \in Store : IsBall(u, v) /\ u.obj[v].of = t <=> v = w
    <3>1. PICK w \in Store : \A v \in Store : IsBall(s, v) /\ s.obj[v].of = t <=> v = w
      BY <1>1 DEF Complete
    <3>2. \A v \in Store : IsBall(u, v) /\ u.obj[v].of = t <=> v = w
      BY <1>8, <3>1
    <3> QED
      BY <3>2
  <2> QED
    BY <2>1, <2>2, <2>3 DEF Complete
<1>10. Connected(u)
  <2>1. \A v \in Store : u.obj[v].attached => u.obj[v].owner \in u.carrying
    BY <1>1, <1>3, <1>8 DEF Connected
  <2>2. \A p \in u.carrying : \E v \in Store : u.obj[v].attached /\ u.obj[v].owner = p
    BY <1>1, <1>3, <1>8 DEF Connected
  <2>3. \A p \in Pilots : u.tmp[p] # Nil => p \in u.alive /\ IsBall(u, u.tmp[p])
    <3>1. s.tmp \in [Pilots -> Store \cup {Nil}]
      BY <1>1 DEF Arenas
    <3> QED
      BY <1>1, <1>3, <1>8, <3>1 DEF Connected
  <2> QED
    BY <1>1, <1>3, <2>1, <2>2, <2>3 DEF Connected
<1> QED
  BY <1>3, <1>7, <1>9, <1>10 DEF Orderly

LEMMA BallIsRenewed ==
  ASSUME NEW s, Orderly(s), NEW o \in Store, IsBall(s, o), ~s.obj[o].attached,
         NEW t, t = s.obj[o].of,
         NEW r, r = SwapOut([s EXCEPT !.inBox[t] = FALSE], o),
         NEW u, u = AddBall(r, t)
  PROVE  Orderly(u)
<1>1. s \in Arenas /\ Arranged(s) /\ Complete(s) /\ Connected(s) /\ s.obj \in [Store -> Things]
      /\ s.inBox \in [Treasures -> BOOLEAN] /\ s.tmp \in [Pilots -> Store \cup {Nil}]
  BY DEF Orderly, Arenas
<1>2. t \in Treasures /\ s.obj[o].type # "none"
  BY <1>1 DEF Complete, IsBall
<1> DEFINE e == [s EXCEPT !.inBox[t] = FALSE]
<1>3. /\ e \in Arenas /\ e.pilots = s.pilots /\ e.alive = s.alive /\ e.carrying = s.carrying
      /\ e.tmp = s.tmp /\ e.inBox = [s.inBox EXCEPT ![t] = FALSE]
      /\ e.arr = s.arr /\ e.num = s.num /\ e.obj = s.obj
  <2>1. [s.inBox EXCEPT ![t] = FALSE] \in [Treasures -> BOOLEAN]
    BY <1>1
  <2>2. e = [s EXCEPT !.inBox = [s.inBox EXCEPT ![t] = FALSE]]
    OBVIOUS
  <2> HIDE DEF e
  <2> QED
    BY <1>1, <2>1, <2>2 DEF Arenas
<1> HIDE DEF e
<1>4. \E i \in 1..e.num : e.arr[i] = o
  BY <1>1, <1>2, <1>3 DEF Arranged
<1>5. PICK i : Swapped(e, o, i, r)
  BY <1>3, <1>4, SwapOutIs DEF e
<1>6. Arranged(e)
  BY <1>1, <1>3 DEF Arranged
<1>a. Shifted(e.num, e.arr, o, r.arr)
  BY <1>3, <1>5, <1>6, SwappedArray
<1>7. Shifted(s.num, s.arr, o, r.arr)
  BY <1>3, <1>a
<1>8. /\ r \in Arenas /\ r.pilots = s.pilots /\ r.alive = s.alive /\ r.carrying = s.carrying
      /\ r.tmp = s.tmp /\ r.inBox = [s.inBox EXCEPT ![t] = FALSE]
      /\ r.num = s.num - 1 /\ r.obj = [s.obj EXCEPT ![o] = Wiped]
  BY <1>3, <1>5 DEF Swapped
<1>9. r.num # MaxObjects /\ r.num + 1 = s.num /\ s.num \in 1..MaxObjects /\ r.arr[s.num] = o
  <2>1. MaxObjects \in Nat /\ s.num \in 1..MaxObjects /\ r.num = s.num - 1
    BY <1>7, <1>8, StoreFacts DEF Shifted
  <2> QED
    BY <1>7, <2>1 DEF Shifted
<1> DEFINE things == [s.obj EXCEPT ![o] = Put(t)]
           boxes == [s.inBox EXCEPT ![t] = TRUE]
<1>10. u = [r EXCEPT !.obj = things, !.num = s.num, !.inBox = boxes]
  <2>1. AddObject(r, Put(t)) = [r EXCEPT !.obj[o] = Put(t), !.num = @ + 1]
    BY <1>9 DEF AddObject
  <2>2. r.obj[o] = Wiped /\ [r.obj EXCEPT ![o] = Put(t)] = things
    BY <1>1, <1>8
  <2>3. [r.inBox EXCEPT ![t] = TRUE] = boxes
    BY <1>1, <1>2, <1>8
  <2>4. [r EXCEPT !.obj[o] = Put(t), !.num = @ + 1] = [r EXCEPT !.obj = [r.obj EXCEPT ![o] = Put(t)], !.num = r.num + 1]
    OBVIOUS
  <2>5. u = [[r EXCEPT !.obj = things, !.num = s.num] EXCEPT !.inBox[t] = TRUE]
    BY <1>9, <2>1, <2>2, <2>4 DEF AddBall
  <2> HIDE DEF things, boxes
  <2> QED
    BY <1>8, <2>3, <2>5 DEF Arenas
<1>11. things \in [Store -> Things] /\ boxes \in [Treasures -> BOOLEAN] /\ s.num \in 0..MaxObjects
  BY <1>1, <1>2, <1>9, WipedIs
<1>12. /\ things[o] = Put(t) /\ \A v \in Store : v # o => things[v] = s.obj[v]
       /\ boxes[t] = TRUE /\ \A v \in Treasures : v # t => boxes[v] = s.inBox[v]
  BY <1>1, <1>2
<1> HIDE DEF things, boxes
<1>13. /\ u \in Arenas /\ u.pilots = s.pilots /\ u.alive = s.alive /\ u.carrying = s.carrying
       /\ u.tmp = s.tmp /\ u.inBox = boxes /\ u.num = s.num /\ u.arr = r.arr /\ u.obj = things
  BY <1>8, <1>10, <1>11 DEF Arenas
<1>14. /\ u.obj[o].type = "ball" /\ ~u.obj[o].attached /\ ~u.obj[o].expired /\ u.obj[o].of = t
       /\ \A v \in Store : v # o => u.obj[v] = s.obj[v]
  <2>1. Put(t).type = "ball" /\ ~Put(t).attached /\ ~Put(t).expired /\ Put(t).of = t
    BY <1>2, WipedIs
  <2>2. u.obj[o] = Put(t)
    BY <1>12, <1>13
  <2> QED
    BY <1>12, <1>13, <2>1, <2>2
<1>15. Arranged(u)
  <2>1. ASSUME NEW v \in Store PROVE u.obj[v].type # "none" <=> \E j \in 1..u.num : u.arr[j] = v
    <3>1. CASE v = o
      <4>1. u.obj[v].type # "none"
        BY <1>14, <3>1
      <4>2. s.num \in 1..u.num /\ u.arr[s.num] = v
        BY <1>9, <1>13, <3>1
      <4> QED
        BY <4>1, <4>2
    <3>2. CASE v # o
      <4>1. (\E j \in 1..s.num : s.arr[j] = v) <=> (\E j \in 1..(s.num - 1) : r.arr[j] = v)
        BY <1>7, <3>2 DEF Shifted
      <4>2. (\E j \in 1..(s.num - 1) : r.arr[j] = v) <=> (\E j \in 1..s.num : r.arr[j] = v)
        <5>1. \A j \in 1..s.num : j \in 1..(s.num - 1) \/ j = s.num
          BY <1>9
        <5>2. \A j \in 1..(s.num - 1) : j \in 1..s.num
          BY <1>9
        <5>3. r.arr[s.num] # v
          BY <1>9, <3>2
        <5> QED
          BY <5>1, <5>2, <5>3
      <4>3. u.obj[v].type # "none" <=> \E j \in 1..s.num : s.arr[j] = v
        BY <1>1, <1>14, <3>2 DEF Arranged
      <4> QED
        BY <1>13, <4>1, <4>2, <4>3
    <3> QED
      BY <3>1, <3>2
  <2>2. \A v \in Store : u.obj[v].expired => u.obj[v].type # "none"
    BY <1>1, <1>14 DEF Arranged
  <2>3. \A j, k \in Store : u.arr[j] = u.arr[k] => j = k
    <3>1. \A j, k \in Store : r.arr[j] = r.arr[k] => j = k
      BY <1>7 DEF Shifted
    <3>2. u.arr = r.arr
      BY <1>13
    <3> QED
      BY <3>1, <3>2
  <2> QED
    BY <2>1, <2>2, <2>3 DEF Arranged
<1>16. \A v \in Store : /\ IsBall(u, v) <=> IsBall(s, v)
                        /\ IsBall(s, v) => u.obj[v].of = s.obj[v].of
                        /\ u.obj[v].attached <=> s.obj[v].attached
                        /\ s.obj[v].attached => u.obj[v] = s.obj[v] /\ v # o
  BY <1>14 DEF IsBall
<1>17. Complete(u)
  <2>1. ASSUME NEW v \in Store, u.obj[v].attached PROVE IsBall(u, v) /\ ~u.inBox[u.obj[v].of]
    <3>1. s.obj[v].attached /\ v # o /\ u.obj[v].of = s.obj[v].of
      BY <1>16, <2>1
    <3>2. IsBall(s, v) /\ ~s.inBox[s.obj[v].of] /\ s.obj[v].of \in Treasures
      BY <1>1, <3>1 DEF Complete
    <3>3. s.obj[v].of # t
      BY <1>1, <1>2, <3>1, <3>2 DEF Complete
    <3> QED
      BY <1>12, <1>13, <1>16, <3>1, <3>2, <3>3
  <2>2. \A v \in Store : IsBall(u, v) => u.obj[v].of \in Treasures
    BY <1>1, <1>16 DEF Complete
  <2>3. ASSUME NEW q \in Treasures
        PROVE  \E w \in Store : \A v \in Store : IsBall(u, v) /\ u.obj[v].of = q <=> v = w
    <3>1. PICK w \in Store : \A v \in Store : IsBall(s, v) /\ s.obj[v].of = q <=> v = w
      BY <1>1 DEF Complete
    <3>2. ASSUME NEW v \in Store PROVE IsBall(u, v) /\ u.obj[v].of = q <=> v = w
      <4>1. /\ IsBall(u, v) <=> IsBall(s, v)
            /\ IsBall(s, v) => u.obj[v].of = s.obj[v].of
        BY <1>16
      <4>2. IsBall(s, v) /\ s.obj[v].of = q <=> v = w
        BY <3>1
      <4> QED
        BY <4>1, <4>2
    <3> QED
      BY <3>2
  <2> QED
    BY <2>1, <2>2, <2>3 DEF Complete
<1>18. Connected(u)
  <2>1. \A v \in Store : u.obj[v].attached => u.obj[v].owner \in u.carrying
    BY <1>1, <1>13, <1>16 DEF Connected
  <2>2. ASSUME NEW p \in u.carrying PROVE \E v \in Store : u.obj[v].attached /\ u.obj[v].owner = p
    <3>1. PICK v \in Store : s.obj[v].attached /\ s.obj[v].owner = p
      BY <1>1, <1>13 DEF Connected
    <3> QED
      BY <1>16, <3>1
  <2>3. ASSUME NEW p \in Pilots, u.tmp[p] # Nil PROVE p \in u.alive /\ IsBall(u, u.tmp[p])
    <3>1. s.tmp[p] = u.tmp[p] /\ s.tmp[p] \in Store /\ p \in s.alive /\ IsBall(s, s.tmp[p])
      BY <1>1, <1>13, <2>3 DEF Connected
    <3> QED
      BY <1>13, <1>16, <3>1
  <2>4. Crew(u.pilots, u.alive, u.carrying)
    BY <1>1, <1>13 DEF Connected
  <2> QED
    BY <2>1, <2>2, <2>3, <2>4 DEF Connected
<1> QED
  BY <1>13, <1>15, <1>17, <1>18 DEF Orderly

\* What takes their balls from the players of ps, if any, and lets no others
\* try for a ball but those who are alive.
Released(s, u, ps) ==
  /\ u \in Arenas
  /\ u.arr = s.arr /\ u.num = s.num /\ u.inBox = s.inBox /\ u.carrying = s.carrying \ ps
  /\ Crew(u.pilots, u.alive, u.carrying)
  /\ \A p \in Pilots : u.tmp[p] # Nil => p \in u.alive /\ IsBall(s, u.tmp[p])
  /\ \A o \in Store : /\ u.obj[o].type = s.obj[o].type /\ u.obj[o].of = s.obj[o].of
                      /\ u.obj[o].attached <=> s.obj[o].attached /\ s.obj[o].owner \notin ps
                      /\ u.obj[o].attached => u.obj[o].owner = s.obj[o].owner
                      /\ u.obj[o].expired => u.obj[o].type # "none"

LEMMA ReleasedIsOrderly ==
  ASSUME NEW s, NEW u, NEW ps, Orderly(s), Released(s, u, ps)
  PROVE  Orderly(u)
<1>0. /\ u \in Arenas
      /\ u.arr = s.arr /\ u.num = s.num /\ u.inBox = s.inBox /\ u.carrying = s.carrying \ ps
      /\ Crew(u.pilots, u.alive, u.carrying)
      /\ \A p \in Pilots : u.tmp[p] # Nil => p \in u.alive /\ IsBall(s, u.tmp[p])
      /\ \A o \in Store : /\ u.obj[o].type = s.obj[o].type /\ u.obj[o].of = s.obj[o].of
                          /\ u.obj[o].attached <=> s.obj[o].attached /\ s.obj[o].owner \notin ps
                          /\ u.obj[o].attached => u.obj[o].owner = s.obj[o].owner
                          /\ u.obj[o].expired => u.obj[o].type # "none"
  BY DEF Released
<1>1. Loosened(s, u)
  BY <1>0 DEF Loosened
<1>2. Connected(u)
  <2>1. Connected(s) /\ u.tmp \in [Pilots -> Store \cup {Nil}]
    BY <1>0 DEF Orderly, Arenas
  <2>2. \A o \in Store : IsBall(u, o) <=> IsBall(s, o)
    BY <1>0 DEF IsBall
  <2>3. ASSUME NEW o \in Store, u.obj[o].attached PROVE u.obj[o].owner \in u.carrying
    <3>1. s.obj[o].attached /\ s.obj[o].owner \notin ps /\ u.obj[o].owner = s.obj[o].owner
      BY <1>0, <2>3
    <3>2. s.obj[o].owner \in s.carrying
      BY <2>1, <3>1 DEF Connected
    <3> QED
      BY <1>0, <3>1, <3>2
  <2>4. ASSUME NEW p \in u.carrying PROVE \E o \in Store : u.obj[o].attached /\ u.obj[o].owner = p
    <3>1. PICK o \in Store : s.obj[o].attached /\ s.obj[o].owner = p
      BY <1>0, <2>1 DEF Connected
    <3>2. u.obj[o].attached /\ u.obj[o].owner = p
      BY <1>0, <3>1
    <3> QED
      BY <3>2
  <2>5. ASSUME NEW p \in Pilots, u.tmp[p] # Nil PROVE p \in u.alive /\ IsBall(u, u.tmp[p])
    BY <1>0, <2>1, <2>2, <2>5
  <2> QED
    BY <1>0, <2>3, <2>4, <2>5 DEF Connected
<1> QED
  BY <1>0, <1>1, <1>2, LooseIsOrderly

(* Objects_remove_timed_out, for one object.                               *)
LEMMA TimeOutKeeps ==
  ASSUME NEW s, Orderly(s), NEW o \in Store
  PROVE  Orderly(TimeOut(s, o))
<1>1. s \in Arenas /\ Arranged(s) /\ Complete(s) /\ Connected(s)
  BY DEF Orderly
<1>2. CASE ~s.obj[o].expired
  BY <1>2 DEF TimeOut
<1>3. CASE s.obj[o].expired /\ ~IsBall(s, o)
  <2>1. s.obj[o].type # "none"
    BY <1>1, <1>3 DEF Arranged
  <2>2. TimeOut(s, o) = SwapOut(s, o)
    BY <1>3 DEF TimeOut, RemoveObject, IsBall
  <2> QED
    BY <1>3, <2>1, <2>2, ShotIsRemoved
<1>4. CASE s.obj[o].expired /\ IsBall(s, o)
  <2> DEFINE let_go == IF s.obj[o].attached THEN Detach(s, s.obj[o].owner, o)
                       ELSE [s EXCEPT !.tmp = [p \in Pilots |->
                               IF s.tmp[p] = o /\ p \in Aboard(s) THEN Nil ELSE s.tmp[p]]]
  <2>1. /\ Orderly(let_go) /\ ~let_go.obj[o].attached
        /\ let_go.obj[o].of = s.obj[o].of /\ let_go.obj[o].type = s.obj[o].type
    <3>1. CASE s.obj[o].attached
      <4>1. let_go = Detach(s, s.obj[o].owner, o)
        BY <3>1
      <4> HIDE DEF let_go
      <4> QED
        BY <3>1, <4>1, DetachKeeps
    <3>2. CASE ~s.obj[o].attached
      <4> DEFINE tries == [p \in Pilots |-> IF s.tmp[p] = o /\ p \in Aboard(s) THEN Nil ELSE s.tmp[p]]
      <4>1. let_go = [s EXCEPT !.tmp = tries]
        BY <3>2
      <4>2. tries \in [Pilots -> Store \cup {Nil}]
        BY <1>1 DEF Arenas
      <4>3. \A p \in Pilots : tries[p] # Nil => p \in s.alive /\ IsBall(s, tries[p])
        BY <1>1 DEF Connected
      <4> HIDE DEF let_go, tries
      <4>4. /\ let_go \in Arenas /\ let_go.pilots = s.pilots /\ let_go.alive = s.alive
            /\ let_go.carrying = s.carrying /\ let_go.arr = s.arr /\ let_go.num = s.num
            /\ let_go.inBox = s.inBox /\ let_go.obj = s.obj /\ let_go.tmp = tries
        BY <1>1, <4>1, <4>2 DEF Arenas
      <4>5. Crew(let_go.pilots, let_go.alive, let_go.carrying)
        BY <1>1, <4>4 DEF Connected
      <4>6. let_go.carrying = s.carrying \ {}
        BY <4>4
      <4>7. \A p \in Pilots : let_go.tmp[p] # Nil => p \in let_go.alive /\ IsBall(s, let_go.tmp[p])
        BY <4>3, <4>4
      <4>8. \A v \in Store :
              /\ let_go.obj[v].type = s.obj[v].type /\ let_go.obj[v].of = s.obj[v].of
              /\ let_go.obj[v].attached <=> s.obj[v].attached /\ s.obj[v].owner \notin {}
              /\ let_go.obj[v].attached => let_go.obj[v].owner = s.obj[v].owner
              /\ let_go.obj[v].expired => let_go.obj[v].type # "none"
        BY <1>1, <4>4 DEF Arranged
      <4>9. Orderly(let_go)
        <5>1. Released(s, let_go, {})
          BY <4>4, <4>5, <4>6, <4>7, <4>8 DEF Released
        <5> QED
          BY <5>1, ReleasedIsOrderly
      <4> QED
        BY <3>2, <4>4, <4>9
    <3> QED
      BY <3>1, <3>2
  <2>2. TimeOut(s, o) = AddBall(SwapOut([let_go EXCEPT !.inBox[s.obj[o].of] = FALSE], o), s.obj[o].of)
    BY <1>4 DEF TimeOut, RemoveObject, IsBall
  <2> HIDE DEF let_go
  <2>3. PICK t : t = s.obj[o].of
    OBVIOUS
  <2>4. PICK r : r = SwapOut([let_go EXCEPT !.inBox[t] = FALSE], o)
    OBVIOUS
  <2>5. t = let_go.obj[o].of /\ IsBall(let_go, o)
    BY <1>4, <2>1, <2>3 DEF IsBall
  <2>6. PICK u : u = AddBall(r, t)
    OBVIOUS
  <2>7. Orderly(u)
    BY <2>1, <2>4, <2>5, <2>6, BallIsRenewed
  <2> QED
    BY <2>2, <2>3, <2>4, <2>6, <2>7
<1> QED
  BY <1>2, <1>3, <1>4

(***************************************************************************)
(* The players: killed, paused, gone home, or removed.                     *)
(***************************************************************************)

\* What Ball_detach of all balls leaves for the players of ps.
LetGo(s, ps, u) ==
  /\ u \in Arenas /\ u.pilots = s.pilots /\ u.alive = s.alive /\ u.killed = s.killed
  /\ u.arr = s.arr /\ u.num = s.num /\ u.inBox = s.inBox /\ u.carrying = s.carrying \ ps
  /\ \A p \in Pilots : u.tmp[p] # Nil => p \notin ps /\ u.tmp[p] = s.tmp[p]
  /\ \A o \in Store : /\ u.obj[o].type = s.obj[o].type /\ u.obj[o].of = s.obj[o].of
                      /\ u.obj[o].owner = s.obj[o].owner /\ u.obj[o].expired = s.obj[o].expired
                      /\ u.obj[o].attached <=> s.obj[o].attached /\ s.obj[o].owner \notin ps

LEMMA DetachAllIs ==
  ASSUME NEW s, Orderly(s), NEW ps, NEW u, u = DetachAll(s, ps)
  PROVE  LetGo(s, ps, u)
<1> DEFINE tries == [p \in Pilots |-> IF p \in ps THEN Nil ELSE s.tmp[p]]
           lost(o) == \E p \in ps \cap s.carrying : o \in Held(s, p)
           things == [o \in Store |-> IF lost(o) THEN [s.obj[o] EXCEPT !.attached = FALSE] ELSE s.obj[o]]
<1>1. s \in Arenas /\ s.tmp \in [Pilots -> Store \cup {Nil}] /\ s.obj \in [Store -> Things] /\ Connected(s)
  BY DEF Orderly, Arenas
<1>2. ASSUME NEW o \in Store PROVE lost(o) <=> s.obj[o].attached /\ s.obj[o].owner \in ps
  <2>1. \A p : Held(s, p) = {v \in Store : s.obj[v].attached /\ s.obj[v].owner = p}
    BY InUse
  <2> QED
    BY <1>1, <2>1 DEF Connected
<1>3. ASSUME NEW o \in Store
      PROVE  /\ things[o] \in Things
             /\ things[o].type = s.obj[o].type /\ things[o].of = s.obj[o].of
             /\ things[o].owner = s.obj[o].owner /\ things[o].expired = s.obj[o].expired
             /\ things[o].attached <=> s.obj[o].attached /\ s.obj[o].owner \notin ps
  <2>1. s.obj[o] \in Things
    BY <1>1
  <2>2. CASE lost(o)
    <3>1. things[o] = [s.obj[o] EXCEPT !.attached = FALSE]
      BY <2>2
    <3>2. s.obj[o].attached /\ s.obj[o].owner \in ps
      BY <1>2, <2>2
    <3> HIDE DEF things, lost
    <3> QED
      BY <2>1, <3>1, <3>2 DEF Things
  <2>3. CASE ~lost(o)
    <3>1. things[o] = s.obj[o]
      BY <2>3
    <3>2. ~(s.obj[o].attached /\ s.obj[o].owner \in ps)
      BY <1>2, <2>3
    <3> HIDE DEF things, lost
    <3> QED
      BY <2>1, <3>1, <3>2
  <2> QED
    BY <2>2, <2>3
<1>4. things \in [Store -> Things]
  BY <1>3
<1>5. tries \in [Pilots -> Store \cup {Nil}] /\ \A p \in Pilots : tries[p] # Nil => p \notin ps /\ tries[p] = s.tmp[p]
  BY <1>1
<1>6. u = [s EXCEPT !.tmp = tries, !.connector = @ \ ps, !.obj = things, !.carrying = @ \ ps]
  BY DEF DetachAll
<1> HIDE DEF tries, things
<1>7. /\ u \in Arenas /\ u.pilots = s.pilots /\ u.alive = s.alive /\ u.killed = s.killed
      /\ u.arr = s.arr /\ u.num = s.num /\ u.inBox = s.inBox /\ u.carrying = s.carrying \ ps
      /\ u.tmp = tries /\ u.obj = things
  BY <1>1, <1>4, <1>5, <1>6 DEF Arenas
<1> QED
  BY <1>3, <1>5, <1>7 DEF LetGo

\* In order again, with these players alive and those killed.
Treated(s, u, living, dead) ==
  /\ Orderly(u) /\ u.pilots = s.pilots /\ u.alive = living /\ u.killed = dead
  /\ \A o \in Store : u.obj[o].type = s.obj[o].type

LEMMA LetGoIsOrderly ==
  ASSUME NEW s, Orderly(s), NEW ps, NEW v, LetGo(s, ps, v), NEW living, NEW dead,
         living \subseteq s.alive, s.alive \ ps \subseteq living, dead \in SUBSET Pilots,
         NEW u, u = [v EXCEPT !.alive = living, !.killed = dead]
  PROVE  Treated(s, u, living, dead)
<1>1. s \in Arenas /\ Arranged(s) /\ Connected(s) /\ s.alive \in SUBSET Pilots
  BY DEF Orderly, Arenas
<1>2. v \in Arenas
  BY DEF LetGo
<1>3. /\ u \in Arenas /\ u.pilots = v.pilots /\ u.alive = living /\ u.carrying = v.carrying /\ u.tmp = v.tmp
      /\ u.arr = v.arr /\ u.num = v.num /\ u.inBox = v.inBox /\ u.obj = v.obj /\ u.killed = dead
  BY <1>1, <1>2 DEF Arenas
<1>4. /\ u.pilots = s.pilots /\ u.arr = s.arr /\ u.num = s.num /\ u.inBox = s.inBox
      /\ u.carrying = s.carrying \ ps
  BY <1>3 DEF LetGo
<1>5. Crew(u.pilots, u.alive, u.carrying)
  <2>1. Crew(s.pilots, s.alive, s.carrying)
    BY <1>1 DEF Connected
  <2>2. Crew(s.pilots, living, s.carrying \ ps)
    BY <2>1 DEF Crew
  <2> QED
    BY <1>3, <1>4, <2>2
<1>6. \A p \in Pilots : u.tmp[p] # Nil => p \in u.alive /\ IsBall(s, u.tmp[p])
  BY <1>1, <1>3 DEF LetGo, Connected
<1>7. \A o \in Store :
        /\ u.obj[o].type = s.obj[o].type /\ u.obj[o].of = s.obj[o].of
        /\ u.obj[o].attached <=> s.obj[o].attached /\ s.obj[o].owner \notin ps
        /\ u.obj[o].attached => u.obj[o].owner = s.obj[o].owner
        /\ u.obj[o].expired => u.obj[o].type # "none"
  BY <1>1, <1>3 DEF LetGo, Arranged
<1>8. Released(s, u, ps)
  BY <1>3, <1>4, <1>5, <1>6, <1>7 DEF Released
<1> QED
  BY <1>3, <1>4, <1>7, <1>8, ReleasedIsOrderly DEF Treated

LEMMA DestroyKeeps ==
  ASSUME NEW s, Orderly(s), NEW ps, NEW u, u = Destroy(s, ps)
  PROVE  Treated(s, u, s.alive \ ps, s.killed \ ps)
<1>1. PICK v : v = DetachAll(s, ps)
  OBVIOUS
<1>2. LetGo(s, ps, v)
  BY <1>1, DetachAllIs
<1>3. v \in Arenas /\ v.alive = s.alive /\ v.killed = s.killed /\ s.killed \in SUBSET Pilots
  BY <1>2 DEF LetGo, Orderly, Arenas
<1>4. u = [v EXCEPT !.alive = s.alive \ ps, !.killed = s.killed \ ps]
  BY <1>1, <1>3 DEF Destroy
<1>5. PICK living, dead : living = s.alive \ ps /\ dead = s.killed \ ps
  OBVIOUS
<1>6. /\ living \subseteq s.alive /\ s.alive \ ps \subseteq living /\ dead \in SUBSET Pilots
      /\ u = [v EXCEPT !.alive = living, !.killed = dead]
  BY <1>3, <1>4, <1>5
<1> QED
  BY <1>2, <1>5, <1>6, LetGoIsOrderly

(***************************************************************************)
(* The loops through Obj[].                                                *)
(***************************************************************************)

TidyArenas == {u \in Arenas : Orderly(u)}

TimeOutStep(n) == [x \in (1..n) \X TidyArenas |-> TimeOut(x[2], x[2].arr[n + 1 - x[1]])]

LEMMA IndexIs ==
  ASSUME NEW n, n \in 0..MaxObjects, NEW k \in 1..n, NEW u \in Arenas
  PROVE  u.arr[n + 1 - k] \in Store
<1>1. n + 1 - k \in Store
  BY StoreFacts DEF Store
<1>2. u.arr \in [Store -> Store]
  BY DEF Arenas
<1> QED
  BY <1>1, <1>2

LEMMA RemoveTimedOutKeeps ==
  ASSUME NEW s, Orderly(s)
  PROVE  Orderly(RemoveTimedOut(s))
<1> DEFINE n == s.num
           S == TidyArenas
           Loop(f) == f = [k \in 0..n |->
                             IF k = 0 THEN s ELSE TimeOut(f[k - 1], f[k - 1].arr[n + 1 - k])]
<1>1. s \in S /\ n \in 0..MaxObjects /\ n \in Nat
  BY StoreFacts DEF TidyArenas, Orderly, Arenas
<1>2. TimeOutStep(n) \in Rounded(n, S)
  <2>1. ASSUME NEW x \in (1..n) \X S PROVE TimeOut(x[2], x[2].arr[n + 1 - x[1]]) \in S
    <3>1. PICK o : o = x[2].arr[n + 1 - x[1]]
      OBVIOUS
    <3>2. o \in Store /\ Orderly(x[2])
      BY <1>1, <3>1, IndexIs DEF TidyArenas
    <3>3. Orderly(TimeOut(x[2], o))
      BY <3>2, TimeOutKeeps
    <3> QED
      BY <3>1, <3>3 DEF TidyArenas, Orderly
  <2> QED
    BY <2>1 DEF TimeOutStep, Rounded
<1>3. PICK f : /\ f \in [0..n -> S] /\ f[0] = s
               /\ \A k \in 1..n : f[k] = TimeOutStep(n)[<<k, f[k - 1]>>]
  <2> HIDE DEF n, S
  <2>1. PICK f : Run(f, n, S, s, TimeOutStep(n))
    BY <1>1, <1>2, Iterated
  <2> QED
    BY <2>1 DEF Run
<1>4. ASSUME NEW k \in 1..n
      PROVE  f[k] = TimeOut(f[k - 1], f[k - 1].arr[n + 1 - k])
  <2>1. k - 1 \in 0..n /\ f[k - 1] \in S
    <3> HIDE DEF n, S
    <3> QED
      BY <1>1, <1>3
  <2>2. TimeOutStep(n)[<<k, f[k - 1]>>] = TimeOut(f[k - 1], f[k - 1].arr[n + 1 - k])
    BY <2>1, Zenon DEF TimeOutStep
  <2> QED
    BY <1>3, <2>2
<1>5. Loop(f)
  <2> DEFINE g == [k \in 0..n |-> IF k = 0 THEN s ELSE TimeOut(f[k - 1], f[k - 1].arr[n + 1 - k])]
  <2>1. ASSUME NEW k \in 0..n PROVE f[k] = g[k]
    <3>1. k = 0 \/ k \in 1..n
      BY <1>1
    <3> QED
      BY <1>3, <1>4, <3>1
  <2>2. f = [k \in 0..n |-> f[k]]
    BY <1>3
  <2> HIDE DEF g
  <2>3. g = [k \in 0..n |-> g[k]]
    BY DEF g
  <2>4. f = g
    BY <2>1, <2>2, <2>3
  <2> QED
    BY <2>4 DEF g
<1> DEFINE after == CHOOSE h : Loop(h)
<1>6. Loop(after)
  <2> HIDE DEF Loop
  <2> QED
    BY <1>5
<1>7. RemoveTimedOut(s) = after[n]
  BY DEF RemoveTimedOut, ThroughObj
<1> HIDE DEF after
<1>8. \A k \in 0..n : after[k] = IF k = 0 THEN s ELSE TimeOut(after[k - 1], after[k - 1].arr[n + 1 - k])
  BY <1>6
<1> DEFINE T == {k \in 0..n : Orderly(after[k])}
<1>9. 0 \in T /\ \A k \in 1..n : k - 1 \in T => k \in T
  <2>1. 0 \in T
    BY <1>1, <1>8
  <2>2. ASSUME NEW k \in 1..n, k - 1 \in T PROVE k \in T
    <3>1. PICK u, o : u = after[k - 1] /\ o = u.arr[n + 1 - k]
      OBVIOUS
    <3>2. Orderly(u) /\ u \in Arenas
      BY <2>2, <3>1 DEF Orderly
    <3>3. Orderly(TimeOut(u, o))
      BY <1>1, <3>1, <3>2, IndexIs, TimeOutKeeps
    <3>4. k \in 0..n /\ after[k] = TimeOut(u, o)
      BY <1>1, <1>8, <3>1
    <3> QED
      BY <3>3, <3>4
  <2> QED
    BY <2>1, <2>2
<1> HIDE DEF T
<1>10. n \in T
  BY <1>1, <1>9, UpTo
<1> QED
  BY <1>7, <1>10 DEF T

\* Arenas of the same objects and players.
Alike(s) == {u \in Arenas : /\ Orderly(u) /\ u.pilots = s.pilots /\ u.alive = s.alive
                            /\ u.arr = s.arr /\ u.num = s.num
                            /\ \A o \in Store : u.obj[o].type = s.obj[o].type}

MoveStep(s, snapped, crashed) ==
  [x \in (1..s.num) \X Alike(s) |-> MoveObject(x[2], x[2].arr[s.num + 1 - x[1]], snapped, crashed)]

LEMMA MoveObjectStaysAlike ==
  ASSUME NEW s, Orderly(s), NEW snapped, NEW crashed, crashed \subseteq ObjectsIn(s),
         NEW u \in Alike(s), NEW o \in Store
  PROVE  MoveObject(u, o, snapped, crashed) \in Alike(s)
<1>1. /\ Orderly(u) /\ u.pilots = s.pilots /\ u.alive = s.alive /\ u.arr = s.arr /\ u.num = s.num
      /\ \A v \in Store : u.obj[v].type = s.obj[v].type
  BY DEF Alike
<1>2. o \in crashed => u.obj[o].type # "none"
  BY <1>1, InUse
<1>3. PICK w : w = MoveObject(u, o, snapped, crashed)
  OBVIOUS
<1>4. /\ Orderly(w) /\ w.pilots = u.pilots /\ w.alive = u.alive /\ w.arr = u.arr /\ w.num = u.num
      /\ \A v \in Store : w.obj[v].type = u.obj[v].type
  BY <1>1, <1>2, <1>3, MoveObjectKeeps
<1> QED
  BY <1>1, <1>3, <1>4 DEF Alike, Orderly

LEMMA MoveObjectsKeeps ==
  ASSUME NEW s, Orderly(s), NEW snapped, NEW crashed, crashed \subseteq ObjectsIn(s)
  PROVE  MoveObjects(s, snapped, crashed) \in Alike(s)
<1> DEFINE n == s.num
           S == Alike(s)
           Step(u, k) == MoveObject(u, u.arr[n + 1 - k], snapped, crashed)
           F == MoveStep(s, snapped, crashed)
           Loop(f) == f = [k \in 0..n |->
                             IF k = 0 THEN s ELSE MoveObject(f[k - 1], f[k - 1].arr[n + 1 - k], snapped, crashed)]
<1>1. s \in S /\ n \in 0..MaxObjects /\ n \in Nat
  BY StoreFacts DEF Alike, Orderly, Arenas
<1>a. ASSUME NEW u \in S, NEW k \in 1..n PROVE Step(u, k) \in S
  <2>1. PICK o : o = u.arr[n + 1 - k]
    OBVIOUS
  <2>2. o \in Store
    BY <1>1, <2>1, IndexIs DEF Alike
  <2>3. MoveObject(u, o, snapped, crashed) \in S
    BY <2>2, MoveObjectStaysAlike
  <2> QED
    BY <2>1, <2>3
<1>2. F \in Rounded(n, S)
  <2>1. ASSUME NEW x \in (1..n) \X S PROVE Step(x[2], x[1]) \in S
    BY <1>a
  <2> QED
    BY <2>1 DEF MoveStep, Rounded
<1>3. PICK f : /\ f \in [0..n -> S] /\ f[0] = s
               /\ \A k \in 1..n : f[k] = F[<<k, f[k - 1]>>]
  <2> HIDE DEF n, S, F
  <2>1. PICK f : Run(f, n, S, s, F)
    BY <1>1, <1>2, Iterated
  <2> QED
    BY <2>1 DEF Run
<1>4. ASSUME NEW k \in 1..n
      PROVE  f[k] = Step(f[k - 1], k)
  <2>1. k - 1 \in 0..n /\ f[k - 1] \in S
    <3> HIDE DEF n, S
    <3> QED
      BY <1>1, <1>3
  <2>2. F[<<k, f[k - 1]>>] = Step(f[k - 1], k)
    BY <2>1, Zenon DEF MoveStep
  <2> QED
    BY <1>3, <2>2
<1>5. Loop(f)
  <2> DEFINE g == [k \in 0..n |-> IF k = 0 THEN s ELSE Step(f[k - 1], k)]
  <2>1. ASSUME NEW k \in 0..n PROVE f[k] = g[k]
    <3>1. k = 0 \/ k \in 1..n
      BY <1>1
    <3> QED
      BY <1>3, <1>4, <3>1
  <2>2. f = [k \in 0..n |-> f[k]]
    BY <1>3
  <2> HIDE DEF g
  <2>3. g = [k \in 0..n |-> g[k]]
    BY DEF g
  <2>4. f = g
    BY <2>1, <2>2, <2>3
  <2> QED
    BY <2>4 DEF g
<1> DEFINE after == CHOOSE h : Loop(h)
<1>6. Loop(after)
  <2> HIDE DEF Loop
  <2> QED
    BY <1>5
<1>7. MoveObjects(s, snapped, crashed) = after[n]
  BY DEF MoveObjects, ThroughObj
<1> HIDE DEF after
<1>8. \A k \in 0..n : after[k] = IF k = 0 THEN s ELSE Step(after[k - 1], k)
  BY <1>6
<1> DEFINE T == {k \in 0..n : after[k] \in S}
<1> HIDE DEF Step, S, F
<1>9. 0 \in T /\ \A k \in 1..n : k - 1 \in T => k \in T
  <2>1. 0 \in T
    BY <1>1, <1>8
  <2>2. ASSUME NEW k \in 1..n, k - 1 \in T PROVE k \in T
    <3>1. after[k - 1] \in S /\ k \in 0..n /\ k # 0
      BY <1>1, <2>2
    <3>2. after[k] = Step(after[k - 1], k)
      BY <1>8, <3>1
    <3> QED
      BY <1>a, <3>1, <3>2
  <2> QED
    BY <2>1, <2>2
<1> HIDE DEF T
<1>10. n \in T
  BY <1>1, <1>9, UpTo
<1> QED
  BY <1>7, <1>10 DEF T, S

\* Without anything of p in struct o, and nothing more of p elsewhere.
Without(s, p, o, u) ==
  /\ u \in Alike(s) /\ u.obj[o].owner # p
  /\ \A v \in Store : u.obj[v].owner \in {s.obj[v].owner, Nil}

LEMMA DisownKeeps ==
  ASSUME NEW s, Orderly(s), NEW p \in Pilots, NEW o \in Store, NEW u, u = Disown(s, p, o)
  PROVE  Without(s, p, o, u)
<1>0. s \in Arenas /\ Arranged(s) /\ Complete(s) /\ s \in Alike(s) /\ p # Nil
  BY StoreFacts DEF Orderly, Alike
<1>1. CASE s.obj[o].owner # p
  BY <1>0, <1>1 DEF Disown, Without
<1>2. CASE s.obj[o].owner = p
  <2> DEFINE let_go == IF s.obj[o].attached THEN Detach(s, p, o) ELSE s
             gone   == IF s.obj[o].attached \/ s.obj[o].type = "shot" THEN Expire(let_go, {o}) ELSE s
  <2>1. u = [gone EXCEPT !.obj[o] = [@ EXCEPT !.owner = Nil]]
    BY <1>2 DEF Disown
  <2>2. /\ Orderly(let_go) /\ ~let_go.obj[o].attached
        /\ let_go.pilots = s.pilots /\ let_go.alive = s.alive
        /\ let_go.arr = s.arr /\ let_go.num = s.num
        /\ \A v \in Store : let_go.obj[v].type = s.obj[v].type /\ let_go.obj[v].owner = s.obj[v].owner
    <3>1. CASE s.obj[o].attached
      <4>1. let_go = Detach(s, p, o)
        BY <3>1
      <4> HIDE DEF let_go
      <4> QED
        BY <1>2, <3>1, <4>1, DetachKeeps
    <3>2. CASE ~s.obj[o].attached
      BY <3>2
    <3> QED
      BY <3>1, <3>2
  <2> HIDE DEF let_go
  <2>3. /\ Orderly(gone) /\ ~gone.obj[o].attached
        /\ gone.pilots = s.pilots /\ gone.alive = s.alive
        /\ gone.arr = s.arr /\ gone.num = s.num
        /\ \A v \in Store : gone.obj[v].type = s.obj[v].type /\ gone.obj[v].owner = s.obj[v].owner
    <3>1. CASE s.obj[o].attached \/ s.obj[o].type = "shot"
      <4>1. gone = Expire(let_go, {o})
        BY <3>1
      <4>2. \A v \in {o} \cap Store : let_go.obj[v].type # "none"
        BY <1>0, <2>2, <3>1 DEF Complete, IsBall
      <4> HIDE DEF gone
      <4>3. PICK w : w = Expire(let_go, {o})
        OBVIOUS
      <4>4. /\ Orderly(w) /\ w.pilots = let_go.pilots /\ w.alive = let_go.alive
            /\ w.arr = let_go.arr /\ w.num = let_go.num
            /\ \A v \in Store : /\ w.obj[v].type = let_go.obj[v].type
                                /\ w.obj[v].attached = let_go.obj[v].attached
                                /\ w.obj[v].owner = let_go.obj[v].owner
        BY <2>2, <4>2, <4>3, ExpireKeeps
      <4> QED
        BY <2>2, <4>1, <4>3, <4>4
    <3>2. CASE ~(s.obj[o].attached \/ s.obj[o].type = "shot")
      BY <1>0, <3>2
    <3> QED
      BY <3>1, <3>2
  <2> HIDE DEF gone
  <2>4. gone \in Arenas /\ gone.obj \in [Store -> Things] /\ gone.obj[o] \in Things /\ Arranged(gone)
    BY <2>3 DEF Orderly, Arenas
  <2> DEFINE thing == [gone.obj[o] EXCEPT !.owner = Nil]
             things == [gone.obj EXCEPT ![o] = thing]
  <2>5. /\ thing \in Things /\ thing.type = gone.obj[o].type /\ thing.of = gone.obj[o].of
        /\ ~thing.attached /\ thing.expired = gone.obj[o].expired /\ thing.owner = Nil
    BY <2>3, <2>4 DEF Things
  <2>6. u = [gone EXCEPT !.obj = things]
    BY <2>1, <2>4 DEF Arenas
  <2> HIDE DEF thing
  <2>7. things \in [Store -> Things] /\ things[o] = thing /\ \A v \in Store : v # o => things[v] = gone.obj[v]
    BY <2>4, <2>5
  <2> HIDE DEF things
  <2>8. /\ u \in Arenas /\ u.pilots = gone.pilots /\ u.alive = gone.alive /\ u.carrying = gone.carrying
        /\ u.tmp = gone.tmp /\ u.arr = gone.arr /\ u.num = gone.num /\ u.inBox = gone.inBox /\ u.obj = things
    BY <2>4, <2>6, <2>7 DEF Arenas
  <2>9. ASSUME NEW v \in Store
        PROVE  /\ u.obj[v].type = gone.obj[v].type /\ u.obj[v].of = gone.obj[v].of
               /\ u.obj[v].attached = gone.obj[v].attached
               /\ u.obj[v].attached => u.obj[v].owner = gone.obj[v].owner
               /\ u.obj[v].expired => u.obj[v].type # "none"
    <3>1. CASE v = o
      <4>1. thing.attached = gone.obj[o].attached
        BY <2>3, <2>4, <2>5 DEF Things
      <4> QED
        BY <2>4, <2>5, <2>7, <2>8, <3>1, <4>1 DEF Arranged
    <3>2. CASE v # o
      BY <2>4, <2>7, <2>8, <3>2 DEF Arranged
    <3> QED
      BY <3>1, <3>2
  <2>10. Orderly(u)
    BY <2>3, <2>8, <2>9, ElseIsOrderly
  <2>11. u.obj[o].owner # p /\ \A v \in Store : u.obj[v].owner \in {s.obj[v].owner, Nil}
    BY <1>0, <2>3, <2>5, <2>7, <2>8
  <2>12. u \in Alike(s)
    BY <2>3, <2>8, <2>9, <2>10 DEF Alike
  <2> QED
    BY <2>11, <2>12 DEF Without
<1> QED
  BY <1>1, <1>2

LEMMA AlikeAgain ==
  ASSUME NEW s, NEW u \in Alike(s), NEW v \in Alike(u)
  PROVE  v \in Alike(s)
BY DEF Alike

DisownStep(s, p) == [x \in (1..s.num) \X Alike(s) |-> Disown(x[2], p, x[2].arr[s.num + 1 - x[1]])]

\* The structs from the end of Obj[] that are not p's any more.
Abandoned(s, p, k, u) ==
  u \in Alike(s) /\ \A i \in 1..s.num : i > s.num - k => u.obj[s.arr[i]].owner # p

LEMMA DisownGoesOn ==
  ASSUME NEW s, Orderly(s), NEW p \in Pilots, NEW k \in 1..s.num, NEW v, Abandoned(s, p, k - 1, v),
         NEW u, u = Disown(v, p, v.arr[s.num + 1 - k])
  PROVE  Abandoned(s, p, k, u)
<1>1. v \in Alike(s) /\ v \in Arenas /\ Orderly(v) /\ v.arr = s.arr /\ v.num = s.num
  BY DEF Abandoned, Alike
<1>2. s \in Arenas /\ s.num \in 0..MaxObjects /\ s.num \in Nat /\ s.arr \in [Store -> Store] /\ p # Nil
  BY StoreFacts DEF Orderly, Arenas
<1>3. PICK o : o = v.arr[s.num + 1 - k]
  OBVIOUS
<1>4. o \in Store /\ o = s.arr[s.num + 1 - k]
  BY <1>1, <1>2, <1>3, IndexIs
<1>5. Without(v, p, o, u)
  BY <1>1, <1>3, <1>4, DisownKeeps
<1>6. u \in Alike(s)
  BY <1>1, <1>5, AlikeAgain DEF Without
<1>7. ASSUME NEW i \in 1..s.num, i > s.num - k PROVE u.obj[s.arr[i]].owner # p
  <2>1. i = s.num + 1 - k \/ i > s.num - (k - 1)
    BY <1>2, <1>7
  <2>2. i \in Store /\ s.arr[i] \in Store
    BY <1>2, StoreFacts DEF Store
  <2>3. CASE i = s.num + 1 - k
    BY <1>4, <1>5, <2>3 DEF Without
  <2>4. CASE i > s.num - (k - 1)
    <3>1. v.obj[s.arr[i]].owner # p
      BY <2>4 DEF Abandoned
    <3>2. u.obj[s.arr[i]].owner \in {v.obj[s.arr[i]].owner, Nil}
      BY <1>5, <2>2 DEF Without
    <3> QED
      BY <1>2, <3>1, <3>2
  <2> QED
    BY <2>1, <2>3, <2>4
<1> QED
  BY <1>6, <1>7 DEF Abandoned

LEMMA DisownedKeeps ==
  ASSUME NEW s, Orderly(s), NEW p \in Pilots
  PROVE  Abandoned(s, p, s.num, Disowned(s, p))
<1> DEFINE n == s.num
           S == Alike(s)
           Step(u, k) == Disown(u, p, u.arr[n + 1 - k])
           F == DisownStep(s, p)
           Loop(f) == f = [k \in 0..n |->
                             IF k = 0 THEN s ELSE Disown(f[k - 1], p, f[k - 1].arr[n + 1 - k])]
<1>1. s \in S /\ n \in 0..MaxObjects /\ n \in Nat
  BY StoreFacts DEF Alike, Orderly, Arenas
<1>a. ASSUME NEW u \in S, NEW k \in 1..n PROVE Step(u, k) \in S
  <2>1. PICK o : o = u.arr[n + 1 - k]
    OBVIOUS
  <2>2. o \in Store /\ Orderly(u)
    BY <1>1, <2>1, IndexIs DEF Alike
  <2>3. Without(u, p, o, Disown(u, p, o))
    BY <2>2, DisownKeeps
  <2> QED
    BY <2>1, <2>3, AlikeAgain DEF Without
<1>2. F \in Rounded(n, S)
  <2>1. ASSUME NEW x \in (1..n) \X S PROVE Step(x[2], x[1]) \in S
    BY <1>a
  <2> QED
    BY <2>1 DEF DisownStep, Rounded
<1>3. PICK f : /\ f \in [0..n -> S] /\ f[0] = s
               /\ \A k \in 1..n : f[k] = F[<<k, f[k - 1]>>]
  <2> HIDE DEF n, S, F
  <2>1. PICK f : Run(f, n, S, s, F)
    BY <1>1, <1>2, Iterated
  <2> QED
    BY <2>1 DEF Run
<1>4. ASSUME NEW k \in 1..n
      PROVE  f[k] = Step(f[k - 1], k)
  <2>1. k - 1 \in 0..n /\ f[k - 1] \in S
    <3> HIDE DEF n, S
    <3> QED
      BY <1>1, <1>3
  <2>2. F[<<k, f[k - 1]>>] = Step(f[k - 1], k)
    BY <2>1, Zenon DEF DisownStep
  <2> QED
    BY <1>3, <2>2
<1>5. Loop(f)
  <2> DEFINE g == [k \in 0..n |-> IF k = 0 THEN s ELSE Step(f[k - 1], k)]
  <2>1. ASSUME NEW k \in 0..n PROVE f[k] = g[k]
    <3>1. k = 0 \/ k \in 1..n
      BY <1>1
    <3> QED
      BY <1>3, <1>4, <3>1
  <2>2. f = [k \in 0..n |-> f[k]]
    BY <1>3
  <2> HIDE DEF g
  <2>3. g = [k \in 0..n |-> g[k]]
    BY DEF g
  <2>4. f = g
    BY <2>1, <2>2, <2>3
  <2> QED
    BY <2>4 DEF g
<1> DEFINE after == CHOOSE h : Loop(h)
<1>6. Loop(after)
  <2> HIDE DEF Loop
  <2> QED
    BY <1>5
<1>7. Disowned(s, p) = after[n]
  BY DEF Disowned, ThroughObj
<1> HIDE DEF after
<1>8. \A k \in 0..n : after[k] = IF k = 0 THEN s ELSE Step(after[k - 1], k)
  BY <1>6
<1> DEFINE T == {k \in 0..n : Abandoned(s, p, k, after[k])}
<1> HIDE DEF F
<1>9. 0 \in T /\ \A k \in 1..n : k - 1 \in T => k \in T
  <2>1. 0 \in T
    <3>1. after[0] = s
      BY <1>1, <1>8
    <3>2. Abandoned(s, p, 0, s)
      BY <1>1 DEF Abandoned
    <3> QED
      BY <1>1, <3>1, <3>2
  <2>2. ASSUME NEW k \in 1..n, k - 1 \in T PROVE k \in T
    <3>1. Abandoned(s, p, k - 1, after[k - 1]) /\ k \in 0..n /\ k # 0
      BY <1>1, <2>2
    <3>2. after[k] = Step(after[k - 1], k)
      BY <1>8, <3>1
    <3>3. PICK v : v = after[k - 1]
      OBVIOUS
    <3>4. PICK u : u = Disown(v, p, v.arr[s.num + 1 - k])
      OBVIOUS
    <3>5. Abandoned(s, p, k, u)
      BY <3>1, <3>3, <3>4, DisownGoesOn
    <3> QED
      BY <3>1, <3>2, <3>3, <3>4, <3>5
  <2> QED
    BY <2>1, <2>2
<1> HIDE DEF T
<1>10. n \in T
  BY <1>1, <1>9, UpTo
<1> QED
  BY <1>7, <1>10 DEF T

\* Player_remove: nothing in use is p's, so p carries nothing.
LEMMA NothingIsLeft ==
  ASSUME NEW s, Orderly(s), NEW p \in Pilots, NEW u, Abandoned(s, p, s.num, u)
  PROVE  p \notin u.carrying
<1>1. /\ Orderly(u) /\ u.arr = s.arr /\ u.num = s.num /\ s.num \in Nat
  BY DEF Abandoned, Alike, Orderly, Arenas
<1>2. SUFFICES ASSUME p \in u.carrying PROVE FALSE
  OBVIOUS
<1>3. PICK o \in Store : u.obj[o].attached /\ u.obj[o].owner = p
  BY <1>1, <1>2 DEF Orderly, Connected
<1>4. u.obj[o].type # "none"
  BY <1>1, <1>3 DEF Orderly, Complete, IsBall
<1>5. PICK i \in 1..u.num : u.arr[i] = o
  BY <1>1, <1>4 DEF Orderly, Arranged
<1>6. i \in 1..s.num /\ i > s.num - s.num /\ s.arr[i] = o
  BY <1>1, <1>5
<1> QED
  BY <1>3, <1>6 DEF Abandoned

\* Whom Players[] keeps: the last takes the place.
LEMMA LastTakesThePlace ==
  ASSUME NEW seq \in Seq(Pilots), NEW living \in SUBSET Pilots, NEW laden, Crew(seq, living, laden),
         NEW p, NEW j \in DOMAIN seq, seq[j] = p, NEW r, r = SwapLast(seq, p)
  PROVE  r \in Seq(Pilots) /\ Crew(r, living \ {p}, laden \ {p})
<1> DEFINE n == Len(seq)
           i == CHOOSE k \in DOMAIN seq : seq[k] = p
           moved == [seq EXCEPT ![i] = Last(seq)]
<1>1. n \in Nat /\ DOMAIN seq = 1..n /\ seq \in [1..n -> Pilots] /\ n \in 1..n
  OBVIOUS
<1>2. i \in 1..n /\ seq[i] = p
  BY <1>1
<1>3. r = SubSeq(moved, 1, n - 1)
  BY DEF SwapLast
<1> HIDE DEF i
<1>4. moved \in [1..n -> Pilots] /\ Last(seq) = seq[n]
  BY <1>1, <1>2 DEF Last
<1>5. moved \in Seq(Pilots) /\ Len(moved) = n
  BY <1>1, <1>4
<1>6. \A k \in 1..n : moved[k] = IF k = i THEN seq[n] ELSE seq[k]
  BY <1>1, <1>2, <1>4
<1> HIDE DEF moved, n
<1>7. /\ r \in Seq(Pilots) /\ Len(r) = n - 1 /\ DOMAIN r = 1..n - 1
      /\ \A k \in 1..n - 1 : r[k] = moved[k]
  BY <1>1, <1>3, <1>5
<1>8. \A k \in 1..n - 1 : r[k] = IF k = i THEN seq[n] ELSE seq[k]
  BY <1>1, <1>6, <1>7
<1>9. \A k, m \in 1..n : seq[k] = seq[m] => k = m
  BY <1>1 DEF Crew
<1>10. \A k, m \in 1..n - 1 : r[k] = r[m] => k = m
  BY <1>1, <1>2, <1>8, <1>9
<1>11. ASSUME NEW q \in living \ {p} PROVE \E k \in 1..n - 1 : r[k] = q
  <2>1. PICK k \in 1..n : seq[k] = q
    BY <1>1 DEF Crew
  <2>2. k # i
    BY <1>2, <2>1
  <2>3. CASE k = n
    BY <1>1, <1>2, <1>8, <2>1, <2>2, <2>3
  <2>4. CASE k # n
    BY <1>1, <1>8, <2>1, <2>2, <2>4
  <2> QED
    BY <2>3, <2>4
<1>12. laden \subseteq living
  BY DEF Crew
<1> QED
  BY <1>7, <1>10, <1>11, <1>12 DEF Crew

LEMMA RemovePilotKeeps ==
  ASSUME NEW s, Orderly(s), NEW p \in Aboard(s)
  PROVE  Orderly(RemovePilot(s, p))
<1>1. s \in Arenas /\ Connected(s) /\ s.pilots \in Seq(Pilots)
  BY DEF Orderly, Arenas
<1>2. p \in Pilots /\ \E j \in DOMAIN s.pilots : s.pilots[j] = p
  BY <1>1 DEF Aboard, ToSet
<1>3. PICK u : u = Disowned(s, p)
  OBVIOUS
<1>4. Abandoned(s, p, s.num, u)
  BY <1>2, <1>3, DisownedKeeps
<1>5. Orderly(u) /\ u.pilots = s.pilots /\ u.alive = s.alive
  BY <1>4 DEF Abandoned, Alike
<1>6. p \notin u.carrying
  BY <1>2, <1>4, NothingIsLeft
<1>7. u \in Arenas /\ Arranged(u) /\ Connected(u) /\ u.alive \in SUBSET Pilots /\ u.tmp \in [Pilots -> Store \cup {Nil}]
  BY <1>5 DEF Orderly, Arenas
<1>8. PICK left : left = SwapLast(s.pilots, p)
  OBVIOUS
<1>9. left \in Seq(Pilots) /\ Crew(left, u.alive \ {p}, u.carrying \ {p})
  BY <1>1, <1>2, <1>5, <1>7, <1>8, LastTakesThePlace DEF Connected
<1>10. PICK tries : tries = [u.tmp EXCEPT ![p] = Nil]
  OBVIOUS
<1>11. tries \in [Pilots -> Store \cup {Nil}] /\ \A q \in Pilots : tries[q] # Nil => q # p /\ tries[q] = u.tmp[q]
  BY <1>2, <1>7, <1>10
<1>12. PICK v : v = RemovePilot(s, p)
  OBVIOUS
<1>13. v = [u EXCEPT !.pilots = left, !.alive = @ \ {p}, !.killed = @ \ {p},
                     !.connector = @ \ {p}, !.carrying = @ \ {p}, !.tmp = tries]
  BY <1>3, <1>7, <1>8, <1>10, <1>12 DEF RemovePilot, Arenas
<1>14. /\ v \in Arenas /\ v.pilots = left /\ v.alive = u.alive \ {p} /\ v.carrying = u.carrying \ {p}
       /\ v.tmp = tries /\ v.arr = u.arr /\ v.num = u.num /\ v.inBox = u.inBox /\ v.obj = u.obj
  BY <1>7, <1>9, <1>11, <1>13 DEF Arenas
<1>15. Crew(v.pilots, v.alive, v.carrying)
  BY <1>9, <1>14
<1>16. \A q \in Pilots : v.tmp[q] # Nil => q \in v.alive /\ IsBall(u, v.tmp[q])
  BY <1>7, <1>11, <1>14 DEF Connected
<1>17. ASSUME NEW o \in Store
       PROVE  /\ v.obj[o].type = u.obj[o].type /\ v.obj[o].of = u.obj[o].of
              /\ v.obj[o].attached <=> u.obj[o].attached /\ u.obj[o].owner \notin {}
              /\ v.obj[o].attached => v.obj[o].owner = u.obj[o].owner
              /\ v.obj[o].expired => v.obj[o].type # "none"
  BY <1>7, <1>14 DEF Arranged
<1>18. v.carrying = u.carrying \ {}
  BY <1>6, <1>14
<1>19. Released(u, v, {})
  BY <1>14, <1>15, <1>16, <1>17, <1>18 DEF Released
<1> QED
  BY <1>5, <1>12, <1>19, ReleasedIsOrderly

(***************************************************************************)
(* What the steps do to the players and the objects.                       *)
(***************************************************************************)

\* What only who is killed and who uses a connector is about.
LEMMA OthersStayOrderly ==
  ASSUME NEW s, Orderly(s), NEW dead \in SUBSET Pilots, NEW pulling \in SUBSET Pilots,
         NEW u, u = [s EXCEPT !.killed = dead, !.connector = pulling]
  PROVE  Orderly(u)
<1>1. s \in Arenas /\ Arranged(s) /\ Connected(s)
  BY DEF Orderly
<1>2. /\ u \in Arenas /\ u.pilots = s.pilots /\ u.alive = s.alive /\ u.carrying = s.carrying
      /\ u.tmp = s.tmp /\ u.arr = s.arr /\ u.num = s.num /\ u.inBox = s.inBox /\ u.obj = s.obj
  BY <1>1 DEF Arenas
<1>3. u.carrying = s.carrying \ {} /\ Crew(u.pilots, u.alive, u.carrying)
  BY <1>1, <1>2 DEF Connected
<1>4. \A p \in Pilots : u.tmp[p] # Nil => p \in u.alive /\ IsBall(s, u.tmp[p])
  BY <1>1, <1>2 DEF Connected
<1>5. ASSUME NEW o \in Store
      PROVE  /\ u.obj[o].type = s.obj[o].type /\ u.obj[o].of = s.obj[o].of
             /\ u.obj[o].attached <=> s.obj[o].attached /\ s.obj[o].owner \notin {}
             /\ u.obj[o].attached => u.obj[o].owner = s.obj[o].owner
             /\ u.obj[o].expired => u.obj[o].type # "none"
  BY <1>1, <1>2 DEF Arranged
<1>6. Released(s, u, {})
  BY <1>2, <1>3, <1>4, <1>5 DEF Released
<1> QED
  BY <1>6, ReleasedIsOrderly

LEMMA KilledStayOrderly ==
  ASSUME NEW s, Orderly(s), NEW dead \in SUBSET Pilots, NEW u, u = [s EXCEPT !.killed = dead]
  PROVE  Orderly(u)
<1>1. s \in Arenas
  BY DEF Orderly
<1>2. s.connector \in SUBSET Pilots
  BY <1>1 DEF Arenas
<1>3. u = [s EXCEPT !.killed = dead, !.connector = s.connector]
  BY <1>1 DEF Arenas
<1> QED
  BY <1>2, <1>3, OthersStayOrderly

LEMMA ConnectorStaysOrderly ==
  ASSUME NEW s, Orderly(s), NEW pulling \in SUBSET Pilots, NEW u, u = [s EXCEPT !.connector = pulling]
  PROVE  Orderly(u)
<1>1. s \in Arenas
  BY DEF Orderly
<1>2. s.killed \in SUBSET Pilots
  BY <1>1 DEF Arenas
<1>3. u = [s EXCEPT !.killed = s.killed, !.connector = pulling]
  BY <1>1 DEF Arenas
<1> QED
  BY <1>2, <1>3, OthersStayOrderly

\* Players who come, or come back to life.
LEMMA CrewIsOrderly ==
  ASSUME NEW s, Orderly(s), NEW array \in Seq(Pilots), NEW living \in SUBSET Pilots,
         s.alive \subseteq living, Crew(array, living, s.carrying),
         NEW u, u = [s EXCEPT !.pilots = array, !.alive = living]
  PROVE  Orderly(u)
<1>1. s \in Arenas /\ Arranged(s) /\ Connected(s)
  BY DEF Orderly
<1>2. /\ u \in Arenas /\ u.pilots = array /\ u.alive = living /\ u.carrying = s.carrying
      /\ u.tmp = s.tmp /\ u.arr = s.arr /\ u.num = s.num /\ u.inBox = s.inBox /\ u.obj = s.obj
  BY <1>1 DEF Arenas
<1>3. u.carrying = s.carrying \ {} /\ Crew(u.pilots, u.alive, u.carrying)
  BY <1>2
<1>4. \A p \in Pilots : u.tmp[p] # Nil => p \in u.alive /\ IsBall(s, u.tmp[p])
  BY <1>1, <1>2 DEF Connected
<1>5. ASSUME NEW o \in Store
      PROVE  /\ u.obj[o].type = s.obj[o].type /\ u.obj[o].of = s.obj[o].of
             /\ u.obj[o].attached <=> s.obj[o].attached /\ s.obj[o].owner \notin {}
             /\ u.obj[o].attached => u.obj[o].owner = s.obj[o].owner
             /\ u.obj[o].expired => u.obj[o].type # "none"
  BY <1>1, <1>2 DEF Arranged
<1>6. Released(s, u, {})
  BY <1>2, <1>3, <1>4, <1>5 DEF Released
<1> QED
  BY <1>6, ReleasedIsOrderly

LEMMA EntersKeeps ==
  ASSUME NEW s, Orderly(s), NEW p \in Pilots \ Aboard(s), NEW u, u = [s EXCEPT !.pilots = Append(@, p)]
  PROVE  Orderly(u)
<1>1. s \in Arenas /\ s.pilots \in Seq(Pilots) /\ s.alive \in SUBSET Pilots /\ Crew(s.pilots, s.alive, s.carrying)
  BY DEF Orderly, Arenas, Connected
<1>2. PICK array : array = Append(s.pilots, p)
  OBVIOUS
<1>3. u = [s EXCEPT !.pilots = array, !.alive = s.alive]
  BY <1>1, <1>2 DEF Orderly, Arenas
<1>4. \A i \in DOMAIN s.pilots : s.pilots[i] # p
  BY <1>1 DEF Aboard, ToSet
<1>5. /\ array \in Seq(Pilots) /\ DOMAIN array = 1..Len(s.pilots) + 1
      /\ \A i \in 1..Len(s.pilots) + 1 : array[i] = IF i = Len(s.pilots) + 1 THEN p ELSE s.pilots[i]
      /\ DOMAIN s.pilots = 1..Len(s.pilots) /\ Len(s.pilots) \in Nat
  BY <1>1, <1>2
<1>6. Crew(array, s.alive, s.carrying)
  <2>1. \A i, j \in DOMAIN array : array[i] = array[j] => i = j
    BY <1>1, <1>4, <1>5 DEF Crew
  <2>2. ASSUME NEW q \in s.alive PROVE \E i \in DOMAIN array : array[i] = q
    <3>1. PICK i \in DOMAIN s.pilots : s.pilots[i] = q
      BY <1>1 DEF Crew
    <3>2. i \in DOMAIN array /\ array[i] = q
      BY <1>5, <3>1
    <3> QED
      BY <3>2
  <2> QED
    BY <1>1, <2>1, <2>2 DEF Crew
<1> QED
  BY <1>1, <1>3, <1>5, <1>6, CrewIsOrderly

LEMMA GoesHomeKeeps ==
  ASSUME NEW s, Orderly(s), NEW ps, ps \subseteq Aboard(s) \ s.alive, NEW u, u = GoesHome(s, ps)
  PROVE  Orderly(u) /\ u.killed = s.killed
<1>1. s \in Arenas /\ s.pilots \in Seq(Pilots) /\ s.alive \in SUBSET Pilots /\ Crew(s.pilots, s.alive, s.carrying)
  BY DEF Orderly, Arenas, Connected
<1>2. \A q \in ps : q \in Pilots /\ \E i \in DOMAIN s.pilots : s.pilots[i] = q
  BY <1>1 DEF Aboard, ToSet
<1>3. s.carrying \ ps = s.carrying
  BY <1>1 DEF Crew
<1>4. PICK living : living = s.alive \cup ps
  OBVIOUS
<1>5. u = [s EXCEPT !.pilots = s.pilots, !.alive = living] /\ u.killed = s.killed
  BY <1>1, <1>3, <1>4 DEF GoesHome, Arenas
<1>6. living \in SUBSET Pilots /\ s.alive \subseteq living /\ Crew(s.pilots, living, s.carrying)
  BY <1>1, <1>2, <1>4 DEF Crew
<1> QED
  BY <1>1, <1>5, <1>6, CrewIsOrderly

LEMMA UpdatePlayersKeeps ==
  ASSUME NEW s, Orderly(s), NEW back, back \subseteq Aboard(s) \ s.alive,
         NEW suicides, NEW crashed \in SUBSET Pilots, NEW u, u = UpdatePlayers(s, back, suicides, crashed)
  PROVE  Orderly(u)
<1>1. PICK h : h = GoesHome(s, back)
  OBVIOUS
<1>2. Orderly(h)
  BY <1>1, GoesHomeKeeps
<1>3. PICK d : d = Destroy(h, suicides)
  OBVIOUS
<1>4. Treated(h, d, h.alive \ suicides, h.killed \ suicides)
  BY <1>2, <1>3, DestroyKeeps
<1>5. Orderly(d) /\ d \in Arenas /\ d.killed \in SUBSET Pilots
  BY <1>4 DEF Treated, Orderly, Arenas
<1>6. PICK dead : dead = d.killed \cup (crashed \ suicides)
  OBVIOUS
<1>7. u = [d EXCEPT !.killed = dead] /\ dead \in SUBSET Pilots
  BY <1>1, <1>3, <1>5, <1>6 DEF UpdatePlayers
<1> QED
  BY <1>5, <1>7, KilledStayOrderly

\* Players who lose their balls, and stay alive or not.
LEMMA LosersKeep ==
  ASSUME NEW s, Orderly(s), NEW ps, NEW living, living \subseteq s.alive, s.alive \ ps \subseteq living,
         NEW u, u = [DetachAll(s, ps) EXCEPT !.alive = living]
  PROVE  Orderly(u)
<1>1. PICK v : v = DetachAll(s, ps)
  OBVIOUS
<1>2. LetGo(s, ps, v) /\ s.killed \in SUBSET Pilots
  BY <1>1, DetachAllIs DEF Orderly, Arenas
<1>3. v \in Arenas /\ v.killed = s.killed
  BY <1>2 DEF LetGo
<1>4. u = [v EXCEPT !.alive = living, !.killed = s.killed]
  BY <1>1, <1>3 DEF Arenas
<1>5. PICK dead : dead = s.killed
  OBVIOUS
<1>6. Treated(s, u, living, dead)
  BY <1>2, <1>4, <1>5, LetGoIsOrderly
<1> QED
  BY <1>6 DEF Treated

LEMMA DropKeeps ==
  ASSUME NEW s, Orderly(s), NEW ps, NEW u, u = DetachAll(s, ps)
  PROVE  Orderly(u)
<1>1. LetGo(s, ps, u)
  BY DetachAllIs
<1>2. PICK living : living = s.alive
  OBVIOUS
<1>3. u = [DetachAll(s, ps) EXCEPT !.alive = living]
  BY <1>1, <1>2 DEF LetGo, Arenas
<1> QED
  BY <1>2, <1>3, LosersKeep

\* Object_add of a shot.
LEMMA FireKeeps ==
  ASSUME NEW s, Orderly(s), NEW p \in Pilots,
         NEW u, u = AddObject(s, [Wiped EXCEPT !.type = "shot", !.owner = p])
  PROVE  Orderly(u)
<1>1. /\ s \in Arenas /\ Arranged(s) /\ Complete(s) /\ Connected(s) /\ s.obj \in [Store -> Things]
      /\ s.arr \in [Store -> Store] /\ s.num \in 0..MaxObjects /\ s.num \in Nat
      /\ s.tmp \in [Pilots -> Store \cup {Nil}]
  BY StoreFacts DEF Orderly, Arenas
<1>2. CASE s.num = MaxObjects
  BY <1>2 DEF AddObject
<1>3. CASE s.num # MaxObjects
  <2> DEFINE shot == [Wiped EXCEPT !.type = "shot", !.owner = p]
  <2>1. PICK o : o = s.arr[s.num + 1]
    OBVIOUS
  <2>2. s.num + 1 \in Store /\ o \in Store /\ s.num + 1 \in 0..MaxObjects
    BY <1>1, <1>3, <2>1, StoreFacts DEF Store
  <2>3. /\ shot \in Things /\ shot.type = "shot" /\ ~shot.attached /\ ~shot.expired
    BY DEF Wiped, Things
  <2>4. u = [s EXCEPT !.obj[o] = shot, !.num = @ + 1]
    BY <1>3, <2>1 DEF AddObject
  <2> HIDE DEF shot
  <2>5. PICK things : things = [s.obj EXCEPT ![o] = shot]
    OBVIOUS
  <2>6. things \in [Store -> Things] /\ things[o] = shot /\ \A v \in Store : v # o => things[v] = s.obj[v]
    BY <1>1, <2>2, <2>3, <2>5
  <2>7. u = [s EXCEPT !.obj = things, !.num = s.num + 1]
    BY <1>1, <2>4, <2>5 DEF Arenas
  <2>8. /\ u \in Arenas /\ u.pilots = s.pilots /\ u.alive = s.alive /\ u.carrying = s.carrying
        /\ u.tmp = s.tmp /\ u.arr = s.arr /\ u.num = s.num + 1 /\ u.inBox = s.inBox /\ u.obj = things
    BY <1>1, <2>2, <2>6, <2>7 DEF Arenas
  <2>9. \A i \in 1..s.num : i \in Store /\ s.arr[i] # o
    <3>1. \A i \in 1..s.num : i \in Store /\ i # s.num + 1
      BY <1>1, StoreFacts DEF Store
    <3> QED
      BY <1>1, <2>1, <2>2, <3>1 DEF Arranged
  <2>10. s.obj[o].type = "none"
    BY <1>1, <2>2, <2>9 DEF Arranged
  <2>11. ~s.obj[o].attached
    BY <1>1, <2>2, <2>10 DEF Complete, IsBall
  <2>12. Arranged(u)
    <3>1. ASSUME NEW v \in Store
          PROVE  u.obj[v].type # "none" <=> \E i \in 1..s.num + 1 : s.arr[i] = v
      <4>1. CASE v = o
        BY <1>1, <2>1, <2>3, <2>6, <2>8, <4>1
      <4>2. CASE v # o
        <5>1. (\E i \in 1..s.num + 1 : s.arr[i] = v) <=> \E i \in 1..s.num : s.arr[i] = v
          BY <1>1, <2>1, <4>2
        <5> QED
          BY <1>1, <2>6, <2>8, <4>2, <5>1 DEF Arranged
      <4> QED
        BY <4>1, <4>2
    <3>2. \A v \in Store : u.obj[v].expired => u.obj[v].type # "none"
      BY <1>1, <2>3, <2>6, <2>8 DEF Arranged
    <3> QED
      BY <1>1, <2>8, <3>1, <3>2 DEF Arranged
  <2>13. \A v \in Store : /\ IsBall(u, v) <=> IsBall(s, v)
                          /\ IsBall(s, v) => u.obj[v] = s.obj[v]
                          /\ u.obj[v].attached <=> s.obj[v].attached
                          /\ s.obj[v].attached => u.obj[v] = s.obj[v]
    BY <2>3, <2>6, <2>8, <2>10, <2>11 DEF IsBall
  <2>14. Complete(u)
    <3>1. \A v \in Store : u.obj[v].attached => IsBall(u, v)
      BY <1>1, <2>13 DEF Complete
    <3>2. \A v \in Store : IsBall(u, v) => u.obj[v].of \in Treasures
      BY <1>1, <2>13 DEF Complete
    <3>3. \A v \in Store : u.obj[v].attached => ~u.inBox[u.obj[v].of]
      BY <1>1, <2>8, <2>13 DEF Complete
    <3>4. ASSUME NEW t \in Treasures
          PROVE  \E b \in Store : \A v \in Store : IsBall(u, v) /\ u.obj[v].of = t <=> v = b
      <4>1. PICK b \in Store : \A v \in Store : IsBall(s, v) /\ s.obj[v].of = t <=> v = b
        BY <1>1 DEF Complete
      <4>2. \A v \in Store : IsBall(u, v) /\ u.obj[v].of = t <=> v = b
        BY <2>13, <4>1
      <4> QED
        BY <4>2
    <3> QED
      BY <3>1, <3>2, <3>3, <3>4 DEF Complete
  <2>15. Connected(u)
    <3>1. \A v \in Store : u.obj[v].attached => u.obj[v].owner \in u.carrying
      BY <1>1, <2>8, <2>13 DEF Connected
    <3>2. ASSUME NEW q \in u.carrying PROVE \E v \in Store : u.obj[v].attached /\ u.obj[v].owner = q
      <4>1. PICK v \in Store : s.obj[v].attached /\ s.obj[v].owner = q
        BY <1>1, <2>8 DEF Connected
      <4> QED
        BY <2>13, <4>1
    <3>3. \A q \in Pilots : u.tmp[q] # Nil => q \in u.alive /\ IsBall(u, u.tmp[q])
      BY <1>1, <2>8, <2>13 DEF Connected
    <3>4. Crew(u.pilots, u.alive, u.carrying)
      BY <1>1, <2>8 DEF Connected
    <3> QED
      BY <3>1, <3>2, <3>3, <3>4 DEF Connected
  <2> QED
    BY <2>8, <2>12, <2>14, <2>15 DEF Orderly
<1> QED
  BY <1>2, <1>3

\* A player who connects to a ball, or gives up.
LEMMA TryKeeps ==
  ASSUME NEW s, Orderly(s), NEW p \in s.alive, NEW o \in Store \cup {Nil}, o = Nil \/ IsBall(s, o),
         NEW u, u = [s EXCEPT !.tmp[p] = o]
  PROVE  Orderly(u)
<1>1. s \in Arenas /\ Arranged(s) /\ Connected(s) /\ s.tmp \in [Pilots -> Store \cup {Nil}] /\ p \in Pilots
  BY DEF Orderly, Arenas
<1>2. PICK tries : tries = [s.tmp EXCEPT ![p] = o]
  OBVIOUS
<1>3. tries \in [Pilots -> Store \cup {Nil}] /\ \A q \in Pilots : tries[q] = IF q = p THEN o ELSE s.tmp[q]
  BY <1>1, <1>2
<1>4. u = [s EXCEPT !.tmp = tries]
  BY <1>1, <1>2 DEF Arenas
<1>5. /\ u \in Arenas /\ u.pilots = s.pilots /\ u.alive = s.alive /\ u.carrying = s.carrying
      /\ u.tmp = tries /\ u.arr = s.arr /\ u.num = s.num /\ u.inBox = s.inBox /\ u.obj = s.obj
  BY <1>1, <1>3, <1>4 DEF Arenas
<1>6. Crew(u.pilots, u.alive, u.carrying) /\ u.carrying = s.carrying \ {}
  BY <1>1, <1>5 DEF Connected
<1>7. \A q \in Pilots : u.tmp[q] # Nil => q \in u.alive /\ IsBall(s, u.tmp[q])
  BY <1>1, <1>3, <1>5 DEF Connected
<1>8. \A v \in Store : /\ u.obj[v].type = s.obj[v].type /\ u.obj[v].of = s.obj[v].of
                       /\ u.obj[v].attached <=> s.obj[v].attached /\ s.obj[v].owner \notin {}
                       /\ u.obj[v].attached => u.obj[v].owner = s.obj[v].owner
                       /\ u.obj[v].expired => u.obj[v].type # "none"
  BY <1>1, <1>5 DEF Arranged
<1>9. Released(s, u, {})
  BY <1>5, <1>6, <1>7, <1>8 DEF Released
<1> QED
  BY <1>9, ReleasedIsOrderly

LEMMA AttachedKeeps ==
  ASSUME NEW s, Orderly(s), NEW p \in s.alive, NEW o \in Store, IsBall(s, o), ~s.obj[o].attached,
         NEW u, u = Attached(s, p, o)
  PROVE  Orderly(u)
<1>1. /\ s \in Arenas /\ Arranged(s) /\ Complete(s) /\ Connected(s) /\ s.obj \in [Store -> Things]
      /\ s.tmp \in [Pilots -> Store \cup {Nil}] /\ p \in Pilots /\ s.inBox \in [Treasures -> BOOLEAN]
  BY DEF Orderly, Arenas
<1>2. s.obj[o] \in Things /\ s.obj[o].of \in Treasures
  BY <1>1 DEF Complete
<1> DEFINE t == s.obj[o].of
           thing == [s.obj[o] EXCEPT !.attached = TRUE, !.owner = p,
                                     !.expired = s.obj[o].expired /\ ~(t # Nil /\ s.inBox[t])]
           boxes == [v \in Treasures |-> s.inBox[v] /\ v # t]
<1>3. u = [s EXCEPT !.obj[o] = thing, !.inBox = boxes, !.carrying = @ \cup {p}, !.tmp[p] = Nil]
  BY Zenon DEF Attached
<1>4. /\ thing \in Things /\ thing.type = s.obj[o].type /\ thing.of = t /\ thing.attached /\ thing.owner = p
  <2>1. PICK late : late = (s.obj[o].expired /\ ~(t # Nil /\ s.inBox[t]))
    OBVIOUS
  <2>2. late \in BOOLEAN
    BY <2>1
  <2>3. PICK x : x = s.obj[o]
    OBVIOUS
  <2>4. thing = [x EXCEPT !.attached = TRUE, !.owner = p, !.expired = late]
    BY <2>1, <2>3
  <2> HIDE DEF thing
  <2> QED
    BY <1>1, <1>2, <2>2, <2>3, <2>4 DEF Things
<1>5. boxes \in [Treasures -> BOOLEAN] /\ \A v \in Treasures : boxes[v] => s.inBox[v] /\ v # t
  BY <1>1
<1> HIDE DEF thing, boxes
<1>6. PICK things, tries : things = [s.obj EXCEPT ![o] = thing] /\ tries = [s.tmp EXCEPT ![p] = Nil]
  OBVIOUS
<1>7. things \in [Store -> Things] /\ things[o] = thing /\ \A v \in Store : v # o => things[v] = s.obj[v]
  BY <1>1, <1>4, <1>6
<1>8. tries \in [Pilots -> Store \cup {Nil}] /\ \A q \in Pilots : tries[q] # Nil => tries[q] = s.tmp[q]
  BY <1>1, <1>6
<1>a. PICK laden : laden = s.carrying \cup {p}
  OBVIOUS
<1>b. laden \in SUBSET Pilots
  BY <1>1, <1>a DEF Arenas
<1>9. u = [s EXCEPT !.obj = things, !.inBox = boxes, !.carrying = laden, !.tmp = tries]
  BY <1>1, <1>3, <1>6, <1>a DEF Arenas
<1>10. /\ u \in Arenas /\ u.pilots = s.pilots /\ u.alive = s.alive /\ u.carrying = laden
       /\ u.tmp = tries /\ u.arr = s.arr /\ u.num = s.num /\ u.inBox = boxes /\ u.obj = things
  BY <1>1, <1>5, <1>7, <1>8, <1>9, <1>b DEF Arenas
<1>c. u.carrying = s.carrying \cup {p}
  BY <1>10, <1>a
<1>11. \A v \in Store : /\ u.obj[v].type = s.obj[v].type /\ u.obj[v].of = s.obj[v].of
                        /\ u.obj[v].attached <=> s.obj[v].attached \/ v = o
                        /\ v # o => u.obj[v] = s.obj[v]
  BY <1>4, <1>7, <1>10
<1>12. u.obj[o].owner = p /\ u.obj[o].of = t /\ IsBall(u, o)
  BY <1>4, <1>7, <1>10, <1>11 DEF IsBall
<1>13. \A v \in Store : IsBall(u, v) <=> IsBall(s, v)
  BY <1>11 DEF IsBall
<1>14. Arranged(u)
  <2>1. s.obj[o].type # "none"
    BY DEF IsBall
  <2>2. \A v \in Store : u.obj[v].expired => u.obj[v].type # "none"
    BY <1>1, <1>11, <2>1 DEF Arranged
  <2> QED
    BY <1>1, <1>10, <1>11, <2>2 DEF Arranged
<1>15. Complete(u)
  <2>1. \A v \in Store : u.obj[v].attached => IsBall(u, v)
    BY <1>1, <1>11, <1>12, <1>13 DEF Complete
  <2>2. \A v \in Store : IsBall(u, v) => u.obj[v].of \in Treasures
    BY <1>1, <1>11, <1>13 DEF Complete
  <2>3. \A q \in Treasures : \E b \in Store : \A v \in Store : IsBall(u, v) /\ u.obj[v].of = q <=> v = b
    BY <1>1, <1>11, <1>13 DEF Complete
  <2>4. ASSUME NEW v \in Store, u.obj[v].attached PROVE ~u.inBox[u.obj[v].of]
    <3>1. CASE v = o
      BY <1>2, <1>5, <1>10, <1>12, <3>1
    <3>2. CASE v # o
      <4>1. s.obj[v].attached /\ u.obj[v].of = s.obj[v].of /\ s.obj[v].of \in Treasures /\ ~s.inBox[s.obj[v].of]
        BY <1>1, <1>11, <2>4, <3>2 DEF Complete
      <4> QED
        BY <1>5, <1>10, <4>1
    <3> QED
      BY <3>1, <3>2
  <2> QED
    BY <2>1, <2>2, <2>3, <2>4 DEF Complete
<1>16. Connected(u)
  <2>1. \A v \in Store : u.obj[v].attached => u.obj[v].owner \in u.carrying
    BY <1>1, <1>c, <1>11, <1>12 DEF Connected
  <2>2. ASSUME NEW q \in u.carrying PROVE \E v \in Store : u.obj[v].attached /\ u.obj[v].owner = q
    <3>1. CASE q = p
      BY <1>11, <1>12, <3>1
    <3>2. CASE q # p
      <4>1. PICK v \in Store : s.obj[v].attached /\ s.obj[v].owner = q
        BY <1>1, <1>c, <3>2 DEF Connected
      <4>2. v # o
        BY <4>1
      <4> QED
        BY <1>11, <4>1, <4>2
    <3> QED
      BY <3>1, <3>2
  <2>3. \A q \in Pilots : u.tmp[q] # Nil => q \in u.alive /\ IsBall(u, u.tmp[q])
    <3> SUFFICES ASSUME NEW q \in Pilots, u.tmp[q] # Nil PROVE q \in u.alive /\ IsBall(u, u.tmp[q])
      OBVIOUS
    <3>1. u.tmp[q] = s.tmp[q] /\ s.tmp[q] \in Store /\ q \in s.alive /\ IsBall(s, s.tmp[q])
      BY <1>1, <1>8, <1>10 DEF Connected
    <3> QED
      BY <1>10, <1>13, <3>1
  <2>4. Crew(u.pilots, u.alive, u.carrying)
    BY <1>1, <1>10, <1>c DEF Connected, Crew
  <2> QED
    BY <2>1, <2>2, <2>3, <2>4 DEF Connected
<1> QED
  BY <1>10, <1>14, <1>15, <1>16 DEF Orderly

LEMMA AttachOutcomesKeep ==
  ASSUME NEW s, Orderly(s), NEW p \in s.alive, NEW u \in AttachOutcomes(s, p)
  PROVE  Orderly(u)
<1>1. s \in Arenas /\ Connected(s) /\ s.tmp \in [Pilots -> Store \cup {Nil}] /\ p \in Pilots
  BY DEF Orderly, Arenas
<1>2. \/ u = [s EXCEPT !.tmp[p] = Nil] \/ u = s
      \/ \E o \in InReach(s, p) : u = [s EXCEPT !.tmp[p] = o]
      \/ s.tmp[p] # Nil /\ ~s.obj[s.tmp[p]].attached /\ u = Attached(s, p, s.tmp[p])
  BY DEF AttachOutcomes
<1>3. CASE u = [s EXCEPT !.tmp[p] = Nil]
  <2>1. PICK o : o = Nil
    OBVIOUS
  <2>2. u = [s EXCEPT !.tmp[p] = o] /\ o \in Store \cup {Nil}
    BY <1>3, <2>1
  <2> QED
    BY <2>1, <2>2, TryKeeps
<1>4. CASE u = s
  BY <1>4
<1>5. ASSUME NEW o \in InReach(s, p), u = [s EXCEPT !.tmp[p] = o] PROVE Orderly(u)
  <2>1. o \in BallsIn(s)
    BY DEF InReach
  <2>2. o \in Store \cup {Nil} /\ IsBall(s, o)
    BY <2>1, InUse
  <2> QED
    BY <1>5, <2>2, TryKeeps
<1>6. CASE s.tmp[p] # Nil /\ ~s.obj[s.tmp[p]].attached /\ u = Attached(s, p, s.tmp[p])
  <2>1. PICK o : o = s.tmp[p]
    OBVIOUS
  <2>2. o \in Store /\ IsBall(s, o) /\ ~s.obj[o].attached /\ u = Attached(s, p, o)
    BY <1>1, <1>6, <2>1 DEF Connected
  <2> QED
    BY <2>2, AttachedKeeps
<1> QED
  BY <1>2, <1>3, <1>4, <1>5, <1>6

LEMMA HitOutcomesKeep ==
  ASSUME NEW s, Orderly(s), NEW p \in Pilots, NEW u \in HitOutcomes(s, p)
  PROVE  Orderly(u)
<1>1. ASSUME NEW o \in Hittable(s, p) PROVE Orderly(Expire(s, {o}))
  <2>1. \A v \in {o} \cap Store : s.obj[v].type # "none"
    BY InUse DEF Hittable
  <2> QED
    BY <2>1, ExpireKeeps
<1>2. ASSUME NEW o \in Hittable(s, p), u = [Expire(s, {o}) EXCEPT !.killed = @ \cup {p}] PROVE Orderly(u)
  <2>1. PICK v : v = Expire(s, {o})
    OBVIOUS
  <2>2. Orderly(v)
    BY <1>1, <2>1
  <2>3. PICK dead : dead = v.killed \cup {p}
    OBVIOUS
  <2>4. dead \in SUBSET Pilots /\ u = [v EXCEPT !.killed = dead]
    BY <1>2, <2>1, <2>2, <2>3 DEF Orderly, Arenas
  <2> QED
    BY <2>2, <2>4, KilledStayOrderly
<1> QED
  BY <1>1, <1>2 DEF HitOutcomes

(***************************************************************************)
(* The steps.                                                              *)
(***************************************************************************)

LEMMA NextIsOrderly ==
  ASSUME NEW s, Orderly(s), ArenaBecomes(s)
  PROVE  Orderly(Now)'
<1>1. s \in Arenas
  BY DEF Orderly
<1>2. s = [pilots |-> s.pilots, alive |-> s.alive, killed |-> s.killed, connector |-> s.connector,
           carrying |-> s.carrying, tmp |-> s.tmp, obj |-> s.obj, arr |-> s.arr, num |-> s.num,
           inBox |-> s.inBox]
  BY <1>1 DEF Arenas
<1>3. Now' = s
  BY <1>2 DEF ArenaBecomes, Now
<1> QED
  BY <1>3

LEMMA StillIsOrderly ==
  ASSUME Orderly(Now), UNCHANGED arenaVars
  PROVE  Orderly(Now)'
<1>1. Now' = Now
  BY DEF arenaVars, Now
<1> QED
  BY <1>1

LEMMA BallsStart ==
  ASSUME BallsInit
  PROVE  Orderly(Now)
<1>1. \A t \in Treasures : t \in Store /\ t # Nil
  BY StoreFacts
<1>2. /\ Wiped \in Things /\ \A t \in Treasures : Put(t) \in Things
      /\ \A t \in Treasures : /\ Put(t).type = "ball" /\ Put(t).of = t
                              /\ ~Put(t).attached /\ ~Put(t).expired
      /\ Wiped.type = "none" /\ ~Wiped.attached /\ ~Wiped.expired
  BY DEF Wiped, Put, Things
<1>3. /\ obj \in [Store -> Things]
      /\ \A o \in Store : /\ obj[o].type = (IF o \in Treasures THEN "ball" ELSE "none")
                          /\ o \in Treasures => obj[o].of = o
                          /\ ~obj[o].attached /\ ~obj[o].expired
  BY <1>2 DEF BallsInit
<1>4. /\ arr \in [Store -> Store] /\ numObjs \in 0..MaxObjects /\ inBox \in [Treasures -> BOOLEAN]
      /\ tmp \in [Pilots -> Store \cup {Nil}] /\ pilots \in Seq(Pilots)
      /\ \A o \in Store : arr[o] = o
      /\ \A p \in Pilots : tmp[p] = Nil
  BY StoreFacts, BallsAssumption DEF BallsInit
<1>5. /\ Now.pilots = <<>> /\ Now.alive = {} /\ Now.carrying = {} /\ Now.tmp = tmp
      /\ Now.obj = obj /\ Now.arr = arr /\ Now.num = NumTreasures /\ Now.inBox = inBox
  BY DEF Now, BallsInit
<1>6. Now \in Arenas
  BY <1>3, <1>4 DEF Now, Arenas, BallsInit
<1>7. Arranged(Now)
  BY <1>1, <1>3, <1>4, <1>5 DEF Arranged, Treasures
<1>8. Complete(Now)
  <2>1. \A o \in Store : IsBall(Now, o) <=> o \in Treasures
    BY <1>3, <1>5 DEF IsBall
  <2>2. ASSUME NEW t \in Treasures
        PROVE  \E o \in Store : \A u \in Store : IsBall(Now, u) /\ Now.obj[u].of = t <=> u = o
    <3>1. t \in Store /\ \A u \in Store : IsBall(Now, u) /\ Now.obj[u].of = t <=> u = t
      BY <1>1, <1>3, <1>5, <2>1
    <3> QED
      BY <3>1
  <2> QED
    BY <1>3, <1>5, <2>1, <2>2 DEF Complete
<1>9. Connected(Now)
  BY <1>3, <1>4, <1>5 DEF Connected, Crew
<1> QED
  BY <1>6, <1>7, <1>8, <1>9 DEF Orderly

LEMMA InputSteps ==
  ASSUME Orderly(Now),
         \/ Enters \/ Departs \/ PressConnector \/ ReleaseConnector \/ DropBall \/ Pause \/ Fire
  PROVE  Orderly(Now)'
<1>1. /\ Now.pilots = pilots /\ Now.alive = alive /\ Now.connector = connector
      /\ alive \in SUBSET Pilots /\ connector \in SUBSET Pilots /\ pilots \in Seq(Pilots)
  BY DEF Now, Orderly, Arenas
<1>2. \A p \in Aboard(Now) : p \in Pilots
  BY <1>1 DEF Aboard, ToSet
<1>3. CASE Enters
  <2>1. PICK p \in Pilots \ Aboard(Now) : ArenaBecomes([Now EXCEPT !.pilots = Append(@, p)])
    BY <1>3 DEF Enters, Input
  <2> QED
    BY <2>1, EntersKeeps, NextIsOrderly
<1>4. CASE Departs
  <2>1. PICK p \in Aboard(Now) : ArenaBecomes(RemovePilot(Now, p))
    BY <1>4 DEF Departs, Input
  <2> QED
    BY <2>1, RemovePilotKeeps, NextIsOrderly
<1>5. CASE PressConnector
  <2>1. PICK p \in Aboard(Now) : ArenaBecomes([Now EXCEPT !.connector = @ \cup {p}])
    BY <1>5 DEF PressConnector, Input
  <2>2. connector \cup {p} \in SUBSET Pilots
    BY <1>1, <1>2
  <2>3. PICK pulling \in SUBSET Pilots : pulling = connector \cup {p}
    BY <2>2
  <2>4. PICK u : u = [Now EXCEPT !.connector = pulling]
    OBVIOUS
  <2>5. ArenaBecomes(u)
    BY <1>1, <2>1, <2>3, <2>4
  <2> QED
    BY <2>4, <2>5, ConnectorStaysOrderly, NextIsOrderly
<1>6. CASE ReleaseConnector
  <2>1. PICK p \in Aboard(Now) : ArenaBecomes([Now EXCEPT !.connector = @ \ {p}])
    BY <1>6 DEF ReleaseConnector, Input
  <2>2. connector \ {p} \in SUBSET Pilots
    BY <1>1
  <2>3. PICK pulling \in SUBSET Pilots : pulling = connector \ {p}
    BY <2>2
  <2>4. PICK u : u = [Now EXCEPT !.connector = pulling]
    OBVIOUS
  <2>5. ArenaBecomes(u)
    BY <1>1, <2>1, <2>3, <2>4
  <2> QED
    BY <2>4, <2>5, ConnectorStaysOrderly, NextIsOrderly
<1>7. CASE DropBall
  <2>1. PICK p \in Aboard(Now) : ArenaBecomes(DetachAll(Now, {p}))
    BY <1>7 DEF DropBall, Input
  <2> QED
    BY <2>1, DropKeeps, NextIsOrderly
<1>8. CASE Pause
  <2>1. PICK p \in alive : ArenaBecomes([DetachAll(Now, {p}) EXCEPT !.alive = @ \ {p}])
    BY <1>8 DEF Pause, Input
  <2>2. DetachAll(Now, {p}).alive = alive
    <3>1. LetGo(Now, {p}, DetachAll(Now, {p}))
      BY DetachAllIs
    <3> QED
      BY <1>1, <3>1 DEF LetGo
  <2>3. PICK living : living = alive \ {p}
    OBVIOUS
  <2>4. PICK u : u = [DetachAll(Now, {p}) EXCEPT !.alive = living]
    OBVIOUS
  <2>5. ArenaBecomes(u)
    BY <2>1, <2>2, <2>3, <2>4
  <2>6. living \subseteq Now.alive /\ Now.alive \ {p} \subseteq living
    BY <1>1, <2>3
  <2>7. Orderly(u)
    BY <2>4, <2>6, LosersKeep
  <2> QED
    BY <2>5, <2>7, NextIsOrderly
<1>9. CASE Fire
  <2>1. PICK p \in alive : ArenaBecomes(AddObject(Now, [Wiped EXCEPT !.type = "shot", !.owner = p]))
    BY <1>9 DEF Fire, Input
  <2> QED
    BY <1>1, <2>1, FireKeeps, NextIsOrderly
<1> QED
  BY <1>3, <1>4, <1>5, <1>6, <1>7, <1>8, <1>9

LEMMA MoveStaysOrderly ==
  ASSUME Orderly(Now), Move
  PROVE  Orderly(Now)'
<1>1. PICK snapped \in SUBSET ObjectsIn(Now), crashed \in SUBSET ObjectsIn(Now),
           back \in SUBSET (Aboard(Now) \ alive), suicides \in SUBSET Aboard(Now), crashing \in SUBSET alive :
        ArenaBecomes(UpdatePlayers(MoveObjects(Now, snapped, crashed), back, suicides, crashing))
  BY DEF Move
<1>2. PICK v : v = MoveObjects(Now, snapped, crashed)
  OBVIOUS
<1>3. v \in Alike(Now)
  BY <1>2, MoveObjectsKeeps
<1>4. Orderly(v) /\ v.pilots = pilots /\ v.alive = alive /\ alive \in SUBSET Pilots
  BY <1>3 DEF Alike, Now, Orderly, Arenas
<1>5. back \subseteq Aboard(v) \ v.alive /\ crashing \in SUBSET Pilots
  BY <1>4 DEF Aboard, Now
<1>6. PICK u : u = UpdatePlayers(v, back, suicides, crashing)
  OBVIOUS
<1>7. Orderly(u)
  BY <1>4, <1>5, <1>6, UpdatePlayersKeeps
<1> QED
  BY <1>1, <1>2, <1>6, <1>7, NextIsOrderly

LEMMA CollideStaysOrderly ==
  ASSUME Orderly(Now), Collide
  PROVE  Orderly(Now)'
<1>1. alive \in SUBSET Pilots /\ killed \in SUBSET Pilots /\ Now.killed = killed /\ Now.alive = alive
  BY DEF Now, Orderly, Arenas
<1>2. PICK p : p = pilots[turn]
  OBVIOUS
<1>3. \/ UNCHANGED arenaVars
      \/ /\ p \in alive
         /\ \E others \in SUBSET alive : ArenaBecomes([Now EXCEPT !.killed = @ \cup {p} \cup others])
      \/ /\ p \in alive
         /\ \E s \in AttachOutcomes(Now, p) : \E t \in HitOutcomes(s, p) : ArenaBecomes(t)
  BY <1>2 DEF Collide
<1>4. ASSUME p \in alive, NEW others \in SUBSET alive,
             ArenaBecomes([Now EXCEPT !.killed = @ \cup {p} \cup others])
      PROVE  Orderly(Now)'
  <2>1. PICK dead : dead = killed \cup {p} \cup others
    OBVIOUS
  <2>2. dead \in SUBSET Pilots
    BY <1>1, <1>4, <2>1
  <2>3. PICK u : u = [Now EXCEPT !.killed = dead]
    OBVIOUS
  <2>4. ArenaBecomes(u)
    BY <1>1, <1>4, <2>1, <2>3
  <2> QED
    BY <2>2, <2>3, <2>4, KilledStayOrderly, NextIsOrderly
<1>5. ASSUME p \in alive, NEW s \in AttachOutcomes(Now, p), NEW t \in HitOutcomes(s, p), ArenaBecomes(t)
      PROVE  Orderly(Now)'
  <2>1. Orderly(s)
    BY <1>1, <1>5, AttachOutcomesKeep
  <2>2. Orderly(t)
    BY <1>1, <1>5, <2>1, HitOutcomesKeep
  <2> QED
    BY <1>5, <2>2, NextIsOrderly
<1> QED
  BY <1>3, <1>4, <1>5, StillIsOrderly

LEMMA FinishStaysOrderly ==
  ASSUME Orderly(Now), Finish
  PROVE  Orderly(Now)'
<1>1. PICK s : s = Destroy(Now, killed)
  OBVIOUS
<1>2. PICK reset \in BOOLEAN, old \in {{}} \cup {{o} : o \in ObjectsIn(Now)} :
        ArenaBecomes(RemoveTimedOut(IF reset THEN Expire(Destroy(s, Aboard(s)), ObjectsIn(s)) ELSE Expire(s, old)))
  BY <1>1 DEF Finish
<1>3. Treated(Now, s, Now.alive \ killed, Now.killed \ killed)
  BY <1>1, DestroyKeeps
<1>4. Orderly(s) /\ \A o \in Store : s.obj[o].type = Now.obj[o].type
  BY <1>3 DEF Treated
<1>5. ObjectsIn(s) = {o \in Store : s.obj[o].type # "none"} /\ ObjectsIn(Now) = {o \in Store : Now.obj[o].type # "none"}
  BY <1>4, InUse
<1>6. CASE reset
  <2>1. PICK v : v = Destroy(s, Aboard(s))
    OBVIOUS
  <2>2. Treated(s, v, s.alive \ Aboard(s), s.killed \ Aboard(s))
    BY <1>4, <2>1, DestroyKeeps
  <2>3. Orderly(v) /\ \A o \in ObjectsIn(s) \cap Store : v.obj[o].type # "none"
    BY <1>5, <2>2 DEF Treated
  <2>4. PICK os : os = ObjectsIn(s)
    OBVIOUS
  <2>5. Orderly(Expire(v, os))
    BY <2>3, <2>4, ExpireKeeps
  <2>6. PICK w : w = Expire(v, os)
    OBVIOUS
  <2>7. PICK u : u = RemoveTimedOut(w)
    OBVIOUS
  <2>8. Orderly(u)
    BY <2>5, <2>6, <2>7, RemoveTimedOutKeeps
  <2>9. ArenaBecomes(u)
    BY <1>2, <1>6, <2>1, <2>4, <2>6, <2>7
  <2> QED
    BY <2>8, <2>9, NextIsOrderly
<1>7. CASE ~reset
  <2>1. old \subseteq ObjectsIn(Now)
    BY <1>2
  <2>2. \A o \in old \cap Store : s.obj[o].type # "none"
    BY <1>4, <1>5, <2>1
  <2>3. Orderly(Expire(s, old))
    BY <1>4, <2>2, ExpireKeeps
  <2>4. PICK w : w = Expire(s, old)
    OBVIOUS
  <2>5. PICK u : u = RemoveTimedOut(w)
    OBVIOUS
  <2>6. Orderly(u)
    BY <2>3, <2>4, <2>5, RemoveTimedOutKeeps
  <2>7. ArenaBecomes(u)
    BY <1>2, <1>7, <2>4, <2>5
  <2> QED
    BY <2>6, <2>7, NextIsOrderly
<1> QED
  BY <1>6, <1>7

LEMMA BallsStep ==
  ASSUME Orderly(Now), [BallsNext]_ballVars
  PROVE  Orderly(Now)'
<1>1. CASE BallsNext
  BY <1>1, InputSteps, MoveStaysOrderly, CollideStaysOrderly, FinishStaysOrderly DEF BallsNext
<1>2. CASE UNCHANGED ballVars
  <2>1. UNCHANGED arenaVars
    BY <1>2 DEF ballVars
  <2> QED
    BY <2>1, StillIsOrderly
<1> QED
  BY <1>1, <1>2

LEMMA OrderlyIsAccounted ==
  ASSUME Orderly(Now)
  PROVE  BallsAreAccountedFor
<1>1. /\ Now.obj = obj /\ Now.tmp = tmp /\ Now.alive = alive /\ Now.carrying = carrying
      /\ Now.inBox = inBox /\ Now.pilots = pilots
  BY DEF Now
<1>2. Now \in Arenas /\ Complete(Now) /\ Connected(Now)
  BY DEF Orderly
<1>3. /\ BallsIn(Now) = {o \in Store : IsBall(Now, o)}
      /\ \A p : Held(Now, p) = {o \in Store : Now.obj[o].attached /\ Now.obj[o].owner = p}
  BY InUse
<1>4. \A p \in Pilots : p \in carrying <=> Held(Now, p) # {}
  BY <1>1, <1>2, <1>3 DEF Connected
<1>5. ASSUME NEW o \in BallsIn(Now), obj[o].attached PROVE obj[o].owner \in Aboard(Now)
  <2>1. obj[o].owner \in alive
    BY <1>1, <1>2, <1>3, <1>5 DEF Connected, Crew
  <2>2. \E i \in DOMAIN pilots : pilots[i] = obj[o].owner
    BY <1>1, <1>2, <2>1 DEF Connected, Crew
  <2> QED
    BY <1>1, <2>2 DEF Aboard, ToSet
<1>6. ASSUME NEW t \in Treasures
      PROVE  \E o \in BallsIn(Now) : /\ {u \in BallsIn(Now) : obj[u].of = t} = {o}
                                     /\ inBox[t] => ~obj[o].attached
  <2>1. PICK o \in Store : \A u \in Store : IsBall(Now, u) /\ obj[u].of = t <=> u = o
    BY <1>1, <1>2 DEF Complete
  <2>2. o \in BallsIn(Now) /\ obj[o].of = t
    BY <1>3, <2>1
  <2>3. {u \in BallsIn(Now) : obj[u].of = t} = {o}
    BY <1>3, <2>1
  <2>4. inBox[t] => ~obj[o].attached
    BY <1>1, <1>2, <2>2 DEF Complete
  <2> QED
    BY <2>2, <2>3, <2>4
<1>7. ASSUME NEW p \in Pilots, tmp[p] # Nil PROVE p \in alive /\ tmp[p] \in BallsIn(Now)
  BY <1>1, <1>2, <1>3, <1>7 DEF Connected, Arenas
<1> QED
  BY <1>4, <1>5, <1>6, <1>7 DEF BallsAreAccountedFor

\* Nobody pulls a ball that is not there or for a player who is not there, and
\* each treasure keeps exactly one ball, however the structs of Obj[] are used
\* again (object.c:108, shot.c:334, player.c:517): for any number of players,
\* treasures and objects, as long as there is room for the balls of the map.
THEOREM NoBallIsLost == BallsSpec => []BallsAreAccountedFor
<1>1. BallsInit => Orderly(Now)
  BY BallsStart
<1>2. Orderly(Now) /\ [BallsNext]_ballVars => Orderly(Now)'
  BY BallsStep
<1>3. Orderly(Now) => BallsAreAccountedFor
  BY OrderlyIsAccounted
<1> QED
  BY <1>1, <1>2, <1>3, PTL DEF BallsSpec
-----------------------------------------------------------------------------
(* Cells.                                                                  *)

Linked == 0..NumObjs

LinkSets == [cells : [Grid -> Linked], used : Seq(Grid), prev : [Flying -> Linked], next : [Flying -> Linked]]

\* The chains of some objects, each by the order of Obj[], from its tail.
ChainsOf(C, s) ==
  /\ C \subseteq Flying
  /\ \A b \in Grid : s.cells[b] # NoObject => s.cells[b] \in C /\ block[s.cells[b]] = b
  /\ \A o \in C : o <= s.cells[block[o]]
  /\ \A o \in C : s.prev[o] # NoObject => s.prev[o] \in C /\ s.prev[o] < o /\ block[s.prev[o]] = block[o]
  /\ \A o, p \in C : block[p] = block[o] /\ p < o => p <= s.prev[o]
  /\ \A o \in Flying \ C : s.prev[o] = NoObject
  /\ \A o \in Flying : s.next[o] # NoObject => s.next[o] \in C /\ s.prev[s.next[o]] = o

\* The first n of UsedCells are the blocks with a chain, each once.
UsedAre(n, s) ==
  /\ n \in 0..Len(s.used)
  /\ \A i, j \in 1..Len(s.used) : s.used[i] = s.used[j] => i = j
  /\ \A b \in Grid : s.cells[b] # NoObject <=> \E i \in 1..n : s.used[i] = b

Cut(s) ==
  /\ s.used = <<>> /\ \A b \in Grid : s.cells[b] = NoObject
  /\ \A o \in Flying : s.prev[o] = NoObject /\ s.next[o] = NoObject

CellsInvariant ==
  /\ wrapped \in BOOLEAN /\ cellPhase \in {"move", "collide"}
  /\ block \in [Flying -> Grid] /\ lapsed \subseteq Flying /\ Links \in LinkSets
  /\ cellPhase = "move" => Cut(Links)
  /\ cellPhase = "collide" => /\ UsedAre(Len(used), Links)
                              /\ \E C \in SUBSET Flying : Flying \ lapsed \subseteq C /\ ChainsOf(C, Links)

LEMMA CellFacts ==
  /\ WorldX \in Nat /\ WorldX > 0 /\ WorldY \in Nat /\ WorldY > 0 /\ NumObjs \in Nat
  /\ Flying \subseteq Linked /\ NoObject \in Linked /\ NoObject \notin Flying
  /\ \A o \in Linked : o # NoObject => o \in Flying
  /\ Linked \subseteq Nat
BY CellsAssumption DEF Flying, Linked, NoObject

LEMMA ChainedIs ==
  ASSUME NEW s \in LinkSets, NEW o \in Flying, block \in [Flying -> Grid]
  PROVE  LET cell == block[o]  tail == s.cells[cell]  u == Chained(s, o) IN
         /\ cell \in Grid /\ tail \in Linked /\ u \in LinkSets
         /\ u.cells = [s.cells EXCEPT ![cell] = o]
         /\ u.prev = [s.prev EXCEPT ![o] = tail]
         /\ tail = NoObject => u.used = Append(s.used, cell) /\ u.next = s.next
         /\ tail # NoObject => u.used = s.used /\ u.next = [s.next EXCEPT ![tail] = o]
<1>1. block[o] \in Grid /\ s.cells \in [Grid -> Linked] /\ s.used \in Seq(Grid)
      /\ s.prev \in [Flying -> Linked] /\ s.next \in [Flying -> Linked] /\ s.cells[block[o]] \in Linked
  BY DEF LinkSets
<1> DEFINE cell == block[o]  tail == s.cells[cell]
<1>2. Append(s.used, cell) \in Seq(Grid)
  BY <1>1
<1>3. [s.cells EXCEPT ![cell] = o] \in [Grid -> Linked] /\ [s.prev EXCEPT ![o] = tail] \in [Flying -> Linked]
  BY <1>1, CellFacts
<1>4. tail # NoObject => [s.next EXCEPT ![tail] = o] \in [Flying -> Linked]
  BY <1>1, CellFacts
<1> QED
  BY <1>1, <1>2, <1>3, <1>4 DEF Chained, LinkSets

\* The next object of Obj[] goes on the tail of its chain.
LEMMA ChainedKeeps ==
  ASSUME NEW s \in LinkSets, NEW o \in Flying, block \in [Flying -> Grid],
         NEW C, C \subseteq 1..(o - 1), ChainsOf(C, s), UsedAre(Len(s.used), s)
  PROVE  LET u == Chained(s, o) IN
         u \in LinkSets /\ ChainsOf(C \cup {o}, u) /\ UsedAre(Len(u.used), u)
<1> DEFINE cell == block[o]  tail == s.cells[cell]
<1>1. PICK u : u = Chained(s, o)
  OBVIOUS
<1>2. /\ cell \in Grid /\ tail \in Linked /\ u \in LinkSets
      /\ u.cells = [s.cells EXCEPT ![cell] = o]
      /\ u.prev = [s.prev EXCEPT ![o] = tail]
      /\ tail = NoObject => u.used = Append(s.used, cell) /\ u.next = s.next
      /\ tail # NoObject => u.used = s.used /\ u.next = [s.next EXCEPT ![tail] = o]
  BY <1>1, ChainedIs
<1>3. /\ s.cells \in [Grid -> Linked] /\ s.used \in Seq(Grid)
      /\ s.prev \in [Flying -> Linked] /\ s.next \in [Flying -> Linked]
  BY DEF LinkSets
<1>4. /\ C \subseteq Flying /\ o \in Nat /\ o # NoObject /\ o \notin C /\ \A p \in C : p < o /\ p \in Nat /\ p # NoObject
      /\ C \cup {o} \subseteq Flying
  BY CellFacts DEF Flying, NoObject
<1> HIDE DEF cell, tail
<1>5. /\ \A b \in Grid : u.cells[b] = IF b = cell THEN o ELSE s.cells[b]
      /\ \A p \in Flying : u.prev[p] = IF p = o THEN tail ELSE s.prev[p]
      /\ \A p \in Flying : u.next[p] = IF p = tail THEN o ELSE s.next[p]
  BY <1>2, <1>3, CellFacts
<1>6. cell = block[o] /\ tail = s.cells[cell]
  BY DEF cell, tail
<1>7. tail # NoObject => tail \in C /\ block[tail] = cell /\ tail < o
  BY <1>2, <1>4, <1>6 DEF ChainsOf
<1>8. ChainsOf(C \cup {o}, u)
  <2>1. \A b \in Grid : u.cells[b] # NoObject => u.cells[b] \in C \cup {o} /\ block[u.cells[b]] = b
    BY <1>5, <1>6 DEF ChainsOf
  <2>2. ASSUME NEW p \in C \cup {o} PROVE p <= u.cells[block[p]]
    <3>1. block[p] \in Grid /\ p <= o /\ p \in Nat
      BY <1>4
    <3>2. CASE block[p] = cell
      <4>1. u.cells[block[p]] = o
        BY <1>5, <3>1, <3>2
      <4> QED
        BY <3>1, <4>1
    <3>3. CASE block[p] # cell
      <4>1. u.cells[block[p]] = s.cells[block[p]]
        BY <1>5, <3>1, <3>3
      <4>2. p \in C
        BY <1>6, <3>3
      <4> QED
        BY <4>1, <4>2 DEF ChainsOf
    <3> QED
      BY <3>2, <3>3
  <2>3. ASSUME NEW p \in C \cup {o}, u.prev[p] # NoObject
        PROVE  u.prev[p] \in C \cup {o} /\ u.prev[p] < p /\ block[u.prev[p]] = block[p]
    <3>1. CASE p = o
      BY <1>4, <1>5, <1>6, <1>7, <2>3, <3>1
    <3>2. CASE p # o
      <4>1. p \in C /\ u.prev[p] = s.prev[p]
        BY <1>4, <1>5, <3>2
      <4> QED
        BY <2>3, <4>1 DEF ChainsOf
    <3> QED
      BY <3>1, <3>2
  <2>4. ASSUME NEW p \in C \cup {o}, NEW q \in C \cup {o}, block[q] = block[p], q < p PROVE q <= u.prev[p]
    <3>1. q \in C
      BY <1>4, <2>4
    <3>2. CASE p = o
      BY <1>5, <1>6, <2>4, <3>1, <3>2 DEF ChainsOf
    <3>3. CASE p # o
      <4>1. p \in C /\ p \in Flying
        BY <1>4, <3>3
      <4>2. u.prev[p] = s.prev[p]
        BY <1>5, <3>3, <4>1
      <4> QED
        BY <2>4, <3>1, <4>1, <4>2 DEF ChainsOf
    <3> QED
      BY <3>2, <3>3
  <2>5. \A p \in Flying \ (C \cup {o}) : u.prev[p] = NoObject
    BY <1>5 DEF ChainsOf
  <2>6. ASSUME NEW p \in Flying, u.next[p] # NoObject
        PROVE  u.next[p] \in C \cup {o} /\ u.prev[u.next[p]] = p
    <3>1. CASE p = tail
      BY <1>5, <3>1
    <3>2. CASE p # tail
      <4>1. u.next[p] = s.next[p]
        BY <1>5, <3>2
      <4>2. s.next[p] \in C /\ s.prev[s.next[p]] = p
        BY <2>6, <4>1 DEF ChainsOf
      <4> QED
        BY <1>4, <1>5, <4>1, <4>2
    <3> QED
      BY <3>1, <3>2
  <2> QED
    BY <1>4, <2>1, <2>2, <2>3, <2>4, <2>5, <2>6 DEF ChainsOf
<1>9. UsedAre(Len(u.used), u)
  <2>1. /\ \A i, j \in 1..Len(s.used) : s.used[i] = s.used[j] => i = j
        /\ \A b \in Grid : s.cells[b] # NoObject <=> \E i \in 1..Len(s.used) : s.used[i] = b
    BY DEF UsedAre
  <2>2. CASE tail # NoObject
    <3>1. u.used = s.used
      BY <1>2, <2>2
    <3>2. \A b \in Grid : u.cells[b] # NoObject <=> s.cells[b] # NoObject
      BY <1>4, <1>5, <1>6, <2>2
    <3> QED
      BY <1>3, <2>1, <3>1, <3>2 DEF UsedAre
  <2>3. CASE tail = NoObject
    <3>1. u.used = Append(s.used, cell)
      BY <1>2, <2>3
    <3>2. /\ Len(u.used) = Len(s.used) + 1 /\ Len(s.used) \in Nat
          /\ \A i \in 1..Len(u.used) : u.used[i] = IF i = Len(s.used) + 1 THEN cell ELSE s.used[i]
      BY <1>2, <1>3, <3>1
    <3>3. \A i \in 1..Len(s.used) : s.used[i] # cell
      <4>1. s.cells[cell] = NoObject /\ cell \in Grid
        BY <1>2, <1>6, <2>3
      <4>2. ~ \E i \in 1..Len(s.used) : s.used[i] = cell
        BY <2>1, <4>1, Zenon
      <4> QED
        BY <4>2
    <3>4. \A i, j \in 1..Len(u.used) : u.used[i] = u.used[j] => i = j
      BY <2>1, <3>2, <3>3
    <3>5. ASSUME NEW b \in Grid PROVE u.cells[b] # NoObject <=> \E i \in 1..Len(u.used) : u.used[i] = b
      <4>1. CASE b = cell
        BY <1>4, <1>5, <3>2, <4>1
      <4>2. CASE b # cell
        <5>1. u.cells[b] = s.cells[b]
          BY <1>5, <4>2
        <5>2. (\E i \in 1..Len(u.used) : u.used[i] = b) <=> \E i \in 1..Len(s.used) : s.used[i] = b
          BY <3>2, <4>2
        <5> QED
          BY <2>1, <5>1, <5>2
      <4> QED
        BY <4>1, <4>2
    <3> QED
      BY <3>2, <3>4, <3>5 DEF UsedAre
  <2> QED
    BY <2>2, <2>3
<1> QED
  BY <1>1, <1>2, <1>8, <1>9

ChainStep == [x \in (1..NumObjs) \X LinkSets |-> IF x[1] \in lapsed THEN x[2] ELSE Chained(x[2], x[1])]

\* A loop over Obj[] keeps to the loop's equations.
LEMMA AllChainedIs ==
  ASSUME block \in [Flying -> Grid], NEW s \in LinkSets
  PROVE  \E f : /\ f \in [0..NumObjs -> LinkSets] /\ f[0] = s /\ AllChained(s) = f[NumObjs]
                /\ \A o \in 1..NumObjs : f[o] = IF o \in lapsed THEN f[o - 1] ELSE Chained(f[o - 1], o)
<1> DEFINE Loop(h) == h = [o \in 0..NumObjs |->
                             IF o = 0 THEN s ELSE IF o \in lapsed THEN h[o - 1] ELSE Chained(h[o - 1], o)]
<1>1. ChainStep \in Rounded(NumObjs, LinkSets)
  <2>1. ASSUME NEW x \in (1..NumObjs) \X LinkSets
        PROVE  (IF x[1] \in lapsed THEN x[2] ELSE Chained(x[2], x[1])) \in LinkSets
    <3>1. x[1] \in Flying /\ x[2] \in LinkSets
      BY DEF Flying
    <3> QED
      BY <3>1, ChainedIs
  <2> QED
    BY <2>1 DEF ChainStep, Rounded
<1>2. PICK f : /\ f \in [0..NumObjs -> LinkSets] /\ f[0] = s
               /\ \A o \in 1..NumObjs : f[o] = ChainStep[<<o, f[o - 1]>>]
  <2>1. PICK f : Run(f, NumObjs, LinkSets, s, ChainStep)
    BY <1>1, Iterated, CellFacts
  <2> QED
    BY <2>1 DEF Run
<1>3. ASSUME NEW o \in 1..NumObjs PROVE f[o] = IF o \in lapsed THEN f[o - 1] ELSE Chained(f[o - 1], o)
  <2>1. f[o - 1] \in LinkSets
    BY <1>2, CellFacts
  <2>2. <<o, f[o - 1]>> \in (1..NumObjs) \X LinkSets
    BY <2>1
  <2>3. ChainStep[<<o, f[o - 1]>>] = IF o \in lapsed THEN f[o - 1] ELSE Chained(f[o - 1], o)
    BY <2>2, Zenon DEF ChainStep
  <2> QED
    BY <1>2, <2>3
<1>4. Loop(f)
  <2> DEFINE g == [o \in 0..NumObjs |->
                     IF o = 0 THEN s ELSE IF o \in lapsed THEN f[o - 1] ELSE Chained(f[o - 1], o)]
  <2>1. ASSUME NEW o \in 0..NumObjs PROVE f[o] = g[o]
    <3>1. o = 0 \/ o \in 1..NumObjs
      BY CellFacts
    <3> QED
      BY <1>2, <1>3, <3>1
  <2>2. f = [o \in 0..NumObjs |-> f[o]]
    BY <1>2
  <2> HIDE DEF g
  <2>3. g = [o \in 0..NumObjs |-> g[o]]
    BY DEF g
  <2>4. f = g
    BY <2>1, <2>2, <2>3
  <2> QED
    BY <2>4 DEF g
<1> DEFINE after == CHOOSE h : Loop(h)
<1>5. Loop(after)
  <2> HIDE DEF Loop
  <2> QED
    BY <1>4
<1>6. AllChained(s) = after[NumObjs]
  BY DEF AllChained
<1> HIDE DEF after
<1>7. \A o \in 0..NumObjs : after[o] = IF o = 0 THEN s ELSE IF o \in lapsed THEN after[o - 1] ELSE Chained(after[o - 1], o)
  BY <1>5
<1>8. \A o \in 0..NumObjs : after[o] = f[o]
  <2> DEFINE T == {o \in 0..NumObjs : after[o] = f[o]}
  <2>1. 0 \in T
    BY <1>2, <1>7, CellFacts
  <2>2. ASSUME NEW o \in 1..NumObjs, o - 1 \in T PROVE o \in T
    <3>1. o \in 0..NumObjs /\ o # 0 /\ after[o - 1] = f[o - 1]
      BY <2>2, CellFacts
    <3>2. after[o] = IF o \in lapsed THEN after[o - 1] ELSE Chained(after[o - 1], o)
      BY <1>7, <3>1
    <3> QED
      BY <1>3, <3>1, <3>2
  <2> HIDE DEF T
  <2>3. \A o \in 0..NumObjs : o \in T
    BY <2>1, <2>2, UpTo, CellFacts
  <2> QED
    BY <2>3 DEF T
<1>9. NumObjs \in 0..NumObjs
  BY CellFacts
<1> QED
  BY <1>2, <1>3, <1>6, <1>8, <1>9

\* Collision_cells_init chains up all objects that are not expired.
LEMMA AllChainedKeeps ==
  ASSUME block \in [Flying -> Grid], lapsed \subseteq Flying, NEW s \in LinkSets, Cut(s)
  PROVE  LET u == AllChained(s) IN
         u \in LinkSets /\ ChainsOf(Flying \ lapsed, u) /\ UsedAre(Len(u.used), u)
<1> PICK f : /\ f \in [0..NumObjs -> LinkSets] /\ f[0] = s /\ AllChained(s) = f[NumObjs]
             /\ \A o \in 1..NumObjs : f[o] = IF o \in lapsed THEN f[o - 1] ELSE Chained(f[o - 1], o)
  BY AllChainedIs
<1> DEFINE Up(o) == {p \in 1..o : p \notin lapsed}
           T == {o \in 0..NumObjs : ChainsOf(Up(o), f[o]) /\ UsedAre(Len(f[o].used), f[o])}
<1>1. 0 \in T
  <2>1. Up(0) = {} /\ 0 \in 0..NumObjs
    BY CellFacts
  <2>2. ChainsOf({}, s)
    BY CellFacts DEF ChainsOf, Cut
  <2>3. UsedAre(Len(s.used), s)
    BY DEF UsedAre, Cut
  <2> QED
    BY <2>1, <2>2, <2>3
<1>2. ASSUME NEW o \in 1..NumObjs, o - 1 \in T PROVE o \in T
  <2>1. /\ o \in 0..NumObjs /\ o - 1 \in 0..NumObjs /\ o \in Flying /\ f[o - 1] \in LinkSets
        /\ ChainsOf(Up(o - 1), f[o - 1]) /\ UsedAre(Len(f[o - 1].used), f[o - 1])
    BY <1>2, CellFacts DEF Flying
  <2>2. CASE o \in lapsed
    <3>1. Up(o) = Up(o - 1) /\ f[o] = f[o - 1]
      BY <2>1, <2>2
    <3> QED
      BY <2>1, <3>1
  <2>3. CASE o \notin lapsed
    <3>1. Up(o) = Up(o - 1) \cup {o} /\ Up(o - 1) \subseteq 1..(o - 1) /\ f[o] = Chained(f[o - 1], o)
      BY <2>1, <2>3
    <3> HIDE DEF Up
    <3>2. ChainsOf(Up(o - 1) \cup {o}, f[o]) /\ UsedAre(Len(f[o].used), f[o])
      BY <2>1, <3>1, ChainedKeeps
    <3> QED
      BY <2>1, <3>1, <3>2
  <2> QED
    BY <2>2, <2>3
<1> HIDE DEF T
<1>3. NumObjs \in T
  <2>1. NumObjs \in Nat
    BY CellFacts
  <2>2. \A k \in 1..NumObjs : k - 1 \in T => k \in T
    BY <1>2
  <2>3. \A k \in 0..NumObjs : k \in T
    BY <1>1, <2>1, <2>2, UpTo
  <2> QED
    BY <2>1, <2>3
<1>4. Up(NumObjs) = Flying \ lapsed /\ f[NumObjs] \in LinkSets
  BY CellFacts DEF Flying
<1> QED
  BY <1>3, <1>4 DEF T

WalkStep(s) == [x \in (1..NumObjs) \X Linked |-> IF x[2] = NoObject THEN NoObject ELSE s.prev[x[2]]]

LEMMA WalkIs ==
  ASSUME NEW s \in LinkSets, NEW tail \in Linked
  PROVE  LET w == Walk(s, tail) IN
         /\ w \in [0..NumObjs -> Linked] /\ w[0] = tail
         /\ \A k \in 1..NumObjs : w[k] = IF w[k - 1] = NoObject THEN NoObject ELSE s.prev[w[k - 1]]
<1> DEFINE Loop(h) == h = [k \in 0..NumObjs |->
                             IF k = 0 THEN tail ELSE IF h[k - 1] = NoObject THEN NoObject ELSE s.prev[h[k - 1]]]
<1>0. s.prev \in [Flying -> Linked]
  BY DEF LinkSets
<1>1. WalkStep(s) \in Rounded(NumObjs, Linked)
  <2>1. ASSUME NEW x \in (1..NumObjs) \X Linked
        PROVE  (IF x[2] = NoObject THEN NoObject ELSE s.prev[x[2]]) \in Linked
    BY <1>0, CellFacts
  <2> QED
    BY <2>1 DEF WalkStep, Rounded
<1>2. PICK f : /\ f \in [0..NumObjs -> Linked] /\ f[0] = tail
               /\ \A k \in 1..NumObjs : f[k] = WalkStep(s)[<<k, f[k - 1]>>]
  <2>1. PICK f : Run(f, NumObjs, Linked, tail, WalkStep(s))
    BY <1>1, Iterated, CellFacts
  <2> QED
    BY <2>1 DEF Run
<1>3. ASSUME NEW k \in 1..NumObjs PROVE f[k] = IF f[k - 1] = NoObject THEN NoObject ELSE s.prev[f[k - 1]]
  <2>1. f[k - 1] \in Linked
    BY <1>2, CellFacts
  <2>2. <<k, f[k - 1]>> \in (1..NumObjs) \X Linked
    BY <2>1
  <2>3. WalkStep(s)[<<k, f[k - 1]>>] = IF f[k - 1] = NoObject THEN NoObject ELSE s.prev[f[k - 1]]
    BY <2>2, Zenon DEF WalkStep
  <2> QED
    BY <1>2, <2>3
<1>4. Loop(f)
  <2> DEFINE g == [k \in 0..NumObjs |->
                     IF k = 0 THEN tail ELSE IF f[k - 1] = NoObject THEN NoObject ELSE s.prev[f[k - 1]]]
  <2>1. ASSUME NEW k \in 0..NumObjs PROVE f[k] = g[k]
    <3>1. k = 0 \/ k \in 1..NumObjs
      BY CellFacts
    <3> QED
      BY <1>2, <1>3, <3>1
  <2>2. f = [k \in 0..NumObjs |-> f[k]]
    BY <1>2
  <2> HIDE DEF g
  <2>3. g = [k \in 0..NumObjs |-> g[k]]
    BY DEF g
  <2>4. f = g
    BY <2>1, <2>2, <2>3
  <2> QED
    BY <2>4 DEF g
<1> DEFINE w == CHOOSE h : Loop(h)
<1>5. Loop(w)
  <2> HIDE DEF Loop
  <2> QED
    BY <1>4
<1>6. Walk(s, tail) = w
  BY DEF Walk
<1> HIDE DEF w
<1>7. \A k \in 0..NumObjs : w[k] = IF k = 0 THEN tail ELSE IF w[k - 1] = NoObject THEN NoObject ELSE s.prev[w[k - 1]]
  BY <1>5
<1>8. \A k \in 0..NumObjs : w[k] = f[k]
  <2> DEFINE T == {k \in 0..NumObjs : w[k] = f[k]}
  <2>1. 0 \in T
    BY <1>2, <1>7, CellFacts
  <2>2. ASSUME NEW k \in 1..NumObjs, k - 1 \in T PROVE k \in T
    <3>1. k \in 0..NumObjs /\ k # 0 /\ w[k - 1] = f[k - 1]
      BY <2>2, CellFacts
    <3> QED
      BY <1>3, <1>7, <3>1
  <2> HIDE DEF T
  <2>3. \A k \in 0..NumObjs : k \in T
    BY <2>1, <2>2, UpTo, CellFacts
  <2> QED
    BY <2>3 DEF T
<1>9. DOMAIN w = 0..NumObjs /\ w = [k \in 0..NumObjs |-> w[k]]
  BY <1>5
<1>10. w \in [0..NumObjs -> Linked]
  BY <1>2, <1>8, <1>9
<1>11. ASSUME NEW k \in 1..NumObjs PROVE w[k] = IF w[k - 1] = NoObject THEN NoObject ELSE s.prev[w[k - 1]]
  BY <1>7, CellFacts
<1>12. w[0] = tail
  BY <1>7, CellFacts
<1> QED
  BY <1>6, <1>10, <1>11, <1>12

Chain(C, b) == {o \in C : block[o] = b}

\* Along a chain every object of its block is met, once, and no other; and the
\* chain ends.
LEMMA ChainIsWalked ==
  ASSUME NEW s \in LinkSets, NEW C, ChainsOf(C, s), NEW b \in Grid
  PROVE  LET w == Walk(s, s.cells[b]) IN
         /\ w \in [0..NumObjs -> Linked]
         /\ \A k \in 0..NumObjs : w[k] # NoObject => w[k] \in Chain(C, b)
         /\ \A o \in Chain(C, b) : \E k \in 0..NumObjs : w[k] = o
         /\ \A j, k \in 0..NumObjs : w[j] = w[k] /\ w[j] # NoObject => j = k
         /\ w[NumObjs] = NoObject
<1> DEFINE tail == s.cells[b]
<1>0. PICK w : w = Walk(s, tail)
  OBVIOUS
<1>1. tail \in Linked
  BY DEF LinkSets
<1>2. /\ w \in [0..NumObjs -> Linked] /\ w[0] = tail
      /\ \A k \in 1..NumObjs : w[k] = IF w[k - 1] = NoObject THEN NoObject ELSE s.prev[w[k - 1]]
  BY <1>0, <1>1, WalkIs
<1>3. C \subseteq Flying /\ \A o \in C : o \in Nat /\ 1 <= o /\ o <= NumObjs /\ o # NoObject
  <2>1. C \subseteq Flying
    BY DEF ChainsOf
  <2>2. NumObjs \in Nat
    BY CellFacts
  <2>3. \A o \in Flying : o \in Nat /\ 1 <= o /\ o <= NumObjs /\ o # NoObject
    BY <2>2 DEF Flying, NoObject
  <2> QED
    BY <2>1, <2>3
<1>n. NumObjs \in Nat
  BY CellFacts
<1>m. \A k \in 0..NumObjs : w[k] \in Nat
  BY <1>2 DEF Linked
<1> DEFINE T == {k \in 0..NumObjs : /\ w[k] # NoObject => w[k] \in Chain(C, b)
                                    /\ w[k] <= NumObjs - k \/ w[k] = NoObject
                                    /\ \A j \in 0..(k - 1) : w[k] # NoObject => w[k] < w[j]}
<1>4. 0 \in T
  <2>1. w[0] # NoObject => w[0] \in Chain(C, b)
    BY <1>2 DEF ChainsOf, Chain
  <2>2. w[0] <= NumObjs - 0 \/ w[0] = NoObject
    BY <1>3, <1>n, <2>1 DEF Chain
  <2> QED
    BY <1>n, <2>1, <2>2
<1>5. ASSUME NEW k \in 1..NumObjs, k - 1 \in T PROVE k \in T
  <2>1. k \in 0..NumObjs /\ k - 1 \in 0..NumObjs /\ k \in Nat
    BY CellFacts
  <2>2. CASE w[k] = NoObject
    BY <2>1, <2>2
  <2>3. CASE w[k] # NoObject
    <3>1. w[k - 1] # NoObject /\ w[k] = s.prev[w[k - 1]]
      BY <1>2, <2>3
    <3>2. PICK p : p = w[k - 1] /\ p \in C /\ block[p] = b /\ (p <= NumObjs - (k - 1))
      BY <1>5, <3>1 DEF Chain
    <3>3. w[k] \in C /\ w[k] < p /\ block[w[k]] = b
      BY <2>3, <3>1, <3>2 DEF ChainsOf
    <3>4. w[k] <= NumObjs - k
      <4>1. w[k] \in Nat /\ p \in Nat
        BY <1>3, <3>2, <3>3
      <4> QED
        BY <1>n, <2>1, <3>2, <3>3, <4>1
    <3>5. ASSUME NEW j \in 0..(k - 1) PROVE w[k] < w[j]
      <4>1. CASE j = k - 1
        BY <3>2, <3>3, <4>1
      <4>2. CASE j # k - 1
        <5>1. j \in 0..((k - 1) - 1) /\ w[k - 1] < w[j]
          BY <1>5, <2>1, <3>1, <4>2
        <5>2. j \in 0..NumObjs /\ w[j] \in Nat
          BY <1>m, <1>n, <2>1, <5>1
        <5> QED
          BY <1>3, <3>2, <3>3, <5>1, <5>2
      <4> QED
        BY <4>1, <4>2
    <3> QED
      BY <2>1, <3>3, <3>4, <3>5 DEF Chain
  <2> QED
    BY <2>2, <2>3
<1> HIDE DEF T
<1>6. \A k \in 0..NumObjs : k \in T
  BY <1>4, <1>5, UpTo, CellFacts
<1>7. \A k \in 0..NumObjs : w[k] # NoObject => w[k] \in Chain(C, b)
  BY <1>6 DEF T
<1>8. w[NumObjs] = NoObject
  <2>1. NumObjs \in 0..NumObjs /\ NumObjs - NumObjs = 0
    BY CellFacts
  <2>2. w[NumObjs] <= 0 \/ w[NumObjs] = NoObject
    BY <1>6, <2>1 DEF T
  <2>3. w[NumObjs] \in Nat
    BY <1>2, <2>1, CellFacts
  <2> QED
    BY <2>2, <2>3 DEF NoObject
<1>9. ASSUME NEW j \in 0..NumObjs, NEW k \in 0..NumObjs, w[j] = w[k], w[j] # NoObject PROVE j = k
  <2>1. w[j] \in Nat /\ w[k] \in Nat
    BY <1>2, CellFacts
  <2>2. ASSUME NEW m \in 0..NumObjs, NEW n \in 0..NumObjs, w[n] # NoObject, m < n, w[m] = w[n] PROVE FALSE
    <3>1. m \in 0..(n - 1)
      BY <2>2
    <3>2. w[n] < w[m] /\ w[n] \in Nat
      BY <1>2, <1>6, <2>2, <3>1, CellFacts DEF T
    <3> QED
      BY <2>2, <3>2
  <2>3. j < k \/ k < j \/ j = k
    BY CellFacts
  <2> QED
    BY <1>9, <2>2, <2>3
<1>10. ASSUME NEW o \in Chain(C, b) PROVE \E k \in 0..NumObjs : w[k] = o
  <2> SUFFICES ASSUME \A k \in 0..NumObjs : w[k] # o PROVE FALSE
    OBVIOUS
  <2>1. o \in C /\ block[o] = b /\ o \in Nat /\ 1 <= o
    BY <1>3 DEF Chain
  <2> DEFINE U == {k \in 0..NumObjs : o < w[k]}
  <2>2. 0 \in U
    <3>1. o <= w[0] /\ w[0] \in Nat /\ w[0] # o /\ 0 \in 0..NumObjs
      <4>1. 0 \in 0..NumObjs /\ o <= w[0]
        BY <1>2, <1>n, <2>1 DEF ChainsOf
      <4> QED
        BY <1>m, <4>1
    <3> QED
      BY <2>1, <3>1
  <2>3. ASSUME NEW k \in 1..NumObjs, k - 1 \in U PROVE k \in U
    <3>1. k \in 0..NumObjs /\ k - 1 \in 0..NumObjs /\ o < w[k - 1] /\ w[k - 1] \in Nat
      BY <1>m, <1>n, <2>3
    <3>2. PICK p : p = w[k - 1] /\ p \in C /\ block[p] = b /\ p # NoObject
      BY <1>7, <2>1, <3>1 DEF Chain, NoObject
    <3>3. w[k] = s.prev[p]
      BY <1>2, <3>2
    <3>4. o <= s.prev[p]
      BY <2>1, <3>1, <3>2 DEF ChainsOf
    <3>5. w[k] # o /\ w[k] \in Nat
      BY <1>2, <3>1, CellFacts
    <3> QED
      BY <2>1, <3>1, <3>3, <3>4, <3>5
  <2> HIDE DEF U
  <2>4. NumObjs \in U
    BY <2>2, <2>3, UpTo, CellFacts
  <2> QED
    BY <1>8, <2>1, <2>4 DEF U, NoObject
<1> QED
  BY <1>0, <1>2, <1>7, <1>8, <1>9, <1>10

LEMMA OnChainIs ==
  ASSUME NEW s \in LinkSets, NEW C, ChainsOf(C, s), NEW b \in Grid
  PROVE  OnChain(s, b) = Chain(C, b)
<1> PICK w : w = Walk(s, s.cells[b])
  OBVIOUS
<1>1. /\ w \in [0..NumObjs -> Linked]
      /\ \A k \in 0..NumObjs : w[k] # NoObject => w[k] \in Chain(C, b)
      /\ \A o \in Chain(C, b) : \E k \in 0..NumObjs : w[k] = o
  BY ChainIsWalked
<1>2. Range(w) = {w[k] : k \in 0..NumObjs}
  BY <1>1 DEF Range
<1>3. \A o \in Chain(C, b) : o # NoObject
  BY CellFacts DEF Chain, ChainsOf
<1> QED
  BY <1>1, <1>2, <1>3 DEF OnChain

\* A chain is cut: what remains are the chains of the other blocks.
LEMMA CleanedKeeps ==
  ASSUME block \in [Flying -> Grid], NEW s \in LinkSets, NEW C, ChainsOf(C, s), NEW n \in Nat,
         n >= 1, UsedAre(n, s), NEW cell, cell = s.used[n]
  PROVE  LET u == Cleaned(s, cell) IN
         u \in LinkSets /\ u.used = s.used /\ UsedAre(n - 1, u) /\ ChainsOf(C \ Chain(C, cell), u)
<1>1. /\ s.cells \in [Grid -> Linked] /\ s.used \in Seq(Grid)
      /\ s.prev \in [Flying -> Linked] /\ s.next \in [Flying -> Linked] /\ C \subseteq Flying
  BY DEF LinkSets, ChainsOf
<1>2. n \in 1..Len(s.used) /\ cell \in Grid
  BY <1>1 DEF UsedAre
<1>3. OnChain(s, cell) = Chain(C, cell)
  BY <1>2, OnChainIs
<1> DEFINE prevs == [o \in Flying |-> IF o \in Chain(C, cell) THEN NoObject ELSE s.prev[o]]
           nexts == [o \in Flying |-> IF \E p \in Chain(C, cell) : s.prev[p] = o THEN NoObject ELSE s.next[o]]
           tails == [s.cells EXCEPT ![cell] = NoObject]
<1>4. prevs \in [Flying -> Linked] /\ nexts \in [Flying -> Linked] /\ tails \in [Grid -> Linked]
  BY <1>1, <1>2, CellFacts
<1> PICK u : u = Cleaned(s, cell)
  OBVIOUS
<1>5. /\ u.prev = prevs /\ u.next = nexts /\ u.cells = tails /\ u.used = s.used
      /\ u \in LinkSets
  <2>1. Unchained(s, cell) = [s EXCEPT !.prev = prevs, !.next = nexts]
    BY <1>3 DEF Unchained
  <2> HIDE DEF prevs, nexts
  <2>2. /\ Unchained(s, cell) \in LinkSets
        /\ Unchained(s, cell).prev = prevs /\ Unchained(s, cell).next = nexts
        /\ Unchained(s, cell).cells = s.cells /\ Unchained(s, cell).used = s.used
    BY <1>4, <2>1 DEF LinkSets
  <2>3. u = [Unchained(s, cell) EXCEPT !.cells = tails]
    BY <2>2 DEF Cleaned, LinkSets
  <2> HIDE DEF tails
  <2> QED
    BY <1>4, <2>2, <2>3 DEF LinkSets
<1>6. /\ \A b \in Grid : u.cells[b] = IF b = cell THEN NoObject ELSE s.cells[b]
      /\ \A o \in Flying : u.prev[o] = IF o \in Chain(C, cell) THEN NoObject ELSE s.prev[o]
      /\ \A o \in Flying : u.next[o] = IF \E p \in Chain(C, cell) : s.prev[p] = o THEN NoObject ELSE s.next[o]
  BY <1>1, <1>5
<1> HIDE DEF prevs, nexts, tails
<1> DEFINE D == C \ Chain(C, cell)
<1>7. \A o \in D : o \in C /\ block[o] # cell /\ o \in Flying /\ block[o] \in Grid
  BY <1>1 DEF Chain
<1>8. ChainsOf(D, u)
  <2>1. \A b \in Grid : u.cells[b] # NoObject => u.cells[b] \in D /\ block[u.cells[b]] = b
    BY <1>6 DEF ChainsOf, Chain
  <2>2. \A o \in D : o <= u.cells[block[o]]
    BY <1>6, <1>7 DEF ChainsOf
  <2>3. ASSUME NEW o \in D, u.prev[o] # NoObject
        PROVE  u.prev[o] \in D /\ u.prev[o] < o /\ block[u.prev[o]] = block[o]
    <3>1. u.prev[o] = s.prev[o] /\ o \in C /\ block[o] # cell
      BY <1>6, <1>7
    <3>2. s.prev[o] \in C /\ s.prev[o] < o /\ block[s.prev[o]] = block[o]
      BY <2>3, <3>1 DEF ChainsOf
    <3> QED
      BY <3>1, <3>2 DEF Chain
  <2>4. ASSUME NEW o \in D, NEW p \in D, block[p] = block[o], p < o PROVE p <= u.prev[o]
    <3>1. u.prev[o] = s.prev[o] /\ o \in C /\ p \in C
      BY <1>6, <1>7
    <3> QED
      BY <2>4, <3>1 DEF ChainsOf
  <2>5. \A o \in Flying \ D : u.prev[o] = NoObject
    BY <1>6 DEF ChainsOf
  <2>6. ASSUME NEW o \in Flying, u.next[o] # NoObject PROVE u.next[o] \in D /\ u.prev[u.next[o]] = o
    <3>1. u.next[o] = s.next[o] /\ ~ \E p \in Chain(C, cell) : s.prev[p] = o
      BY <1>6, <2>6
    <3>2. s.next[o] \in C /\ s.prev[s.next[o]] = o
      BY <2>6, <3>1 DEF ChainsOf
    <3>3. s.next[o] \in D
      BY <3>1, <3>2
    <3> QED
      BY <1>6, <1>7, <3>1, <3>2, <3>3
  <2> QED
    BY <1>1, <2>1, <2>2, <2>3, <2>4, <2>5, <2>6 DEF ChainsOf
<1>9. UsedAre(n - 1, u)
  <2>1. Len(u.used) \in Nat /\ n - 1 \in 0..Len(u.used)
    BY <1>1, <1>2, <1>5
  <2>2. ASSUME NEW b \in Grid PROVE u.cells[b] # NoObject <=> \E i \in 1..(n - 1) : u.used[i] = b
    <3>1. s.cells[b] # NoObject <=> \E i \in 1..n : s.used[i] = b
      BY DEF UsedAre
    <3>2. CASE b = cell
      <4>1. \A i \in 1..(n - 1) : s.used[i] # s.used[n]
        BY <1>2, <2>1, <1>5 DEF UsedAre
      <4> QED
        BY <1>5, <1>6, <3>2, <4>1
    <3>3. CASE b # cell
      <4>1. (\E i \in 1..n : s.used[i] = b) <=> \E i \in 1..(n - 1) : s.used[i] = b
        BY <3>3
      <4> QED
        BY <1>5, <1>6, <3>1, <3>3, <4>1
    <3> QED
      BY <3>2, <3>3
  <2>3. \A i, j \in 1..Len(u.used) : u.used[i] = u.used[j] => i = j
    BY <1>5 DEF UsedAre
  <2> QED
    BY <2>1, <2>2, <2>3 DEF UsedAre
<1> QED
  BY <1>5, <1>8, <1>9


CleanStep(s) ==
  [x \in (1..Len(s.used)) \X LinkSets |-> Cleaned(x[2], s.used[Len(s.used) + 1 - x[1]])]

LEMMA CleanedIsThere ==
  ASSUME NEW s \in LinkSets, NEW cell \in Grid
  PROVE  Cleaned(s, cell) \in LinkSets
<1>1. /\ s.cells \in [Grid -> Linked] /\ s.prev \in [Flying -> Linked] /\ s.next \in [Flying -> Linked]
  BY DEF LinkSets
<1> DEFINE prevs == [o \in Flying |-> IF o \in OnChain(s, cell) THEN NoObject ELSE s.prev[o]]
           nexts == [o \in Flying |-> IF \E p \in OnChain(s, cell) : s.prev[p] = o THEN NoObject ELSE s.next[o]]
           tails == [s.cells EXCEPT ![cell] = NoObject]
<1>2. prevs \in [Flying -> Linked] /\ nexts \in [Flying -> Linked] /\ tails \in [Grid -> Linked]
  BY <1>1, CellFacts
<1>3. Unchained(s, cell) = [s EXCEPT !.prev = prevs, !.next = nexts]
  BY DEF Unchained
<1> HIDE DEF prevs, nexts
<1>4. Unchained(s, cell) \in LinkSets /\ Unchained(s, cell).cells = s.cells
  BY <1>2, <1>3 DEF LinkSets
<1>5. Cleaned(s, cell) = [Unchained(s, cell) EXCEPT !.cells = tails]
  BY <1>4 DEF Cleaned, LinkSets
<1> HIDE DEF tails
<1> QED
  BY <1>2, <1>4, <1>5 DEF LinkSets

LEMMA AllCleanedIs ==
  ASSUME NEW s \in LinkSets
  PROVE  \E f : /\ f \in [0..Len(s.used) -> LinkSets] /\ f[0] = s
                /\ AllCleaned(s) = [f[Len(s.used)] EXCEPT !.used = <<>>]
                /\ \A k \in 1..Len(s.used) : f[k] = Cleaned(f[k - 1], s.used[Len(s.used) + 1 - k])
<1> DEFINE n == Len(s.used)
           Loop(h) == h = [k \in 0..n |-> IF k = 0 THEN s ELSE Cleaned(h[k - 1], s.used[n + 1 - k])]
<1>0. n \in Nat /\ s.used \in Seq(Grid) /\ \A k \in 1..n : s.used[n + 1 - k] \in Grid
  <2>1. s.used \in Seq(Grid)
    BY DEF LinkSets
  <2>2. n \in Nat
    BY <2>1
  <2>3. \A k \in 1..n : n + 1 - k \in 1..n
    BY <2>2
  <2> QED
    BY <2>1, <2>2, <2>3
<1>1. CleanStep(s) \in Rounded(n, LinkSets)
  <2>1. ASSUME NEW x \in (1..n) \X LinkSets PROVE Cleaned(x[2], s.used[n + 1 - x[1]]) \in LinkSets
    <3>1. x[1] \in 1..n /\ x[2] \in LinkSets
      OBVIOUS
    <3> HIDE DEF n
    <3> QED
      BY <1>0, <3>1, CleanedIsThere
  <2> QED
    BY <2>1 DEF CleanStep, Rounded
<1>2. PICK f : /\ f \in [0..n -> LinkSets] /\ f[0] = s
               /\ \A k \in 1..n : f[k] = CleanStep(s)[<<k, f[k - 1]>>]
  <2> HIDE DEF n
  <2>1. PICK f : Run(f, n, LinkSets, s, CleanStep(s))
    BY <1>0, <1>1, Iterated
  <2> QED
    BY <2>1 DEF Run
<1>3. ASSUME NEW k \in 1..n PROVE f[k] = Cleaned(f[k - 1], s.used[n + 1 - k])
  <2>1. f[k - 1] \in LinkSets
    <3> HIDE DEF n
    <3> QED
      BY <1>0, <1>2
  <2>2. <<k, f[k - 1]>> \in (1..n) \X LinkSets
    BY <2>1
  <2>3. CleanStep(s)[<<k, f[k - 1]>>] = Cleaned(f[k - 1], s.used[n + 1 - k])
    BY <2>2, Zenon DEF CleanStep
  <2> QED
    BY <1>2, <2>3
<1>4. Loop(f)
  <2> DEFINE g == [k \in 0..n |-> IF k = 0 THEN s ELSE Cleaned(f[k - 1], s.used[n + 1 - k])]
  <2>1. ASSUME NEW k \in 0..n PROVE f[k] = g[k]
    <3>1. k = 0 \/ k \in 1..n
      <4> HIDE DEF n
      <4> QED
        BY <1>0
    <3> QED
      BY <1>2, <1>3, <3>1
  <2>2. f = [k \in 0..n |-> f[k]]
    BY <1>2
  <2> HIDE DEF g
  <2>3. g = [k \in 0..n |-> g[k]]
    BY DEF g
  <2>4. f = g
    BY <2>1, <2>2, <2>3
  <2> QED
    BY <2>4 DEF g
<1> DEFINE after == CHOOSE h : Loop(h)
<1>5. Loop(after)
  <2> HIDE DEF Loop
  <2> QED
    BY <1>4
<1>6. AllCleaned(s) = [after[n] EXCEPT !.used = <<>>]
  BY DEF AllCleaned
<1> HIDE DEF after
<1>7. \A k \in 0..n : after[k] = IF k = 0 THEN s ELSE Cleaned(after[k - 1], s.used[n + 1 - k])
  BY <1>5
<1> HIDE DEF n
<1>8. \A k \in 0..n : after[k] = f[k]
  <2> DEFINE T == {k \in 0..n : after[k] = f[k]}
  <2>1. 0 \in T
    BY <1>0, <1>2, <1>7
  <2>2. ASSUME NEW k \in 1..n, k - 1 \in T PROVE k \in T
    <3>1. k \in 0..n /\ k # 0 /\ after[k - 1] = f[k - 1]
      BY <1>0, <2>2
    <3> QED
      BY <1>3, <1>7, <3>1
  <2> HIDE DEF T
  <2>3. \A k \in 0..n : k \in T
    BY <1>0, <2>1, <2>2, UpTo
  <2> QED
    BY <2>3 DEF T
<1>9. n \in 0..n
  BY <1>0
<1> QED
  BY <1>2, <1>3, <1>6, <1>8, <1>9 DEF n

\* Collision_cells_cleanup leaves no link.
LEMMA AllCleanedCuts ==
  ASSUME block \in [Flying -> Grid], NEW s \in LinkSets, NEW C, ChainsOf(C, s), UsedAre(Len(s.used), s)
  PROVE  AllCleaned(s) \in LinkSets /\ Cut(AllCleaned(s))
<1> DEFINE n == Len(s.used)
<1>1. PICK f : /\ f \in [0..n -> LinkSets] /\ f[0] = s
               /\ AllCleaned(s) = [f[n] EXCEPT !.used = <<>>]
               /\ \A k \in 1..n : f[k] = Cleaned(f[k - 1], s.used[n + 1 - k])
  BY AllCleanedIs
<1>2. n \in Nat
  BY DEF LinkSets
<1> DEFINE T == {k \in 0..n : /\ f[k].used = s.used /\ UsedAre(n - k, f[k])
                              /\ \E B \in SUBSET Flying : ChainsOf(B, f[k])}
<1> HIDE DEF n
<1>3. 0 \in T
  <2>1. 0 \in 0..n /\ n - 0 = n /\ C \in SUBSET Flying
    BY <1>2 DEF ChainsOf
  <2> QED
    BY <1>1, <2>1 DEF n
<1>4. ASSUME NEW k \in 1..n, k - 1 \in T PROVE k \in T
  <2>1. /\ k \in 0..n /\ k - 1 \in 0..n /\ n + 1 - k \in Nat /\ n + 1 - k >= 1
        /\ n - (k - 1) = n + 1 - k /\ (n + 1 - k) - 1 = n - k
    BY <1>2
  <2>2. PICK B \in SUBSET Flying : ChainsOf(B, f[k - 1])
    BY <1>4
  <2>3. f[k - 1] \in LinkSets /\ f[k - 1].used = s.used /\ UsedAre(n + 1 - k, f[k - 1])
    BY <1>1, <1>4, <2>1
  <2>4. PICK m, cell : m = n + 1 - k /\ cell = s.used[m]
    OBVIOUS
  <2>5. f[k] = Cleaned(f[k - 1], cell) /\ m \in Nat /\ m >= 1 /\ m - 1 = n - k /\ UsedAre(m, f[k - 1])
        /\ cell = f[k - 1].used[m]
    BY <1>1, <2>1, <2>3, <2>4
  <2>6. f[k].used = f[k - 1].used /\ UsedAre(m - 1, f[k]) /\ ChainsOf(B \ Chain(B, cell), f[k])
    <3>1. PICK v : v = f[k - 1]
      OBVIOUS
    <3>2. v \in LinkSets /\ ChainsOf(B, v) /\ UsedAre(m, v) /\ cell = v.used[m] /\ m \in Nat /\ m >= 1
      BY <2>2, <2>3, <2>5, <3>1
    <3>3. /\ Cleaned(v, cell).used = v.used /\ UsedAre(m - 1, Cleaned(v, cell))
          /\ ChainsOf(B \ Chain(B, cell), Cleaned(v, cell))
      BY <3>2, CleanedKeeps
    <3> QED
      BY <2>5, <3>1, <3>3
  <2>7. B \ Chain(B, cell) \in SUBSET Flying
    OBVIOUS
  <2> QED
    BY <2>1, <2>3, <2>5, <2>6, <2>7
<1> HIDE DEF T
<1>5. n \in T
  <2>1. \A k \in 1..n : k - 1 \in T => k \in T
    BY <1>4
  <2>2. \A k \in 0..n : k \in T
    BY <1>2, <1>3, <2>1, UpTo
  <2> QED
    BY <1>2, <2>2
<1> PICK u : u = f[n]
  OBVIOUS
<1>6. u \in LinkSets /\ UsedAre(0, u)
  <2>1. n \in 0..n /\ n - n = 0
    BY <1>2
  <2> QED
    BY <1>1, <1>5, <2>1 DEF T
<1>7. PICK B \in SUBSET Flying : ChainsOf(B, u)
  BY <1>5 DEF T
<1>8. \A b \in Grid : u.cells[b] = NoObject
  BY <1>6 DEF UsedAre
<1>9. B = {}
  <2> SUFFICES ASSUME NEW o \in B PROVE FALSE
    OBVIOUS
  <2>1. block[o] \in Grid /\ o <= u.cells[block[o]] /\ o \in 1..NumObjs
    BY <1>7 DEF ChainsOf, Flying
  <2> QED
    BY <1>8, <2>1, CellFacts DEF NoObject
<1>10. \A o \in Flying : u.prev[o] = NoObject /\ u.next[o] = NoObject
  BY <1>7, <1>9 DEF ChainsOf
<1>11. AllCleaned(s) = [u EXCEPT !.used = <<>>] /\ <<>> \in Seq(Grid)
  BY <1>1
<1>12. AllCleaned(s) \in LinkSets /\ AllCleaned(s).used = <<>> /\ AllCleaned(s).cells = u.cells
       /\ AllCleaned(s).prev = u.prev /\ AllCleaned(s).next = u.next
  BY <1>6, <1>11 DEF LinkSets
<1> QED
  BY <1>8, <1>10, <1>12 DEF Cut
-----------------------------------------------------------------------------
(* The search. *)

LEMMA RadiusIs ==
  ASSUME NEW r \in Nat, wrapped \in BOOLEAN
  PROVE  /\ Radius(r) \in Nat
         /\ wrapped => 2 * Radius(r) <= WorldX /\ 2 * Radius(r) <= WorldY
<1>1. WorldX \in Nat /\ WorldY \in Nat
  BY CellFacts
<1>2. CASE wrapped
  BY <1>1, <1>2 DEF Radius
<1>3. CASE ~wrapped
  BY <1>1, <1>3 DEF Radius, Lesser
<1> QED
  BY <1>2, <1>3

\* Where the search is at d, along one side of the world.
Reached(n, d, size) == IF wrapped THEN Around(n + d, size) ELSE n + d

\* Along one side of the world, around m: what is near is reached, what is
\* reached is near, and each once if the world is wider than the search.
LEMMA AlongASide ==
  ASSUME NEW size \in Nat, NEW n \in 0..(size - 1), NEW R \in Nat,
         wrapped \in BOOLEAN, wrapped => 2 * R <= size
  PROVE  /\ \A m \in 0..(size - 1) : Apart(m, n, size) <= R => \E d \in -R..R : Reached(n, d, size) = m
         /\ \A d \in -R..R : Reached(n, d, size) \in 0..(size - 1) => Apart(Reached(n, d, size), n, size) <= R
         /\ (wrapped => 2 * R < size) =>
              \A d, e \in -R..R : Reached(n, d, size) = Reached(n, e, size) => d = e
<1>1. ASSUME NEW m \in 0..(size - 1), Apart(m, n, size) <= R PROVE \E d \in -R..R : Reached(n, d, size) = m
  <2>1. CASE ~wrapped
    <3>1. m - n \in -R..R /\ n + (m - n) = m
      BY <1>1, <2>1 DEF Apart
    <3> QED
      BY <2>1, <3>1 DEF Reached
  <2>2. CASE wrapped
    <3>1. CASE m - n \in -R..R
      <4>1. n + (m - n) = m /\ Around(m, size) = m
        BY DEF Around
      <4> QED
        BY <2>2, <3>1, <4>1 DEF Reached
    <3>2. CASE m - n \notin -R..R
      <4>1. CASE m < n
        <5>1. m - n + size \in -R..R /\ Around(n + (m - n + size), size) = m
          BY <1>1, <2>2, <3>2, <4>1 DEF Apart, Lesser, Around
        <5> QED
          BY <2>2, <5>1 DEF Reached
      <4>2. CASE ~(m < n)
        <5>1. m - n - size \in -R..R /\ Around(n + (m - n - size), size) = m
          BY <1>1, <2>2, <3>2, <4>2 DEF Apart, Lesser, Around
        <5> QED
          BY <2>2, <5>1 DEF Reached
      <4> QED
        BY <4>1, <4>2
    <3> QED
      BY <3>1, <3>2
  <2> QED
    BY <2>1, <2>2
<1>2. ASSUME NEW d \in -R..R, Reached(n, d, size) \in 0..(size - 1)
      PROVE  Apart(Reached(n, d, size), n, size) <= R
  BY <1>2 DEF Reached, Apart, Around, Lesser
<1>3. ASSUME wrapped => 2 * R < size, NEW d \in -R..R, NEW e \in -R..R, Reached(n, d, size) = Reached(n, e, size)
      PROVE  d = e
  BY <1>3 DEF Reached, Around
<1> QED
  BY <1>1, <1>2, <1>3

LEMMA CellAtIs ==
  ASSUME NEW b, NEW d
  PROVE  CellAt(b, d) = <<Reached(b[1], d[1], WorldX), Reached(b[2], d[2], WorldY)>>
BY DEF CellAt, Reached

\* What a search lists: for each block, those on its chain.
LEMMA ListIs ==
  ASSUME Links \in LinkSets, NEW C, ChainsOf(C, Links), NEW b \in Grid, NEW r \in Nat
  PROVE  LET found == ObjectList(b, r) IN
         /\ \A h \in DOMAIN found : /\ h[1] \in Span(b, r) /\ h[2] \in 0..NumObjs
                                    /\ h = <<h[1], h[2]>>
                                    /\ found[h] \in C /\ block[found[h]] = CellAt(b, h[1])
         /\ \A g, h \in DOMAIN found : found[g] = found[h] /\ g[1] = h[1] => g = h
         /\ \A o \in C, d \in Span(b, r) : block[o] = CellAt(b, d) => o \in Range(found)
<1> DEFINE met(d, k) == Walk(Links, cells[CellAt(b, d)])[k]
           places == {e \in Span(b, r) \X (0..NumObjs) : met(e[1], e[2]) # NoObject}
<1> PICK found : found = ObjectList(b, r)
  OBVIOUS
<1>1. found = [h \in places |-> met(h[1], h[2])]
  <2> DEFINE walk == [d \in Span(b, r) |-> Walk(Links, cells[CellAt(b, d)])]
  <2>1. \A h \in Span(b, r) \X (0..NumObjs) : walk[h[1]][h[2]] = met(h[1], h[2])
    OBVIOUS
  <2>2. found = [h \in {e \in Span(b, r) \X (0..NumObjs) : walk[e[1]][e[2]] # NoObject} |-> walk[h[1]][h[2]]]
    BY DEF ObjectList
  <2> HIDE DEF walk
  <2>3. {e \in Span(b, r) \X (0..NumObjs) : walk[e[1]][e[2]] # NoObject} = places
    BY <2>1
  <2> QED
    BY <2>1, <2>2, <2>3
<1>2. Links.cells = cells
  BY DEF Links
<1>3. \A d \in Span(b, r) : CellAt(b, d) \in Grid
  BY DEF Span
<1>4. ASSUME NEW d \in Span(b, r)
      PROVE  /\ \A k \in 0..NumObjs : met(d, k) # NoObject => met(d, k) \in Chain(C, CellAt(b, d))
             /\ \A o \in Chain(C, CellAt(b, d)) : \E k \in 0..NumObjs : met(d, k) = o
             /\ \A j, k \in 0..NumObjs : met(d, j) = met(d, k) /\ met(d, j) # NoObject => j = k
  <2>1. PICK w : w = Walk(Links, Links.cells[CellAt(b, d)])
    OBVIOUS
  <2>2. /\ \A k \in 0..NumObjs : w[k] # NoObject => w[k] \in Chain(C, CellAt(b, d))
        /\ \A o \in Chain(C, CellAt(b, d)) : \E k \in 0..NumObjs : w[k] = o
        /\ \A j, k \in 0..NumObjs : w[j] = w[k] /\ w[j] # NoObject => j = k
    BY <1>3, <2>1, ChainIsWalked
  <2> QED
    BY <1>2, <2>1, <2>2
<1> HIDE DEF met
<1>5. ASSUME NEW h \in DOMAIN found
      PROVE  /\ h[1] \in Span(b, r) /\ h[2] \in 0..NumObjs /\ h = <<h[1], h[2]>>
             /\ found[h] = met(h[1], h[2]) /\ found[h] # NoObject
             /\ found[h] \in C /\ block[found[h]] = CellAt(b, h[1])
  <2>1. h \in places /\ found[h] = met(h[1], h[2])
    BY <1>1
  <2>2. h[1] \in Span(b, r) /\ h[2] \in 0..NumObjs /\ h = <<h[1], h[2]>> /\ met(h[1], h[2]) # NoObject
    BY <2>1
  <2>3. met(h[1], h[2]) \in Chain(C, CellAt(b, h[1]))
    BY <1>4, <2>2
  <2> QED
    BY <2>1, <2>2, <2>3 DEF Chain
<1>6. ASSUME NEW g \in DOMAIN found, NEW h \in DOMAIN found, found[g] = found[h], g[1] = h[1] PROVE g = h
  <2>1. g[2] = h[2]
    BY <1>4, <1>5, <1>6
  <2> QED
    BY <1>5, <1>6, <2>1
<1>7. ASSUME NEW o \in C, NEW d \in Span(b, r), block[o] = CellAt(b, d) PROVE o \in Range(found)
  <2>1. o \in Chain(C, CellAt(b, d)) /\ o # NoObject
    BY <1>7, CellFacts DEF Chain, ChainsOf
  <2>2. PICK k \in 0..NumObjs : met(d, k) = o
    BY <1>4, <2>1
  <2>3. <<d, k>> \in places
    BY <2>1, <2>2
  <2>4. <<d, k>> \in DOMAIN found /\ found[<<d, k>>] = o
    BY <1>1, <2>2, <2>3
  <2> QED
    BY <2>4 DEF Range
<1> QED
  BY <1>5, <1>6, <1>7

\* A search finds what is near, and nothing else, once.
LEMMA SearchIsTrue ==
  ASSUME wrapped \in BOOLEAN, block \in [Flying -> Grid], Links \in LinkSets,
         NEW C, ChainsOf(C, Links), Flying \ lapsed \subseteq C, NEW b \in Grid, NEW r \in Nat
  PROVE  LET found == ObjectList(b, r) IN
         /\ Within(b, Radius(r)) \ lapsed \subseteq Range(found)
         /\ Range(found) \subseteq Within(b, Radius(r))
         /\ (wrapped => 2 * Radius(r) < WorldX /\ 2 * Radius(r) < WorldY) => IsInjective(found)
<1> DEFINE R == Radius(r)
<1> PICK found : found = ObjectList(b, r)
  OBVIOUS
<1>1. /\ \A h \in DOMAIN found : /\ h[1] \in Span(b, r) /\ h[2] \in 0..NumObjs
                                 /\ found[h] \in C /\ block[found[h]] = CellAt(b, h[1])
      /\ \A g, h \in DOMAIN found : found[g] = found[h] /\ g[1] = h[1] => g = h
      /\ \A o \in C, d \in Span(b, r) : block[o] = CellAt(b, d) => o \in Range(found)
  BY ListIs
<1>2. R \in Nat /\ (wrapped => 2 * R <= WorldX /\ 2 * R <= WorldY)
  BY RadiusIs
<1>3. b[1] \in 0..(WorldX - 1) /\ b[2] \in 0..(WorldY - 1) /\ WorldX \in Nat /\ WorldY \in Nat
  BY CellFacts DEF Grid
<1>4. \A d \in Span(b, r) : d = <<d[1], d[2]>> /\ d[1] \in -R..R /\ d[2] \in -R..R
  BY DEF Span
<1> HIDE DEF R
<1>x. /\ \A m \in 0..(WorldX - 1) : Apart(m, b[1], WorldX) <= R => \E d \in -R..R : Reached(b[1], d, WorldX) = m
      /\ \A d \in -R..R : Reached(b[1], d, WorldX) \in 0..(WorldX - 1) => Apart(Reached(b[1], d, WorldX), b[1], WorldX) <= R
      /\ (wrapped => 2 * R < WorldX) =>
           \A d, e \in -R..R : Reached(b[1], d, WorldX) = Reached(b[1], e, WorldX) => d = e
  BY <1>2, <1>3, AlongASide
<1>y. /\ \A m \in 0..(WorldY - 1) : Apart(m, b[2], WorldY) <= R => \E d \in -R..R : Reached(b[2], d, WorldY) = m
      /\ \A d \in -R..R : Reached(b[2], d, WorldY) \in 0..(WorldY - 1) => Apart(Reached(b[2], d, WorldY), b[2], WorldY) <= R
      /\ (wrapped => 2 * R < WorldY) =>
           \A d, e \in -R..R : Reached(b[2], d, WorldY) = Reached(b[2], e, WorldY) => d = e
  BY <1>2, <1>3, AlongASide
<1>5. ASSUME NEW o \in Within(b, R), o \notin lapsed PROVE o \in Range(found)
  <2>1. o \in C /\ block[o] \in Grid /\ block[o] = <<block[o][1], block[o][2]>>
        /\ block[o][1] \in 0..(WorldX - 1) /\ block[o][2] \in 0..(WorldY - 1)
    BY <1>5 DEF Within, Grid
  <2>2. PICK dx \in -R..R : Reached(b[1], dx, WorldX) = block[o][1]
    BY <1>5, <1>x, <2>1 DEF Within
  <2>3. PICK dy \in -R..R : Reached(b[2], dy, WorldY) = block[o][2]
    BY <1>5, <1>y, <2>1 DEF Within
  <2>4. CellAt(b, <<dx, dy>>) = block[o]
    BY <2>1, <2>2, <2>3, CellAtIs
  <2>5. <<dx, dy>> \in Span(b, r)
    BY <2>1, <2>4 DEF Span, R
  <2> QED
    BY <1>1, <2>1, <2>4, <2>5
<1>6. ASSUME NEW o \in Range(found) PROVE o \in Within(b, R)
  <2>1. PICK h \in DOMAIN found : found[h] = o
    BY <1>6 DEF Range
  <2>2. o \in C /\ h[1] \in Span(b, r) /\ block[o] = CellAt(b, h[1]) /\ o \in Flying /\ block[o] \in Grid
    BY <1>1, <2>1 DEF ChainsOf
  <2>3. PICK d : d = h[1] /\ d[1] \in -R..R /\ d[2] \in -R..R
    BY <1>4, <2>2
  <2>4. block[o] = <<Reached(b[1], d[1], WorldX), Reached(b[2], d[2], WorldY)>>
    BY <2>2, <2>3, CellAtIs
  <2>5. block[o][1] = Reached(b[1], d[1], WorldX) /\ block[o][2] = Reached(b[2], d[2], WorldY)
        /\ block[o][1] \in 0..(WorldX - 1) /\ block[o][2] \in 0..(WorldY - 1)
    BY <2>2, <2>4 DEF Grid
  <2>6. Apart(block[o][1], b[1], WorldX) <= R /\ Apart(block[o][2], b[2], WorldY) <= R
    BY <1>x, <1>y, <2>3, <2>5
  <2> QED
    BY <2>2, <2>6 DEF Within
<1>7. ASSUME wrapped => 2 * R < WorldX /\ 2 * R < WorldY PROVE IsInjective(found)
  <2> SUFFICES ASSUME NEW g \in DOMAIN found, NEW h \in DOMAIN found, found[g] = found[h] PROVE g = h
    BY DEF IsInjective
  <2>1. CellAt(b, g[1]) = CellAt(b, h[1]) /\ g[1] \in Span(b, r) /\ h[1] \in Span(b, r)
    BY <1>1
  <2>2. PICK d, e : d = g[1] /\ e = h[1]
    OBVIOUS
  <2>3. d = <<d[1], d[2]>> /\ e = <<e[1], e[2]>> /\ d[1] \in -R..R /\ d[2] \in -R..R /\ e[1] \in -R..R /\ e[2] \in -R..R
    BY <1>4, <2>1, <2>2
  <2>4. Reached(b[1], d[1], WorldX) = Reached(b[1], e[1], WorldX) /\ Reached(b[2], d[2], WorldY) = Reached(b[2], e[2], WorldY)
    BY <2>1, <2>2, CellAtIs
  <2>5. d[1] = e[1] /\ d[2] = e[2]
    BY <1>7, <1>x, <1>y, <2>3, <2>4
  <2>6. g[1] = h[1]
    BY <2>2, <2>3, <2>5
  <2> QED
    BY <1>1, <2>6
<1> QED
  BY <1>5, <1>6, <1>7 DEF R
-----------------------------------------------------------------------------
LEMMA CellsStep ==
  ASSUME CellsInvariant, [CellsNext]_cellVars
  PROVE  CellsInvariant'
<1> USE DEF Links
<1>1. CASE Fly
  <2>1. PICK o \in Flying, b \in Grid, ends \in BOOLEAN :
          /\ block' = [block EXCEPT ![o] = b]
          /\ lapsed' = IF ends THEN lapsed \cup {o} ELSE lapsed \ {o}
    BY <1>1 DEF Fly
  <2>2. block' \in [Flying -> Grid] /\ lapsed' \subseteq Flying
    BY <2>1 DEF CellsInvariant
  <2>3. cellPhase = "move" /\ cellPhase' = "move" /\ wrapped' = wrapped /\ Links' = Links
    BY <1>1 DEF Fly, links
  <2> QED
    BY <2>2, <2>3 DEF CellsInvariant, Cut
<1>2. CASE CellsInit
  <2>1. /\ cellPhase = "move" /\ cellPhase' = "collide" /\ wrapped' = wrapped /\ block' = block /\ lapsed' = lapsed
        /\ LinksBecome(AllChained(Links)) /\ Cut(Links) /\ Links \in LinkSets
        /\ block \in [Flying -> Grid] /\ lapsed \subseteq Flying
    BY <1>2 DEF CellsInit, CellsInvariant
  <2>2. PICK u : u = AllChained(Links)
    OBVIOUS
  <2>3. u \in LinkSets /\ ChainsOf(Flying \ lapsed, u) /\ UsedAre(Len(u.used), u)
    BY <2>1, <2>2, AllChainedKeeps
  <2>4. Links' = u /\ used' = u.used
    BY <2>1, <2>2, <2>3 DEF LinksBecome, LinkSets
  <2>5. ChainsOf(Flying \ lapsed, Links)'
    BY <2>1, <2>3, <2>4 DEF ChainsOf
  <2>6. (UsedAre(Len(used), Links))'
    BY <2>3, <2>4 DEF UsedAre
  <2>7. Flying \ lapsed \in SUBSET Flying /\ (Flying \ lapsed)' \subseteq Flying \ lapsed
    BY <2>1
  <2> QED
    BY <2>1, <2>3, <2>4, <2>5, <2>6, <2>7 DEF CellsInvariant
<1>3. CASE ObjectsCollide
  <2>1. PICK o \in Flying \ lapsed : lapsed' = lapsed \cup {o}
    BY <1>3 DEF ObjectsCollide
  <2>2. cellPhase = "collide" /\ cellPhase' = cellPhase /\ wrapped' = wrapped /\ block' = block /\ Links' = Links
        /\ used' = used
    BY <1>3 DEF ObjectsCollide, links
  <2>3. PICK C \in SUBSET Flying : Flying \ lapsed \subseteq C /\ ChainsOf(C, Links)
    BY <2>2 DEF CellsInvariant
  <2>4. ChainsOf(C, Links)' /\ (UsedAre(Len(used), Links))'
    BY <2>2, <2>3 DEF ChainsOf, UsedAre, CellsInvariant
  <2>5. (Flying \ lapsed)' \subseteq C /\ lapsed' \subseteq Flying
    BY <2>1, <2>3 DEF CellsInvariant
  <2> QED
    BY <2>2, <2>4, <2>5 DEF CellsInvariant
<1>4. CASE CellsCleanup
  <2>1. /\ cellPhase = "collide" /\ cellPhase' = "move" /\ wrapped' = wrapped /\ block' = block /\ lapsed' = lapsed
        /\ LinksBecome(AllCleaned(Links)) /\ Links \in LinkSets /\ UsedAre(Len(Links.used), Links)
        /\ block \in [Flying -> Grid] /\ lapsed \subseteq Flying
    BY <1>4 DEF CellsCleanup, CellsInvariant
  <2>2. PICK C \in SUBSET Flying : ChainsOf(C, Links)
    BY <2>1 DEF CellsInvariant
  <2>3. PICK u : u = AllCleaned(Links)
    OBVIOUS
  <2>4. u \in LinkSets /\ Cut(u)
    BY <2>1, <2>2, <2>3, AllCleanedCuts
  <2>5. Links' = u
    BY <2>1, <2>3, <2>4 DEF LinksBecome, LinkSets
  <2>6. Cut(Links)'
    BY <2>4, <2>5 DEF Cut
  <2> QED
    BY <2>1, <2>4, <2>5, <2>6 DEF CellsInvariant
<1>5. CASE UNCHANGED cellVars
  <2>1. cellPhase' = cellPhase /\ wrapped' = wrapped /\ block' = block /\ lapsed' = lapsed /\ used' = used
        /\ cells' = cells /\ prev' = prev /\ next' = next
    BY <1>5 DEF cellVars, links
  <2>2. Links' = Links
    BY <2>1
  <2> HIDE DEF Links
  <2>3. ASSUME NEW C \in SUBSET Flying, ChainsOf(C, Links) PROVE ChainsOf(C, Links)'
    BY <2>1, <2>2, <2>3 DEF ChainsOf
  <2>4. ASSUME UsedAre(Len(used), Links) PROVE (UsedAre(Len(used), Links))'
    BY <2>1, <2>2, <2>4 DEF UsedAre
  <2>5. ASSUME Cut(Links) PROVE Cut(Links)'
    BY <2>2, <2>5 DEF Cut
  <2>6. CASE cellPhase = "move"
    BY <2>1, <2>2, <2>5, <2>6 DEF CellsInvariant
  <2>7. CASE cellPhase = "collide"
    <3>1. UsedAre(Len(used), Links)
      BY <2>7 DEF CellsInvariant
    <3>2. PICK C \in SUBSET Flying : Flying \ lapsed \subseteq C /\ ChainsOf(C, Links)
      BY <2>7 DEF CellsInvariant
    <3> QED
      BY <2>1, <2>2, <2>3, <2>4, <2>7, <3>1, <3>2 DEF CellsInvariant
  <2> QED
    BY <2>6, <2>7 DEF CellsInvariant
<1> QED
  BY <1>1, <1>2, <1>3, <1>4, <1>5 DEF CellsNext

LEMMA CellsBegin == CellsStart => CellsInvariant
<1> SUFFICES ASSUME CellsStart PROVE CellsInvariant
  OBVIOUS
<1>1. <<0, 0>> \in Grid
  BY CellFacts DEF Grid
<1>2. cells = [b \in Grid |-> NoObject] /\ used = <<>> /\ prev = [o \in Flying |-> NoObject] /\ next = prev
  BY DEF CellsStart
<1>3. Links \in LinkSets
  BY <1>2, CellFacts DEF LinkSets, Links
<1>4. Cut(Links)
  BY <1>2 DEF Cut, Links
<1> QED
  BY <1>1, <1>3, <1>4 DEF CellsStart, CellsInvariant

LEMMA CellsFound == CellsInvariant => CellsAreTrue
<1> SUFFICES ASSUME CellsInvariant PROVE CellsAreTrue
  OBVIOUS
<1>1. CASE cellPhase = "move"
  BY <1>1 DEF CellsInvariant, CellsAreTrue, Cut, Links
<1>2. CASE cellPhase = "collide"
  <2>1. PICK C \in SUBSET Flying : Flying \ lapsed \subseteq C /\ ChainsOf(C, Links)
    BY <1>2 DEF CellsInvariant
  <2>2. wrapped \in BOOLEAN /\ block \in [Flying -> Grid] /\ Links \in LinkSets /\ Links.cells = cells
    BY DEF CellsInvariant, Links
  <2>3. ASSUME NEW b \in Grid PROVE Walk(Links, cells[b])[NumObjs] = NoObject
    BY <2>1, <2>2, <2>3, ChainIsWalked
  <2>4. ASSUME NEW search \in Searches
        PROVE  LET b == search[1]  r == search[2]  found == ObjectList(b, r) IN
               /\ Within(b, Radius(r)) \ lapsed \subseteq Range(found)
               /\ Range(found) \subseteq Within(b, Radius(r))
               /\ (wrapped => 2 * Radius(r) < WorldX /\ 2 * Radius(r) < WorldY) => IsInjective(found)
    <3>1. search[1] \in Grid /\ search[2] \in Nat
      BY CellsAssumption
    <3> QED
      BY <2>1, <2>2, <3>1, SearchIsTrue
  <2> QED
    BY <1>2, <2>3, <2>4 DEF CellsAreTrue
<1> QED
  BY <1>1, <1>2 DEF CellsInvariant

(* In a world of any size, and whatever expires meanwhile, every search    *)
(* of Collision_cells_objects_get finds what is near, once, and after the  *)
(* frame the objects are free of links (collision.c).                      *)
THEOREM EverythingNearIsFound == CellsSpec => []CellsAreTrue
<1>1. CellsInvariant /\ [CellsNext]_cellVars => CellsInvariant'
  BY CellsStep
<1> QED
  BY <1>1, CellsBegin, CellsFound, PTL DEF CellsSpec
-----------------------------------------------------------------------------
(* The map: where a line is.                                               *)

LEMMA TextIs ==
  ASSUME mapText \in Drawings
  PROVE  /\ mapText \in Seq(STRING) /\ Len(mapText) \in Nat /\ DOMAIN mapText = 1..Len(mapText)
         /\ \A k \in 1..Len(mapText) : (\A j \in k..Len(mapText) : mapText[j] # "/") => Len(mapText) - k < MapWidth
BY MapAssumption

\* How many lines have ended grows by one at every end.
LEMMA AboveIs ==
  ASSUME mapText \in Drawings
  PROVE  /\ Above(0) = 0
         /\ \A k \in 0..Len(mapText) : Above(k) \in Nat
         /\ \A k \in 1..Len(mapText) : Above(k) = Above(k - 1) + (IF mapText[k] = "/" THEN 1 ELSE 0)
<1> DEFINE ends(k) == {j \in 1..k : mapText[j] = "/"}
<1>1. Len(mapText) \in Nat
  BY TextIs
<1>2. ASSUME NEW k \in 0..Len(mapText) PROVE IsFiniteSet(ends(k)) /\ Cardinality(ends(k)) \in Nat
  <2>1. IsFiniteSet(1..k)
    BY FS_Interval
  <2>2. ends(k) \subseteq 1..k
    OBVIOUS
  <2>3. IsFiniteSet(ends(k))
    BY <2>1, <2>2, FS_Subset
  <2> QED
    BY <2>3, FS_CardinalityType
<1>3. Above(0) = 0
  <2>1. ends(0) = {}
    OBVIOUS
  <2> QED
    BY <2>1, FS_EmptySet DEF Above
<1>4. ASSUME NEW k \in 1..Len(mapText)
      PROVE  Above(k) = Above(k - 1) + (IF mapText[k] = "/" THEN 1 ELSE 0)
  <2>1. k - 1 \in 0..Len(mapText) /\ k \notin ends(k - 1)
    BY <1>1
  <2>2. ends(k) = IF mapText[k] = "/" THEN ends(k - 1) \cup {k} ELSE ends(k - 1)
    BY <1>1
  <2>3. IsFiniteSet(ends(k - 1)) /\ Cardinality(ends(k - 1)) \in Nat
    BY <1>2, <2>1
  <2> HIDE DEF ends
  <2>4. Cardinality(ends(k - 1) \cup {k}) = Cardinality(ends(k - 1)) + 1
    BY <2>1, <2>3, FS_AddElement
  <2>5. Above(k) = Cardinality(ends(k)) /\ Above(k - 1) = Cardinality(ends(k - 1))
    BY DEF Above, ends
  <2> QED
    BY <2>2, <2>3, <2>4, <2>5
<1> QED
  BY <1>2, <1>3, <1>4 DEF Above

LEMMA AboveGrows ==
  ASSUME mapText \in Drawings, NEW p \in 0..Len(mapText), NEW q \in p..Len(mapText)
  PROVE  /\ Above(p) <= Above(q)
         /\ \A j \in (p + 1)..q : mapText[j] = "/" => Above(p) < Above(q)
         /\ (\A j \in (p + 1)..q : mapText[j] # "/") => Above(q) = Above(p)
<1>1. Len(mapText) \in Nat
  BY TextIs
<1>2. /\ \A k \in 0..Len(mapText) : Above(k) \in Nat
      /\ \A k \in 1..Len(mapText) : Above(k) = Above(k - 1) + (IF mapText[k] = "/" THEN 1 ELSE 0)
  BY AboveIs
<1> DEFINE n == q - p
           T == {i \in 0..n : /\ Above(p) <= Above(p + i)
                              /\ \A j \in (p + 1)..(p + i) : mapText[j] = "/" => Above(p) < Above(p + i)
                              /\ (\A j \in (p + 1)..(p + i) : mapText[j] # "/") => Above(p + i) = Above(p)}
<1>3. n \in Nat /\ p + n = q
  BY <1>1
<1>4. 0 \in T
  BY <1>2, <1>3
<1>5. ASSUME NEW i \in 1..n, i - 1 \in T PROVE i \in T
  <2>1. i \in 0..n /\ p + i \in 1..Len(mapText) /\ (p + i) - 1 = p + (i - 1) /\ p + (i - 1) \in 0..Len(mapText)
    BY <1>1
  <2>2. PICK k, l : k = p + i /\ l = p + (i - 1)
    OBVIOUS
  <2>3. k \in 1..Len(mapText) /\ l = k - 1 /\ l \in 0..Len(mapText) /\ p \in Nat /\ p <= l
    BY <1>1, <2>1, <2>2
  <2>4. Above(k) = Above(l) + (IF mapText[k] = "/" THEN 1 ELSE 0) /\ Above(l) \in Nat /\ Above(p) \in Nat
    BY <1>2, <2>3
  <2>5. /\ Above(p) <= Above(l)
        /\ \A j \in (p + 1)..l : mapText[j] = "/" => Above(p) < Above(l)
        /\ (\A j \in (p + 1)..l : mapText[j] # "/") => Above(l) = Above(p)
    BY <1>5, <2>2
  <2>6. \A j \in (p + 1)..k : j \in (p + 1)..l \/ j = k
    BY <2>3
  <2>7. k \in (p + 1)..k /\ \A j \in (p + 1)..l : j \in (p + 1)..k
    BY <2>3
  <2>8. /\ Above(p) <= Above(k)
        /\ \A j \in (p + 1)..k : mapText[j] = "/" => Above(p) < Above(k)
        /\ (\A j \in (p + 1)..k : mapText[j] # "/") => Above(k) = Above(p)
    BY <2>4, <2>5, <2>6, <2>7
  <2> QED
    BY <2>1, <2>2, <2>8
<1> HIDE DEF T
<1>6. n \in T
  <2>1. \A i \in 1..n : i - 1 \in T => i \in T
    BY <1>5
  <2> HIDE DEF n
  <2>2. \A i \in 0..n : i \in T
    BY <1>3, <1>4, <2>1, UpTo
  <2> QED
    BY <1>3, <2>2
<1> QED
  BY <1>3, <1>6 DEF T

\* A line starts behind p.
Starts(p) == p = 0 \/ (p \in 1..Len(mapText) /\ mapText[p] = "/")

LEMMA OneStart ==
  ASSUME mapText \in Drawings, NEW p \in 0..Len(mapText), NEW q \in 0..Len(mapText),
         Starts(p), Starts(q), Above(p) = Above(q)
  PROVE  p = q
<1>1. Len(mapText) \in Nat
  BY TextIs
<1>2. ASSUME NEW i \in 0..Len(mapText), NEW j \in 0..Len(mapText), Starts(j), i < j PROVE Above(i) < Above(j)
  <2>1. j \in i..Len(mapText) /\ j \in (i + 1)..j /\ mapText[j] = "/"
    BY <1>1, <1>2 DEF Starts
  <2> QED
    BY <2>1, AboveGrows
<1>3. Above(p) \in Nat /\ Above(q) \in Nat
  BY AboveIs
<1>4. ~(p < q) /\ ~(q < p)
  BY <1>2, <1>3
<1> QED
  BY <1>4

\* From the start of a line to one of its characters no line ends.
LEMMA StandsIs ==
  ASSUME mapText \in Drawings, NEW k \in 1..Len(mapText), NEW line, NEW c \in Nat \ {0}, Stands(k, line, c)
  PROVE  k - c \in 0..Len(mapText) /\ Starts(k - c) /\ Above(k - c) = line /\ k \in Tags
         /\ \A j \in (k - c + 1)..k : mapText[j] # "/"
<1>1. Len(mapText) \in Nat /\ DOMAIN mapText = 1..Len(mapText)
  BY TextIs
<1>2. c <= k /\ Above(k) = line /\ (k = c \/ mapText[k - c] = "/") /\ \A j \in (k - c + 1)..k : mapText[j] # "/"
  BY DEF Stands
<1>3. k - c \in 0..Len(mapText) /\ k \in (k - c)..Len(mapText) /\ k \in (k - c + 1)..k
  BY <1>1, <1>2
<1>4. Starts(k - c)
  BY <1>1, <1>2, <1>3 DEF Starts
<1>5. Above(k) = Above(k - c)
  BY <1>2, <1>3, AboveGrows
<1> QED
  BY <1>1, <1>2, <1>3, <1>4, <1>5 DEF Tags

LEMMA OneStands ==
  ASSUME mapText \in Drawings, NEW j \in 1..Len(mapText), NEW k \in 1..Len(mapText),
         NEW line, NEW c \in Nat \ {0}, Stands(j, line, c), Stands(k, line, c)
  PROVE  j = k
<1>1. j - c = k - c
  BY StandsIs, OneStart
<1> QED
  BY <1>1, TextIs

\* What is read next is in column c + 1 of a line, or the line or the text ended
\* before.
AtColumn(k, line, c) ==
  /\ k \in 1..(Len(mapText) + 1)
  /\ \/ \E m \in 0..c : /\ k - m - 1 \in 0..Len(mapText) /\ Starts(k - m - 1) /\ Above(k - m - 1) = line
                        /\ \A j \in (k - m)..(k - 1) : mapText[j] # "/"
                        /\ m < c => k \notin Tags
     \/ k = Len(mapText) + 1 /\ Above(Len(mapText)) < line

LEMMA TextBegins ==
  ASSUME mapText \in Drawings PROVE AtColumn(1, 0, 0)
<1>1. Len(mapText) \in Nat /\ Above(0) = 0
  BY TextIs, AboveIs
<1>2. /\ 1 \in 1..(Len(mapText) + 1) /\ 0 \in 0..0 /\ 1 - 0 - 1 = 0 /\ 0 \in 0..Len(mapText) /\ ~(0 < 0)
      /\ \A j \in (1 - 0)..(1 - 1) : FALSE
  BY <1>1
<1>3. Starts(0)
  BY DEF Starts
<1> QED
  BY <1>1, <1>2, <1>3 DEF AtColumn

LEMMA CharIsRead ==
  ASSUME mapText \in Drawings, NEW k, NEW line, NEW c \in Nat, AtColumn(k, line, c), k \in Tags
  PROVE  Stands(k, line, c + 1) /\ AtColumn(k + 1, line, c + 1)
<1>1. Len(mapText) \in Nat /\ DOMAIN mapText = 1..Len(mapText)
  BY TextIs
<1>2. k \in 1..Len(mapText) /\ mapText[k] # "/"
  BY <1>1 DEF Tags
<1>3. /\ k - c - 1 \in 0..Len(mapText) /\ Starts(k - c - 1) /\ Above(k - c - 1) = line
      /\ \A j \in (k - c)..(k - 1) : mapText[j] # "/"
  <2>1. k # Len(mapText) + 1
    BY <1>1, <1>2
  <2>2. PICK m \in 0..c : /\ k - m - 1 \in 0..Len(mapText) /\ Starts(k - m - 1) /\ Above(k - m - 1) = line
                          /\ \A j \in (k - m)..(k - 1) : mapText[j] # "/"
                          /\ m < c => k \notin Tags
    BY <2>1 DEF AtColumn
  <2>3. m = c
    BY <2>2
  <2> QED
    BY <2>2, <2>3
<1>4. \A j \in (k - c)..k : mapText[j] # "/"
  <2>1. \A j \in (k - c)..k : j \in (k - c)..(k - 1) \/ j = k
    BY <1>1, <1>2
  <2> QED
    BY <1>2, <1>3, <2>1
<1>5. k \in (k - c - 1)..Len(mapText) /\ (k - c - 1) + 1 = k - c /\ k - (c + 1) = k - c - 1
      /\ k - (c + 1) + 1 = k - c /\ c + 1 <= k
  BY <1>1, <1>2, <1>3
<1>6. Above(k) = line
  BY <1>3, <1>4, <1>5, AboveGrows
<1>7. Stands(k, line, c + 1)
  <2>1. k = c + 1 \/ mapText[k - (c + 1)] = "/"
    BY <1>2, <1>3, <1>5 DEF Starts
  <2> QED
    BY <1>4, <1>5, <1>6, <2>1 DEF Stands
<1>8. AtColumn(k + 1, line, c + 1)
  <2>1. k + 1 \in 1..(Len(mapText) + 1) /\ c + 1 \in 0..(c + 1) /\ (k + 1) - (c + 1) - 1 = k - c - 1
        /\ (k + 1) - (c + 1) = k - c /\ (k + 1) - 1 = k
    BY <1>1, <1>2
  <2>2. /\ (k + 1) - (c + 1) - 1 \in 0..Len(mapText) /\ Starts((k + 1) - (c + 1) - 1)
        /\ Above((k + 1) - (c + 1) - 1) = line
        /\ \A j \in ((k + 1) - (c + 1))..((k + 1) - 1) : mapText[j] # "/"
    BY <1>3, <1>4, <2>1
  <2>3. ~(c + 1 < c + 1)
    OBVIOUS
  <2> QED
    BY <2>1, <2>2, <2>3 DEF AtColumn
<1> QED
  BY <1>7, <1>8

LEMMA NothingIsRead ==
  ASSUME mapText \in Drawings, NEW k, NEW line, NEW c \in Nat, AtColumn(k, line, c), k \notin Tags
  PROVE  (\A i \in 1..Len(mapText) : ~Stands(i, line, c + 1)) /\ AtColumn(k, line, c + 1)
<1>1. Len(mapText) \in Nat /\ DOMAIN mapText = 1..Len(mapText)
  BY TextIs
<1>2. AtColumn(k, line, c + 1)
  <2>1. \A m \in 0..c : m \in 0..(c + 1)
    OBVIOUS
  <2> QED
    BY <2>1 DEF AtColumn
<1>3. ASSUME NEW i \in 1..Len(mapText), Stands(i, line, c + 1) PROVE FALSE
  <2>1. /\ i - (c + 1) \in 0..Len(mapText) /\ Starts(i - (c + 1)) /\ Above(i - (c + 1)) = line
        /\ \A j \in (i - (c + 1) + 1)..i : mapText[j] # "/"
    <3>1. c + 1 \in Nat \ {0}
      OBVIOUS
    <3> QED
      BY <1>3, <3>1, StandsIs
  <2>2. CASE k = Len(mapText) + 1 /\ Above(Len(mapText)) < line
    <3>1. Len(mapText) \in (i - (c + 1))..Len(mapText) /\ Len(mapText) \in 0..Len(mapText)
      BY <1>1, <2>1
    <3>2. Above(i - (c + 1)) <= Above(Len(mapText))
      BY <2>1, <3>1, AboveGrows
    <3>3. Above(Len(mapText)) \in Nat /\ line \in Nat
      BY <2>1, <3>1, AboveIs
    <3> QED
      BY <2>1, <2>2, <3>2, <3>3
  <2>3. CASE ~(k = Len(mapText) + 1 /\ Above(Len(mapText)) < line)
    <3>1. PICK m \in 0..c : k - m - 1 \in 0..Len(mapText) /\ Starts(k - m - 1) /\ Above(k - m - 1) = line
      BY <2>3 DEF AtColumn
    <3>2. k - m - 1 = i - (c + 1)
      BY <2>1, <3>1, OneStart
    <3>3. k \in 1..(Len(mapText) + 1)
      BY DEF AtColumn
    <3>4. k \in (i - (c + 1) + 1)..i /\ k \in 1..Len(mapText)
      BY <1>1, <3>1, <3>2, <3>3
    <3> QED
      BY <1>1, <2>1, <3>4 DEF Tags
  <2> QED
    BY <2>2, <2>3
<1> QED
  BY <1>2, <1>3

\* At the end of a row the next line begins; the end of a line that is too long
\* is there.
LEMMA LineIsEnded ==
  ASSUME mapText \in Drawings, NEW line \in Nat, AtColumn(reading, line, MapWidth)
  PROVE  AtColumn(IF reading > Len(mapText) THEN reading ELSE LineEnd + 1, line + 1, 0)
<1>1. Len(mapText) \in Nat /\ DOMAIN mapText = 1..Len(mapText) /\ reading \in 1..(Len(mapText) + 1) /\ MapWidth \in Nat
  BY TextIs, MapAssumption DEF AtColumn
<1>2. CASE reading > Len(mapText)
  <2>1. reading = Len(mapText) + 1
    BY <1>1, <1>2
  <2>2. Above(Len(mapText)) <= line
    <3>1. CASE Above(Len(mapText)) < line
      BY <3>1, AboveIs, <1>1
    <3>2. CASE ~(Above(Len(mapText)) < line)
      <4>1. PICK m \in 0..MapWidth :
              /\ reading - m - 1 \in 0..Len(mapText) /\ Above(reading - m - 1) = line
              /\ \A j \in (reading - m)..(reading - 1) : mapText[j] # "/"
        BY <3>2 DEF AtColumn
      <4>2. Len(mapText) \in (reading - m - 1)..Len(mapText) /\ (reading - m - 1) + 1 = reading - m
            /\ reading - 1 = Len(mapText)
        BY <1>1, <2>1, <4>1
      <4>3. Above(Len(mapText)) = line
        BY <4>1, <4>2, AboveGrows
      <4> QED
        BY <4>3
    <3> QED
      BY <3>1, <3>2
  <2>3. Above(Len(mapText)) < line + 1
    <3>1. Above(Len(mapText)) \in Nat
      BY <1>1, AboveIs
    <3> QED
      BY <2>2, <3>1
  <2> QED
    BY <1>1, <1>2, <2>1, <2>3 DEF AtColumn
<1>3. CASE ~(reading > Len(mapText))
  <2>1. reading \in 1..Len(mapText)
    BY <1>1, <1>3
  <2>2. PICK m \in 0..MapWidth :
          /\ reading - m - 1 \in 0..Len(mapText) /\ Starts(reading - m - 1) /\ Above(reading - m - 1) = line
          /\ \A j \in (reading - m)..(reading - 1) : mapText[j] # "/"
          /\ m < MapWidth => reading \notin Tags
    BY <1>1, <2>1 DEF AtColumn
  <2>3. \E k \in reading..Len(mapText) : mapText[k] = "/"
    <3> SUFFICES ASSUME \A k \in reading..Len(mapText) : mapText[k] # "/" PROVE FALSE
      OBVIOUS
    <3>1. reading \in Tags
      BY <1>1, <2>1 DEF Tags
    <3>2. m = MapWidth
      BY <2>2, <3>1, MapAssumption
    <3>3. reading - m \in 1..Len(mapText)
      BY <1>1, <2>1, <2>2
    <3>4. \A j \in (reading - m)..Len(mapText) : j \in (reading - m)..(reading - 1) \/ j \in reading..Len(mapText)
      BY <1>1, <2>1, <3>3
    <3>5. \A j \in (reading - m)..Len(mapText) : mapText[j] # "/"
      BY <2>2, <3>4
    <3>6. Len(mapText) - (reading - m) < MapWidth
      BY <3>3, <3>5, TextIs
    <3> QED
      BY <1>1, <2>1, <3>2, <3>6
  <2>4. PICK e : e \in reading..Len(mapText) /\ mapText[e] = "/" /\ \A j \in reading..(e - 1) : mapText[j] # "/"
    <3> DEFINE E == {k \in reading..Len(mapText) : mapText[k] = "/"}
    <3>1. E # {} /\ E \in SUBSET Nat
      BY <2>1, <2>3
    <3>2. PICK e \in E : \A k \in E : e <= k
      <4> HIDE DEF E
      <4> QED
        BY <3>1, LeastNumber
    <3> QED
      BY <1>1, <2>1, <3>2
  <2>5. LineEnd \in reading..Len(mapText) /\ mapText[LineEnd] = "/" /\ \A j \in reading..(LineEnd - 1) : mapText[j] # "/"
    BY <2>4 DEF LineEnd
  <2>6. PICK k : k = LineEnd
    OBVIOUS
  <2>7. k \in 1..Len(mapText) /\ reading <= k
    BY <1>1, <2>1, <2>5, <2>6
  <2>8. Above(k - 1) = line
    <3>1. \A j \in (reading - m)..(k - 1) : j \in (reading - m)..(reading - 1) \/ j \in reading..(k - 1)
      BY <2>1, <2>7
    <3>2. \A j \in (reading - m)..(k - 1) : mapText[j] # "/"
      BY <2>2, <2>5, <2>6, <3>1
    <3>3. k - 1 \in (reading - m - 1)..Len(mapText) /\ (reading - m - 1) + 1 = reading - m
      BY <1>1, <2>1, <2>7
    <3> QED
      BY <2>2, <3>2, <3>3, AboveGrows
  <2>9. Above(k) = line + 1
    BY <2>5, <2>6, <2>7, <2>8, AboveIs
  <2>10. AtColumn(k + 1, line + 1, 0)
    <3>1. k + 1 \in 1..(Len(mapText) + 1) /\ 0 \in 0..0 /\ (k + 1) - 0 - 1 = k /\ k \in 0..Len(mapText)
          /\ ~(0 < 0) /\ \A j \in ((k + 1) - 0)..((k + 1) - 1) : FALSE
      BY <1>1, <2>7
    <3>2. Starts(k)
      BY <2>5, <2>6, <2>7 DEF Starts
    <3> QED
      BY <2>9, <3>1, <3>2 DEF AtColumn
  <2> QED
    BY <1>3, <2>6, <2>10
<1> QED
  BY <1>2, <1>3
-----------------------------------------------------------------------------
LEMMA DrawnStays ==
  ASSUME UNCHANGED mapOptions, NEW b
  PROVE  Drawn(b)' = Drawn(b)
BY DEF mapOptions, Drawn, Stands, Above, OnBorder, Border, SizeX, SizeY

LEMMA PlacesStay ==
  ASSUME UNCHANGED mapOptions
  PROVE  /\ Border' = Border /\ SizeX' = SizeX /\ SizeY' = SizeY /\ MapGrid' = MapGrid
         /\ \A k, line, c : AtColumn(k, line, c)' = AtColumn(k, line, c)
         /\ \A a, b : Far(a, b)' = Far(a, b)
         /\ \A b, dir : Beside(b, dir)' = Beside(b, dir)
<1>1. mapText' = mapText /\ extraBorder' = extraBorder /\ wrapPlay' = wrapPlay
  BY DEF mapOptions
<1>2. Border' = Border /\ SizeX' = SizeX /\ SizeY' = SizeY /\ MapGrid' = MapGrid
  BY <1>1 DEF Border, SizeX, SizeY, MapGrid
<1>3. ASSUME NEW k, NEW line, NEW c PROVE AtColumn(k, line, c)' = AtColumn(k, line, c)
  BY <1>1 DEF AtColumn, Starts, Above, Tags
<1>4. ASSUME NEW a, NEW b PROVE Far(a, b)' = Far(a, b)
  BY <1>1, <1>2 DEF Far, Along
<1>5. ASSUME NEW b, NEW dir PROVE Beside(b, dir)' = Beside(b, dir)
  BY <1>1, <1>2 DEF Beside, NextTo
<1> QED
  BY <1>2, <1>3, <1>4, <1>5
-----------------------------------------------------------------------------
(* The inductive invariant.                                                *)

\* A block the reading has come by.
ReadBlock(b) == mapPhase # "read" \/ b[2] > row \/ (b[2] = row /\ b[1] < column)

\* The column of the drawing that is read next, from 0.
InLine(c) == IF c < 0 THEN 0 ELSE IF c > MapWidth THEN MapWidth ELSE c

TextPlace ==
  mapPhase = "read" =>
    /\ column <= SizeX
    /\ extraBorder /\ row = SizeY - 1 => AtColumn(reading, 0, 0)
    /\ ~(extraBorder /\ row \in {0, SizeY - 1})
         => AtColumn(reading, MapHeight - 1 - (row - Border), InLine(column - Border))

BlocksAreDrawn ==
  /\ \A b \in MapGrid : ReadBlock(b) =>
       worldBlock[b] = IF mapPhase = "done" /\ Drawn(b) = "$" THEN " " ELSE Tag(Drawn(b))

\* The blocks whose objects are made.
Passed ==
  CASE mapPhase = "read" -> {}
    [] mapPhase = "objects" -> {b \in MapGrid : b[1] < column \/ (b[1] = column /\ b[2] < row)}
    [] OTHER -> MapGrid

Listed(objects, places) ==
  /\ \A j, k \in DOMAIN objects : objects[j].at = objects[k].at => j = k
  /\ {objects[k].at : k \in DOMAIN objects} = places

BasesOf(places)     == {b \in places : Drawn(b) \in BaseTags}
TreasuresOf(places) == {b \in places : Drawn(b) = "*" /\ teamPlay}
FuelsOf(places)     == {b \in places : Drawn(b) = "#"}

AllListed ==
  /\ Listed(bases, BasesOf(Passed))
  /\ Listed(treasures, TreasuresOf(Passed))
  /\ Listed(fuels, FuelsOf(Passed))

GivenToNearest ==
  teamPlay =>
  /\ \A k \in DOMAIN treasures :
       IF mapPhase \in {"fuels", "turn", "done"} \/ (mapPhase = "treasures" /\ k < number)
       THEN NearestHas(treasures[k]) ELSE treasures[k].team = Nobody
  /\ \A k \in DOMAIN fuels :
       mapPhase \in {"turn", "done"} \/ (mapPhase = "fuels" /\ k < number) => NearestHas(fuels[k])

OfTeam(places, t) == {b \in places : TeamOf(Drawn(b)) = t}

TeamTreasures(t) == {k \in DOMAIN treasures : treasures[k].team = t}
WithBases == {t \in TeamNumbers : teams[t].numBases > 0}

Counted ==
  teamPlay =>
  /\ \A t \in TeamNumbers :
       /\ teams[t].numBases = Cardinality(OfTeam(BasesOf(Passed), t))
       /\ teams[t].numTreasures = Cardinality(TeamTreasures(t))
  /\ numTeamBases = Cardinality(WithBases)

BasesFace ==
  mapPhase = "done" =>
    \A k \in DOMAIN bases :
       (\E dir \in Directions : \E n \in Beside(bases[k].at, dir) : Drawn(n) = "$")
         => \E n \in Beside(bases[k].at, bases[k].dir) : Drawn(n) = "$"

MapPhases == {"read", "objects", "treasures", "fuels", "turn", "done"}
BaseSort  == [at : MapGrid, team : TeamNumbers \cup {Nobody}, dir : Directions]
OwnedSort == [at : MapGrid, team : TeamNumbers \cup {Nobody}]

MapTypes ==
  /\ mapText \in Drawings /\ extraBorder \in BOOLEAN /\ teamPlay \in BOOLEAN /\ wrapPlay \in BOOLEAN
  /\ mapPhase \in MapPhases
  /\ column \in Nat /\ row \in 0..(SizeY - 1) /\ number \in Nat \ {0}
  /\ mapPhase = "objects" => column < SizeX
  /\ mapPhase \in {"treasures", "fuels"} => teamPlay
  /\ mapPhase \in {"read", "objects"} => number = 1
  /\ worldBlock = [b \in MapGrid |-> worldBlock[b]]
  /\ bases \in Seq(BaseSort)
  /\ treasures \in Seq(OwnedSort)
  /\ fuels \in Seq(OwnedSort)
  /\ teams \in [TeamNumbers -> [numBases : Nat, numTreasures : Nat]]
  /\ numTeamBases \in Nat

MapInvariant ==
  MapTypes /\ TextPlace /\ BlocksAreDrawn /\ AllListed /\ GivenToNearest /\ Counted /\ BasesFace

LEMMA SizesAre ==
  ASSUME extraBorder \in BOOLEAN
  PROVE  /\ Border \in {0, 1} /\ (Border = 1 <=> extraBorder)
         /\ SizeX = MapWidth + 2 * Border /\ SizeY = MapHeight + 2 * Border
         /\ SizeX \in Nat \ {0} /\ SizeY \in Nat \ {0}
         /\ MapWidth \in Nat \ {0} /\ MapHeight \in Nat \ {0}
BY MapAssumption DEF Border, SizeX, SizeY

\* A set of blocks is finite.
LEMMA GridIsFinite ==
  ASSUME extraBorder \in BOOLEAN
  PROVE  IsFiniteSet(MapGrid) /\ \A V \in SUBSET MapGrid : IsFiniteSet(V) /\ Cardinality(V) \in Nat
<1>1. IsFiniteSet(0..(SizeX - 1)) /\ IsFiniteSet(0..(SizeY - 1))
  <2>1. 0 \in Int /\ SizeX - 1 \in Int /\ SizeY - 1 \in Int
    BY SizesAre
  <2> QED
    BY <2>1, FS_Interval
<1>2. IsFiniteSet(MapGrid)
  BY <1>1, FS_Product DEF MapGrid
<1> QED
  BY <1>2, FS_Subset, FS_CardinalityType

LEMMA TagsAre ==
  /\ "*" \notin BaseTags /\ " " \notin BaseTags /\ "#" \notin BaseTags /\ "$" \notin BaseTags /\ "x" \notin BaseTags
  /\ \A c \in BaseTags : TeamOf(c) \in TeamNumbers
<1>1. BaseTags = {"_", "0", "1", "2", "3", "4", "5", "6", "7", "8", "9"}
  <2>1. DOMAIN Digits = 1..10
    BY DEF Digits
  <2>2. /\ Digits[1] = "0" /\ Digits[2] = "1" /\ Digits[3] = "2" /\ Digits[4] = "3" /\ Digits[5] = "4"
        /\ Digits[6] = "5" /\ Digits[7] = "6" /\ Digits[8] = "7" /\ Digits[9] = "8" /\ Digits[10] = "9"
    BY DEF Digits
  <2> HIDE DEF Digits
  <2>3. ASSUME NEW k \in 1..10
        PROVE  k = 1 \/ k = 2 \/ k = 3 \/ k = 4 \/ k = 5 \/ k = 6 \/ k = 7 \/ k = 8 \/ k = 9 \/ k = 10
    OBVIOUS
  <2>4. ASSUME NEW c PROVE (\E k \in DOMAIN Digits : c = Digits[k]) <=>
                             c \in {"0", "1", "2", "3", "4", "5", "6", "7", "8", "9"}
    <3>1. 1 \in 1..10 /\ 2 \in 1..10 /\ 3 \in 1..10 /\ 4 \in 1..10 /\ 5 \in 1..10
          /\ 6 \in 1..10 /\ 7 \in 1..10 /\ 8 \in 1..10 /\ 9 \in 1..10 /\ 10 \in 1..10
      OBVIOUS
    <3>2. ASSUME NEW k \in DOMAIN Digits, c = Digits[k]
          PROVE  c \in {"0", "1", "2", "3", "4", "5", "6", "7", "8", "9"}
      <4>1. k = 1 \/ k = 2 \/ k = 3 \/ k = 4 \/ k = 5 \/ k = 6 \/ k = 7 \/ k = 8 \/ k = 9 \/ k = 10
        BY <2>1, <2>3, <3>2
      <4> QED
        BY <2>2, <3>2, <4>1
    <3>3. ASSUME c \in {"0", "1", "2", "3", "4", "5", "6", "7", "8", "9"}
          PROVE  \E k \in DOMAIN Digits : c = Digits[k]
      BY <2>1, <2>2, <3>1, <3>3
    <3> QED
      BY <3>2, <3>3
  <2>5. ASSUME NEW c PROVE c \in BaseTags <=> c = "_" \/ \E k \in DOMAIN Digits : c = Digits[k]
    BY DEF BaseTags
  <2> QED
    BY <2>4, <2>5
<1>2. ASSUME NEW c \in BaseTags PROVE TeamOf(c) \in TeamNumbers
  <2>1. CASE c = "_"
    <3>1. TeamOf(c) = 0
      BY <2>1, Zenon DEF TeamOf
    <3> QED
      BY <3>1 DEF TeamNumbers
  <2>2. CASE c # "_"
    <3>1. PICK k \in DOMAIN Digits : Digits[k] = c
      BY <2>2 DEF BaseTags
    <3>2. k \in 1..10
      BY DEF Digits
    <3>3. k - 1 \in TeamNumbers /\ (k - 1) + 1 = k
      BY <3>2 DEF TeamNumbers
    <3>4. \E t \in TeamNumbers : Digits[t + 1] = c
      BY <3>1, <3>3
    <3> QED
      BY <2>2, <3>4 DEF TeamOf
  <2> QED
    BY <2>1, <2>2
<1> QED
  BY <1>1, <1>2

\* What is drawn in a block from the characters of its place.
LEMMA DrawnFrom ==
  ASSUME mapText \in Drawings, NEW b, NEW line, NEW c \in Nat, ~OnBorder(b),
         line = MapHeight - 1 - (b[2] - Border), c + 1 = b[1] - Border + 1
  PROVE  /\ \A k \in 1..Len(mapText) : Stands(k, line, c + 1) => Drawn(b) = mapText[k]
         /\ (\A k \in 1..Len(mapText) : ~Stands(k, line, c + 1)) => Drawn(b) = " "
<1>1. DOMAIN mapText = 1..Len(mapText)
  BY TextIs
<1>2. c + 1 \in Nat \ {0}
  OBVIOUS
<1> DEFINE at(k) == Stands(k, line, c + 1)
<1>3. Drawn(b) = IF \E k \in DOMAIN mapText : at(k) THEN mapText[CHOOSE k \in DOMAIN mapText : at(k)] ELSE " "
  BY DEF Drawn
<1>4. ASSUME NEW k \in 1..Len(mapText), at(k) PROVE (CHOOSE j \in DOMAIN mapText : at(j)) = k
  <2>1. \E j \in DOMAIN mapText : at(j)
    BY <1>1, <1>4
  <2> DEFINE j == CHOOSE i \in DOMAIN mapText : at(i)
  <2>2. j \in 1..Len(mapText) /\ at(j)
    BY <1>1, <2>1
  <2> HIDE DEF j
  <2>3. j = k
    BY <1>2, <1>4, <2>2, OneStands
  <2> QED
    BY <2>3 DEF j
<1> HIDE DEF at
<1>5. ASSUME NEW k \in 1..Len(mapText), at(k) PROVE Drawn(b) = mapText[k]
  BY <1>1, <1>3, <1>4, <1>5
<1>6. (\A k \in 1..Len(mapText) : ~at(k)) => Drawn(b) = " "
  BY <1>1, <1>3
<1> QED
  BY <1>5, <1>6 DEF at
-----------------------------------------------------------------------------
(* Reading.                                                                *)

LEMMA MapBegins ==
  ASSUME MapInit PROVE MapInvariant
<1>1. mapText \in Drawings /\ extraBorder \in BOOLEAN /\ teamPlay \in BOOLEAN /\ wrapPlay \in BOOLEAN
  BY DEF MapInit
<1>2. SizeX \in Nat \ {0} /\ SizeY \in Nat \ {0} /\ MapHeight \in Nat /\ MapWidth \in Nat /\ Border \in {0, 1}
      /\ SizeY = MapHeight + 2 * Border /\ (Border = 1 <=> extraBorder)
  BY <1>1, SizesAre
<1>3. MapTypes
  <2>1. bases \in Seq(BaseSort) /\ treasures \in Seq(OwnedSort) /\ fuels \in Seq(OwnedSort)
    BY DEF MapInit
  <2>2. teams \in [TeamNumbers -> [numBases : Nat, numTreasures : Nat]] /\ numTeamBases \in Nat
    BY DEF MapInit
  <2>3. column \in Nat /\ row \in 0..(SizeY - 1) /\ number \in Nat \ {0} /\ mapPhase = "read" /\ number = 1
    BY <1>2 DEF MapInit
  <2>4. worldBlock = [b \in MapGrid |-> worldBlock[b]]
    <3>1. worldBlock = [b \in MapGrid |-> NoBlock]
      BY DEF MapInit
    <3> QED
      BY <3>1
  <2> QED
    BY <1>1, <2>1, <2>2, <2>3, <2>4 DEF MapTypes, MapPhases
<1>4. TextPlace
  <2>1. mapPhase = "read" /\ column = 0 /\ row = SizeY - 1 /\ reading = 1
    BY DEF MapInit
  <2>2. AtColumn(1, 0, 0)
    BY <1>1, TextBegins
  <2>3. ~extraBorder => MapHeight - 1 - (row - Border) = 0 /\ InLine(column - Border) = 0
    BY <1>2, <2>1 DEF InLine
  <2>4. extraBorder => row \in {0, SizeY - 1}
    BY <2>1
  <2>5. column <= SizeX
    BY <1>2, <2>1
  <2> QED
    BY <2>1, <2>2, <2>3, <2>4, <2>5 DEF TextPlace
<1>5. BlocksAreDrawn
  <2>1. mapPhase = "read" /\ column = 0 /\ row = SizeY - 1
    BY DEF MapInit
  <2>2. ASSUME NEW b \in MapGrid PROVE ~ReadBlock(b)
    <3>1. b[1] \in 0..(SizeX - 1) /\ b[2] \in 0..(SizeY - 1)
      BY DEF MapGrid
    <3> QED
      BY <1>2, <2>1, <3>1 DEF ReadBlock
  <2> QED
    BY <2>2 DEF BlocksAreDrawn
<1>6. Passed = {} /\ bases = <<>> /\ treasures = <<>> /\ fuels = <<>> /\ mapPhase = "read" /\ numTeamBases = 0
      /\ \A t \in TeamNumbers : teams[t].numBases = 0 /\ teams[t].numTreasures = 0
  BY DEF MapInit, Passed
<1>7. AllListed
  BY <1>6 DEF AllListed, Listed, BasesOf, TreasuresOf, FuelsOf
<1>8. Counted
  <2>1. BasesOf(Passed) = {} /\ DOMAIN treasures = {}
    BY <1>6 DEF BasesOf
  <2>2. \A t \in TeamNumbers : OfTeam(BasesOf(Passed), t) = {}
                               /\ TeamTreasures(t) = {}
    BY <2>1 DEF OfTeam, TeamTreasures
  <2>3. WithBases = {}
    BY <1>6 DEF WithBases
  <2> QED
    BY <1>6, <2>2, <2>3, FS_EmptySet DEF Counted
<1>9. GivenToNearest /\ BasesFace
  BY <1>6 DEF GivenToNearest, BasesFace
<1> QED
  BY <1>3, <1>4, <1>5, <1>7, <1>8, <1>9 DEF MapInvariant

LEMMA IsOnMap ==
  ASSUME MapTypes, NEW b \in MapGrid
  PROVE  b[1] \in 0..(SizeX - 1) /\ b[2] \in 0..(SizeY - 1) /\ b = <<b[1], b[2]>>
BY DEF MapGrid

LEMMA RowIsDrawn ==
  ASSUME MapTypes, BlocksAreDrawn, mapPhase = "read", column >= SizeX, NextRow, UNCHANGED mapOptions
  PROVE  BlocksAreDrawn' /\ mapPhase' \in {"read", "objects"} /\ column' = 0 /\ row' \in 0..(SizeY - 1)'
         /\ (worldBlock = [b \in MapGrid |-> worldBlock[b]])'
<1>1. SizeX \in Nat \ {0} /\ SizeY \in Nat \ {0} /\ column \in Nat /\ row \in 0..(SizeY - 1)
  BY SizesAre DEF MapTypes
<1>2. MapGrid' = MapGrid /\ SizeX' = SizeX /\ SizeY' = SizeY
  BY PlacesStay
<1>3. \A b : Drawn(b)' = Drawn(b)
  BY DrawnStays
<1>4. mapPhase' \in {"read", "objects"} /\ column' = 0 /\ row' \in 0..(SizeY - 1) /\ worldBlock' = worldBlock
  BY <1>1 DEF NextRow
<1>5. ASSUME NEW b \in MapGrid, ReadBlock(b)' PROVE ReadBlock(b)
  <2>1. b[1] \in 0..(SizeX - 1) /\ b[2] \in 0..(SizeY - 1)
    BY IsOnMap
  <2>2. CASE row = 0
    BY <1>1, <2>1, <2>2 DEF ReadBlock
  <2>3. CASE row # 0
    <3>1. row' = row - 1 /\ mapPhase' = "read" /\ column' = 0
      BY <2>3 DEF NextRow
    <3>2. b[2] > row' \/ (b[2] = row' /\ b[1] < column')
      BY <1>5, <3>1 DEF ReadBlock
    <3> QED
      BY <1>1, <2>1, <3>1, <3>2 DEF ReadBlock
  <2> QED
    BY <2>2, <2>3
<1>6. BlocksAreDrawn'
  <2>1. \A d : Tag(d)' = Tag(d)
    BY DEF Tag, mapOptions
  <2>2. ASSUME NEW b \in MapGrid, ReadBlock(b)' PROVE worldBlock[b] = Tag(Drawn(b))
    BY <1>5, <2>2 DEF BlocksAreDrawn
  <2> QED
    BY <1>2, <1>3, <1>4, <2>1, <2>2 DEF BlocksAreDrawn
<1> QED
  BY <1>2, <1>4, <1>6 DEF MapTypes

LEMMA BlockIsDrawn ==
  ASSUME MapTypes, BlocksAreDrawn, mapPhase = "read", column < SizeX, NEW c, Draw(c), UNCHANGED mapOptions,
         Drawn(<<column, row>>) = c
  PROVE  BlocksAreDrawn' /\ (worldBlock = [b \in MapGrid |-> worldBlock[b]])'
<1>1. SizeX \in Nat \ {0} /\ SizeY \in Nat \ {0} /\ column \in Nat /\ row \in 0..(SizeY - 1)
  BY SizesAre DEF MapTypes
<1>2. MapGrid' = MapGrid /\ <<column, row>> \in MapGrid
  BY <1>1, PlacesStay DEF MapGrid
<1>3. \A b : Drawn(b)' = Drawn(b)
  BY DrawnStays
<1>4. row' = row /\ mapPhase' = "read" /\ column' = column + 1
      /\ worldBlock' = [worldBlock EXCEPT ![<<column, row>>] = Tag(c)]
  BY DEF Draw
<1>5. worldBlock = [b \in MapGrid |-> worldBlock[b]] /\ teamPlay' = teamPlay
  BY DEF MapTypes, mapOptions
<1>6. ASSUME NEW b \in MapGrid, ReadBlock(b)' PROVE worldBlock'[b] = Tag(Drawn(b))
  <2>1. b[1] \in 0..(SizeX - 1) /\ b[2] \in 0..(SizeY - 1) /\ b = <<b[1], b[2]>>
    BY IsOnMap
  <2>2. b[2] > row \/ (b[2] = row /\ b[1] < column + 1)
    BY <1>4, <1>6 DEF ReadBlock
  <2>3. CASE b = <<column, row>>
    BY <1>2, <1>4, <1>5, <2>3
  <2>4. CASE b # <<column, row>>
    <3>1. ReadBlock(b)
      <4>1. ~(b[1] = column /\ b[2] = row)
        BY <2>1, <2>4
      <4> QED
        BY <1>1, <2>1, <2>2, <4>1 DEF ReadBlock
    <3>2. worldBlock'[b] = worldBlock[b]
      BY <1>2, <1>4, <1>5, <2>4
    <3> QED
      BY <3>1, <3>2 DEF BlocksAreDrawn
  <2> QED
    BY <2>3, <2>4
<1>7. BlocksAreDrawn'
  <2>1. \A d : Tag(d)' = Tag(d)
    BY <1>5 DEF Tag
  <2> QED
    BY <1>2, <1>3, <1>4, <1>6, <2>1 DEF BlocksAreDrawn
<1>8. worldBlock' = [b \in MapGrid |-> worldBlock'[b]]
  BY <1>4, <1>5
<1> QED
  BY <1>2, <1>7, <1>8

LEMMA BorderIsRead ==
  ASSUME MapInvariant, mapPhase = "read", InTheBorder, UNCHANGED mapOptions
  PROVE  TextPlace' /\ BlocksAreDrawn' /\ column' \in Nat /\ row' \in 0..(SizeY - 1) /\ mapPhase' \in {"read", "objects"}
         /\ (mapPhase' = "objects" => column' = 0 /\ row' = 0) /\ worldBlock' = [b \in MapGrid |-> worldBlock'[b]]
<1>1. MapTypes /\ TextPlace /\ BlocksAreDrawn
  BY DEF MapInvariant
<1>2. /\ SizeX = MapWidth + 2 * Border /\ SizeY = MapHeight + 2 * Border /\ Border = 1
      /\ MapWidth \in Nat \ {0} /\ MapHeight \in Nat \ {0} /\ column \in Nat /\ row \in 0..(SizeY - 1)
      /\ SizeX' = SizeX /\ SizeY' = SizeY /\ Border' = Border /\ MapGrid' = MapGrid /\ extraBorder /\ extraBorder'
      /\ column <= SizeX
  <2>1. extraBorder /\ extraBorder'
    BY DEF InTheBorder, InBorder, mapOptions
  <2>2. extraBorder \in BOOLEAN /\ column \in Nat /\ row \in 0..(SizeY - 1) /\ column <= SizeX
    BY <1>1 DEF MapTypes, TextPlace
  <2> QED
    BY <2>1, <2>2, SizesAre, PlacesStay
<1>3. reading' = reading /\ InBorder
  BY DEF InTheBorder
<1>4. \A k, line, c : AtColumn(k, line, c)' = AtColumn(k, line, c)
  BY PlacesStay
<1>5. /\ row = SizeY - 1 => AtColumn(reading, 0, 0)
      /\ ~(row \in {0, SizeY - 1}) => AtColumn(reading, MapHeight - 1 - (row - Border), InLine(column - Border))
  BY <1>1, <1>2 DEF TextPlace
<1>6. CASE column >= SizeX
  <2>1. NextRow /\ row \in {0, SizeY - 1}
    BY <1>2, <1>3, <1>6 DEF InTheBorder, InBorder
  <2>2. /\ BlocksAreDrawn' /\ mapPhase' \in {"read", "objects"} /\ column' = 0 /\ row' \in 0..(SizeY - 1)'
        /\ (worldBlock = [b \in MapGrid |-> worldBlock[b]])'
    BY <1>1, <1>6, <2>1, RowIsDrawn
  <2>3. CASE row = 0
    <3>1. mapPhase' = "objects" /\ row' = 0
      BY <2>1, <2>3 DEF NextRow
    <3>2. TextPlace'
      BY <3>1 DEF TextPlace
    <3> QED
      BY <1>2, <2>2, <3>1, <3>2
  <2>4. CASE row # 0
    <3>1. mapPhase' = "read" /\ row' = row - 1 /\ row = SizeY - 1
      BY <1>2, <2>1, <2>4 DEF NextRow
    <3>2. AtColumn(reading, 0, 0)
      BY <1>5, <3>1
    <3>3. MapHeight - 1 - (row' - Border) = 0 /\ InLine(column' - Border) = 0 /\ row' # SizeY - 1
          /\ column' <= SizeX
      BY <1>2, <2>2, <3>1 DEF InLine
    <3>4. TextPlace'
      BY <1>2, <1>3, <1>4, <3>2, <3>3 DEF TextPlace, InLine
    <3> QED
      BY <1>2, <2>2, <3>1, <3>4
  <2> QED
    BY <2>3, <2>4
<1>7. CASE column < SizeX
  <2>1. Draw("x")
    BY <1>2, <1>7 DEF InTheBorder
  <2>2. Drawn(<<column, row>>) = "x"
    <3>1. OnBorder(<<column, row>>)
      BY <1>3 DEF InBorder, OnBorder
    <3> QED
      BY <3>1 DEF Drawn
  <2>3. BlocksAreDrawn' /\ (worldBlock = [b \in MapGrid |-> worldBlock[b]])'
    BY <1>1, <1>7, <2>1, <2>2, BlockIsDrawn
  <2>4. column' = column + 1 /\ row' = row /\ mapPhase' = "read"
    BY <2>1 DEF Draw
  <2>5. TextPlace'
    <3>1. CASE row \in {0, SizeY - 1}
      BY <1>2, <1>3, <1>4, <1>5, <1>7, <2>4, <3>1 DEF TextPlace
    <3>2. CASE ~(row \in {0, SizeY - 1})
      <4>1. column \in {0, SizeX - 1}
        BY <1>3, <3>2 DEF InBorder
      <4>2. InLine(column' - Border) = InLine(column - Border)
        BY <1>2, <2>4, <4>1 DEF InLine
      <4>3. AtColumn(reading, MapHeight - 1 - (row - Border), InLine(column - Border))
        BY <1>5, <3>2
      <4>5. AtColumn(reading', MapHeight - 1 - (row' - Border'), InLine(column' - Border'))
        BY <1>2, <1>3, <2>4, <4>2, <4>3
      <4>6. column' <= SizeX
        BY <1>2, <1>7, <2>4
      <4> QED
        BY <1>2, <1>4, <2>4, <3>2, <4>5, <4>6 DEF TextPlace, InLine
    <3> QED
      BY <3>1, <3>2
  <2> QED
    BY <1>2, <2>3, <2>4, <2>5
<1> QED
  BY <1>2, <1>6, <1>7

LEMMA DrawingIsRead ==
  ASSUME MapInvariant, mapPhase = "read", InTheDrawing, UNCHANGED mapOptions
  PROVE  TextPlace' /\ BlocksAreDrawn' /\ column' \in Nat /\ row' \in 0..(SizeY - 1) /\ mapPhase' \in {"read", "objects"}
         /\ (mapPhase' = "objects" => column' = 0 /\ row' = 0) /\ worldBlock' = [b \in MapGrid |-> worldBlock'[b]]
<1>1. MapTypes /\ TextPlace /\ BlocksAreDrawn
  BY DEF MapInvariant
<1>2. /\ SizeX = MapWidth + 2 * Border /\ SizeY = MapHeight + 2 * Border /\ Border \in {0, 1} /\ (Border = 1 <=> extraBorder)
      /\ MapWidth \in Nat \ {0} /\ MapHeight \in Nat \ {0} /\ column \in Nat /\ row \in 0..(SizeY - 1)
      /\ SizeX' = SizeX /\ SizeY' = SizeY /\ Border' = Border /\ MapGrid' = MapGrid /\ extraBorder' = extraBorder
      /\ column <= SizeX
  <2>1. extraBorder' = extraBorder
    BY DEF mapOptions
  <2>2. extraBorder \in BOOLEAN /\ column \in Nat /\ row \in 0..(SizeY - 1) /\ column <= SizeX
    BY <1>1 DEF MapTypes, TextPlace
  <2> QED
    BY <2>1, <2>2, SizesAre, PlacesStay
<1>3. ~InBorder
  BY DEF InTheDrawing
<1>4. \A k, line, c : AtColumn(k, line, c)' = AtColumn(k, line, c)
  BY PlacesStay
<1>5. ~(extraBorder /\ row \in {0, SizeY - 1}) /\ ~(extraBorder /\ column \in {0, SizeX - 1})
  BY <1>3 DEF InBorder
<1> DEFINE line == MapHeight - 1 - (row - Border)
<1>6. AtColumn(reading, line, InLine(column - Border)) /\ line \in Nat
  BY <1>1, <1>2, <1>5 DEF TextPlace
<1>7. mapText \in Drawings
  BY <1>1 DEF MapTypes
<1>8. CASE EndOfRow
  <2>1. column >= SizeX /\ NextRow /\ reading' = IF reading > Len(mapText) THEN reading ELSE LineEnd + 1
    BY <1>8 DEF EndOfRow
  <2>2. /\ BlocksAreDrawn' /\ mapPhase' \in {"read", "objects"} /\ column' = 0 /\ row' \in 0..(SizeY - 1)'
        /\ (worldBlock = [b \in MapGrid |-> worldBlock[b]])'
    BY <1>1, <2>1, RowIsDrawn
  <2>3. CASE row = 0
    <3>1. mapPhase' = "objects" /\ row' = 0
      BY <2>1, <2>3 DEF NextRow
    <3>2. TextPlace'
      BY <3>1 DEF TextPlace
    <3> QED
      BY <1>2, <2>2, <3>1, <3>2
  <2>4. CASE row # 0
    <3>1. mapPhase' = "read" /\ row' = row - 1
      BY <2>1, <2>4 DEF NextRow
    <3>2. InLine(column - Border) = MapWidth
      BY <1>2, <2>1 DEF InLine
    <3>3. AtColumn(reading', line + 1, 0)
      BY <1>6, <1>7, <2>1, <3>2, LineIsEnded
    <3>4. MapHeight - 1 - (row' - Border) = line + 1 /\ InLine(column' - Border) = 0 /\ row' # SizeY - 1 /\ column' <= SizeX
      BY <1>2, <2>2, <3>1 DEF InLine
    <3> HIDE DEF line
    <3>5. TextPlace'
      BY <1>2, <1>4, <3>3, <3>4 DEF TextPlace, InLine
    <3> QED
      BY <1>2, <2>2, <3>1, <3>5
  <2> QED
    BY <2>3, <2>4
<1>9. CASE column < SizeX
  <2> DEFINE c == column - Border
  <2>1. c \in 0..(MapWidth - 1) /\ InLine(c) = c /\ InLine(c + 1) = c + 1
    BY <1>2, <1>5, <1>9 DEF InLine
  <2>2. ~OnBorder(<<column, row>>)
    BY <1>5 DEF OnBorder
  <2>3. AtColumn(reading, line, c)
    BY <1>6, <2>1
  <2>4. PICK b : b = <<column, row>>
    OBVIOUS
  <2>5. b[1] = column /\ b[2] = row /\ ~OnBorder(b)
    BY <2>2, <2>4
  <2>6. c \in Nat /\ line = MapHeight - 1 - (b[2] - Border) /\ c + 1 = b[1] - Border + 1
    BY <1>2, <2>1, <2>5
  <2> HIDE DEF line, c
  <2>7. /\ \A k \in 1..Len(mapText) : Stands(k, line, c + 1) => Drawn(b) = mapText[k]
        /\ (\A k \in 1..Len(mapText) : ~Stands(k, line, c + 1)) => Drawn(b) = " "
    BY <1>7, <2>5, <2>6, DrawnFrom
  <2>8. \E d : Draw(d) /\ Drawn(b) = d /\ AtColumn(reading', line, c + 1)
    <3>1. CASE reading \in Tags
      <4>1. Draw(mapText[reading]) /\ reading' = reading + 1
        <5>1. ~Missing /\ ~EndOfRow
          BY <1>2, <1>9, <3>1 DEF Missing, EndOfRow
        <5> QED
          BY <5>1 DEF InTheDrawing, FillUp
      <4>2. Stands(reading, line, c + 1) /\ AtColumn(reading + 1, line, c + 1)
        BY <1>7, <2>3, <2>6, <3>1, CharIsRead
      <4>3. reading \in 1..Len(mapText)
        BY <1>7, <3>1, TextIs DEF Tags
      <4> QED
        BY <2>7, <4>1, <4>2, <4>3
    <3>2. CASE reading \notin Tags
      <4>1. Draw(" ") /\ reading' = reading
        <5>1. Missing /\ ~EndOfRow
          BY <1>2, <1>9, <3>2 DEF Missing, EndOfRow
        <5> QED
          BY <5>1 DEF InTheDrawing, FillUp, Reread
      <4>2. (\A i \in 1..Len(mapText) : ~Stands(i, line, c + 1)) /\ AtColumn(reading, line, c + 1)
        BY <1>7, <2>3, <2>6, <3>2, NothingIsRead
      <4> QED
        BY <2>7, <4>1, <4>2
    <3> QED
      BY <3>1, <3>2
  <2>9. PICK d : Draw(d) /\ Drawn(b) = d /\ AtColumn(reading', line, c + 1)
    BY <2>8
  <2>10. BlocksAreDrawn' /\ (worldBlock = [e \in MapGrid |-> worldBlock[e]])'
    BY <1>1, <1>9, <2>4, <2>9, BlockIsDrawn
  <2>11. column' = column + 1 /\ row' = row /\ mapPhase' = "read"
    BY <2>9 DEF Draw
  <2>12. AtColumn(reading', MapHeight - 1 - (row' - Border), InLine(column' - Border))
    <3>1. column' - Border = c + 1
      BY <1>2, <2>11 DEF c
    <3> QED
      BY <2>1, <2>9, <2>11, <3>1 DEF line
  <2>13. TextPlace'
    <3>1. column' <= SizeX
      BY <1>2, <1>9, <2>11
    <3> QED
      BY <1>2, <1>4, <1>5, <2>11, <2>12, <3>1 DEF TextPlace, InLine
  <2> QED
    BY <1>2, <2>10, <2>11, <2>13
<1>10. EndOfRow \/ column < SizeX
  BY DEF InTheDrawing, FillUp, Missing
<1> QED
  BY <1>8, <1>9, <1>10

LEMMA MapIsRead ==
  ASSUME MapInvariant, Read PROVE MapInvariant'
<1>1. MapTypes /\ mapPhase = "read" /\ UNCHANGED <<mapOptions, number, mapObjects>>
  BY DEF MapInvariant, Read
<1>2. TextPlace' /\ BlocksAreDrawn' /\ column' \in Nat /\ row' \in 0..(SizeY - 1) /\ mapPhase' \in {"read", "objects"}
      /\ (mapPhase' = "objects" => column' = 0 /\ row' = 0) /\ worldBlock' = [b \in MapGrid |-> worldBlock'[b]]
  BY <1>1, BorderIsRead, DrawingIsRead DEF Read
<1>3. Border' = Border /\ SizeX' = SizeX /\ SizeY' = SizeY /\ MapGrid' = MapGrid /\ SizeX \in Nat \ {0}
  BY <1>1, PlacesStay, SizesAre DEF MapTypes
<1>4. mapText' = mapText /\ extraBorder' = extraBorder /\ teamPlay' = teamPlay /\ wrapPlay' = wrapPlay
      /\ number' = number /\ bases' = bases /\ treasures' = treasures /\ fuels' = fuels /\ teams' = teams
      /\ numTeamBases' = numTeamBases
  BY <1>1 DEF mapOptions, mapObjects
<1>5. MapTypes'
  <2>1. BaseSort' = BaseSort /\ OwnedSort' = OwnedSort
    BY <1>3 DEF BaseSort, OwnedSort
  <2> QED
    BY <1>1, <1>2, <1>3, <1>4, <2>1 DEF MapTypes, MapPhases
<1>6. Passed = {} /\ Passed' = {}
  <2>1. CASE mapPhase' = "read"
    BY <1>1, <2>1 DEF Passed
  <2>2. CASE mapPhase' # "read"
    <3>1. mapPhase' = "objects" /\ column' = 0 /\ row' = 0
      BY <1>2, <2>2
    <3>2. \A b \in MapGrid : ~(b[1] < 0 \/ (b[1] = 0 /\ b[2] < 0))
      <4> SUFFICES ASSUME NEW b \in MapGrid PROVE ~(b[1] < 0 \/ (b[1] = 0 /\ b[2] < 0))
        OBVIOUS
      <4>1. b[1] \in 0..(SizeX - 1) /\ b[2] \in 0..(SizeY - 1)
        BY <1>1, IsOnMap
      <4> QED
        BY <4>1
    <3>3. Passed' = {b \in MapGrid : b[1] < column' \/ (b[1] = column' /\ b[2] < row')}
      BY <1>3, <3>1 DEF Passed
    <3> QED
      BY <1>1, <3>1, <3>2, <3>3 DEF Passed
  <2> QED
    BY <2>1, <2>2
<1>7. AllListed'
  <2>1. /\ BasesOf(Passed) = {} /\ TreasuresOf(Passed) = {} /\ FuelsOf(Passed) = {}
        /\ BasesOf(Passed)' = {} /\ TreasuresOf(Passed)' = {}
        /\ FuelsOf(Passed)' = {}
    BY <1>6 DEF BasesOf, TreasuresOf, FuelsOf
  <2>2. Listed(bases, {}) /\ Listed(treasures, {}) /\ Listed(fuels, {})
    BY <2>1 DEF MapInvariant, AllListed
  <2>3. Listed(bases', {}) /\ Listed(treasures', {}) /\ Listed(fuels', {})
    BY <1>4, <2>2
  <2> QED
    BY <2>1, <2>3 DEF AllListed, Listed
<1>8. GivenToNearest'
  BY <1>1, <1>2, <1>4 DEF MapInvariant, GivenToNearest
<1>9. Counted'
  <2>1. BasesOf(Passed) = {} /\ BasesOf(Passed)' = {}
    BY <1>6 DEF BasesOf
  <2>2. \A t : OfTeam(BasesOf(Passed), t) = {} /\ OfTeam(BasesOf(Passed), t)' = {}
    BY <2>1 DEF OfTeam
  <2>3. \A t : TeamTreasures(t)' = TeamTreasures(t)
    BY <1>4 DEF TeamTreasures
  <2>4. WithBases' = WithBases
    BY <1>4 DEF WithBases
  <2> QED
    BY <1>4, <2>2, <2>3, <2>4 DEF MapInvariant, Counted
<1>10. BasesFace'
  BY <1>2 DEF BasesFace
<1> QED
  BY <1>2, <1>5, <1>7, <1>8, <1>9, <1>10 DEF MapInvariant
-----------------------------------------------------------------------------
(* Making the objects.                                                     *)

LEMMA OneMore ==
  ASSUME NEW S, NEW objects \in Seq(S), NEW places, Listed(objects, places), NEW e \in S, e.at \notin places
  PROVE  Listed(Append(objects, e), places \cup {e.at})
<1> DEFINE s == Append(objects, e)
           n == Len(objects)
<1>1. n \in Nat /\ DOMAIN objects = 1..n /\ DOMAIN s = 1..(n + 1)
      /\ s[n + 1] = e /\ \A k \in 1..n : s[k] = objects[k]
  OBVIOUS
<1> HIDE DEF s, n
<1>2. \A k \in 1..(n + 1) : k \in 1..n \/ k = n + 1
  BY <1>1
<1>3. n + 1 \in 1..(n + 1) /\ \A k \in 1..n : k \in 1..(n + 1)
  BY <1>1
<1>4. \A k \in 1..n : objects[k].at \in places
  BY <1>1 DEF Listed
<1>5. ASSUME NEW j \in 1..(n + 1), NEW k \in 1..(n + 1), s[j].at = s[k].at PROVE j = k
  <2>1. CASE j \in 1..n /\ k \in 1..n
    BY <1>1, <1>5, <2>1 DEF Listed
  <2>2. CASE ~(j \in 1..n /\ k \in 1..n)
    BY <1>1, <1>2, <1>4, <1>5, <2>2
  <2> QED
    BY <2>1, <2>2
<1>6. {s[k].at : k \in 1..(n + 1)} = places \cup {e.at}
  <2>1. places = {objects[k].at : k \in 1..n}
    BY <1>1 DEF Listed
  <2>2. ASSUME NEW x PROVE x \in {s[k].at : k \in 1..(n + 1)} <=> x \in places \cup {e.at}
    BY <1>1, <1>2, <1>3, <2>1
  <2> QED
    BY <2>2
<1>7. Listed(s, places \cup {e.at})
  BY <1>1, <1>5, <1>6 DEF Listed
<1> QED
  BY <1>7 DEF s

LEMMA PassedOne ==
  ASSUME MapTypes, MakeObject
  PROVE  /\ <<column, row>> \in MapGrid /\ <<column, row>> \notin Passed
         /\ Passed' = Passed \cup {<<column, row>>} /\ Passed \subseteq MapGrid
         /\ row' \in 0..(SizeY - 1) /\ column' \in Nat
         /\ mapPhase' \in {"objects", "treasures", "turn"} /\ (mapPhase' = "objects" => column' < SizeX)
         /\ (mapPhase' = "treasures" => teamPlay) /\ (mapPhase' = "turn" => ~teamPlay)
<1>1. /\ SizeX \in Nat \ {0} /\ SizeY \in Nat \ {0} /\ column \in Nat /\ row \in 0..(SizeY - 1) /\ column < SizeX
      /\ mapPhase = "objects"
  BY SizesAre DEF MapTypes, MakeObject
<1>2. SizeX' = SizeX /\ SizeY' = SizeY /\ MapGrid' = MapGrid
  BY PlacesStay DEF MakeObject
<1> DEFINE b == <<column, row>>
<1>3. b \in MapGrid /\ b[1] = column /\ b[2] = row
  BY <1>1 DEF MapGrid
<1>4. Passed = {a \in MapGrid : a[1] < column \/ (a[1] = column /\ a[2] < row)}
  BY <1>1 DEF Passed
<1>5. b \notin Passed /\ Passed \subseteq MapGrid
  BY <1>1, <1>3, <1>4
<1>6. CASE row < SizeY - 1
  <2>1. row' = row + 1 /\ column' = column /\ mapPhase' = "objects"
    BY <1>1, <1>6 DEF MakeObject
  <2>2. Passed' = {a \in MapGrid : a[1] < column \/ (a[1] = column /\ a[2] < row + 1)}
    BY <1>2, <2>1 DEF Passed
  <2>3. ASSUME NEW a \in MapGrid
        PROVE  (a[1] < column \/ (a[1] = column /\ a[2] < row + 1))
                 <=> (a[1] < column \/ (a[1] = column /\ a[2] < row)) \/ a = b
    <3>1. a[1] \in 0..(SizeX - 1) /\ a[2] \in 0..(SizeY - 1) /\ a = <<a[1], a[2]>>
      BY IsOnMap
    <3> QED
      BY <1>1, <3>1
  <2> HIDE DEF b
  <2>4. Passed' = Passed \cup {b}
    BY <1>3, <1>4, <2>2, <2>3
  <2> QED
    BY <1>1, <1>3, <1>5, <1>6, <2>1, <2>4 DEF b
<1>7. CASE ~(row < SizeY - 1)
  <2>1. row' = 0 /\ column' = column + 1 /\ row = SizeY - 1
        /\ mapPhase' = IF column < SizeX - 1 THEN "objects" ELSE IF teamPlay THEN "treasures" ELSE "turn"
    BY <1>1, <1>7 DEF MakeObject
  <2>2. ASSUME NEW a \in MapGrid
        PROVE  /\ (a[1] < column + 1 \/ (a[1] = column + 1 /\ a[2] < 0))
                    <=> (a[1] < column \/ (a[1] = column /\ a[2] < row)) \/ a = b
               /\ ~(column < SizeX - 1) => (a[1] < column \/ (a[1] = column /\ a[2] < row)) \/ a = b
    <3>1. a[1] \in 0..(SizeX - 1) /\ a[2] \in 0..(SizeY - 1) /\ a = <<a[1], a[2]>>
      BY IsOnMap
    <3> QED
      BY <1>1, <2>1, <3>1
  <2> HIDE DEF b
  <2>3. Passed' = Passed \cup {b}
    <3>1. CASE column < SizeX - 1
      <4>1. Passed' = {a \in MapGrid : a[1] < column + 1 \/ (a[1] = column + 1 /\ a[2] < 0)}
        BY <1>2, <2>1, <3>1 DEF Passed
      <4> QED
        BY <1>3, <1>4, <2>2, <4>1
    <3>2. CASE ~(column < SizeX - 1)
      <4>1. Passed' = MapGrid
        BY <1>2, <2>1, <3>2 DEF Passed
      <4> QED
        BY <1>3, <1>4, <2>2, <3>2, <4>1
    <3> QED
      BY <3>1, <3>2
  <2> QED
    BY <1>1, <1>3, <1>5, <2>1, <2>3 DEF b
<1> QED
  BY <1>6, <1>7

LEMMA TeamsFinite ==
  ASSUME NEW T \in SUBSET TeamNumbers PROVE IsFiniteSet(T) /\ Cardinality(T) \in Nat
<1>1. IsFiniteSet(TeamNumbers)
  <2>1. 0 \in Int /\ 9 \in Int
    OBVIOUS
  <2>2. IsFiniteSet(0..9)
    BY <2>1, FS_Interval
  <2> QED
    BY <2>2 DEF TeamNumbers
<1> QED
  BY <1>1, FS_Subset, FS_CardinalityType

\* One base more in the counts.
OneBaseMore(t) ==
  /\ teams' = [teams EXCEPT ![t].numBases = @ + 1]
  /\ numTeamBases' = numTeamBases + (IF teams[t].numBases = 0 THEN 1 ELSE 0)

LEMMA BaseIsCounted ==
  ASSUME MapTypes, teamPlay, Counted, NEW V, V \subseteq MapGrid, BasesOf(Passed) = V,
         NEW b \in MapGrid \ V, Drawn(b) \in BaseTags, NEW t, t = TeamOf(Drawn(b)), OneBaseMore(t)
  PROVE  /\ \A u \in TeamNumbers :
              /\ teams'[u].numBases = Cardinality(OfTeam(V \cup {b}, u))
              /\ teams'[u].numTreasures = teams[u].numTreasures
         /\ numTeamBases' = Cardinality(WithBases')
         /\ teams' \in [TeamNumbers -> [numBases : Nat, numTreasures : Nat]] /\ numTeamBases' \in Nat
<1>1. t \in TeamNumbers
  BY TagsAre
<1> USE DEF OneBaseMore
<1>2. teams \in [TeamNumbers -> [numBases : Nat, numTreasures : Nat]] /\ numTeamBases \in Nat /\ extraBorder \in BOOLEAN
  BY DEF MapTypes
<1>3. \A u \in TeamNumbers : teams[u].numBases \in Nat /\ teams[u].numTreasures \in Nat
  BY <1>2
<1>4. teams' \in [TeamNumbers -> [numBases : Nat, numTreasures : Nat]] /\ numTeamBases' \in Nat
  BY <1>1, <1>2, <1>3
<1>5. \A u \in TeamNumbers : teams'[u].numBases = teams[u].numBases + (IF u = t THEN 1 ELSE 0)
                             /\ teams'[u].numTreasures = teams[u].numTreasures
  BY <1>1, <1>2, <1>3
<1>6. \A u \in TeamNumbers : teams[u].numBases = Cardinality(OfTeam(V, u))
  BY <1>2 DEF Counted
<1>7. ASSUME NEW u \in TeamNumbers
      PROVE  teams'[u].numBases = Cardinality(OfTeam(V \cup {b}, u))
  <2>1. IsFiniteSet(OfTeam(V, u)) /\ Cardinality(OfTeam(V, u)) \in Nat /\ b \notin OfTeam(V, u)
    BY <1>2, GridIsFinite DEF OfTeam
  <2>2. OfTeam(V \cup {b}, u) = IF u = t THEN OfTeam(V, u) \cup {b} ELSE OfTeam(V, u)
    BY DEF OfTeam
  <2>3. Cardinality(OfTeam(V, u) \cup {b}) = Cardinality(OfTeam(V, u)) + 1
    BY <2>1, FS_AddElement
  <2>4. teams[u].numBases = Cardinality(OfTeam(V, u))
    BY <1>6
  <2>5. teams'[u].numBases = teams[u].numBases + (IF u = t THEN 1 ELSE 0)
    BY <1>5
  <2>6. CASE u = t
    BY <2>2, <2>3, <2>4, <2>5, <2>6
  <2>7. CASE u # t
    <3>1. teams'[u].numBases = teams[u].numBases
      BY <1>3, <2>5, <2>7
    <3> QED
      BY <2>2, <2>4, <2>7, <3>1
  <2> QED
    BY <2>6, <2>7
<1> DEFINE old == {u \in TeamNumbers : teams[u].numBases > 0}
           new == {u \in TeamNumbers : teams'[u].numBases > 0}
<1>8. numTeamBases = Cardinality(old)
  BY DEF Counted, WithBases
<1>9. new = old \cup {t} /\ (t \in old <=> teams[t].numBases # 0)
  <2>1. ASSUME NEW u \in TeamNumbers PROVE teams'[u].numBases > 0 <=> teams[u].numBases > 0 \/ u = t
    BY <1>3, <1>5
  <2>2. new = old \cup {t}
    BY <1>1, <2>1
  <2>3. t \in old <=> teams[t].numBases # 0
    BY <1>1, <1>3
  <2> QED
    BY <2>2, <2>3
<1>10. IsFiniteSet(old) /\ Cardinality(old) \in Nat
  BY TeamsFinite
<1> HIDE DEF old, new
<1>11. Cardinality(new) = Cardinality(old) + (IF t \in old THEN 0 ELSE 1)
  <2>1. CASE t \in old
    <3>1. new = old
      BY <1>9, <2>1
    <3> QED
      BY <1>10, <2>1, <3>1
  <2>2. CASE t \notin old
    <3>1. Cardinality(old \cup {t}) = Cardinality(old) + 1
      BY <1>10, <2>2, FS_AddElement
    <3> QED
      BY <1>9, <2>2, <3>1
  <2> QED
    BY <2>1, <2>2
<1>12. numTeamBases' = Cardinality(new)
  BY <1>8, <1>9, <1>10, <1>11
<1> QED
  BY <1>4, <1>5, <1>7, <1>12 DEF new, WithBases

LEMMA ObjectIsMade ==
  ASSUME MapInvariant, MakeObject PROVE MapInvariant'
<1>0. PICK b : b = <<column, row>>
  OBVIOUS
<1>1. MapTypes /\ BlocksAreDrawn /\ AllListed /\ GivenToNearest /\ Counted /\ mapPhase = "objects"
  BY DEF MapInvariant, MakeObject
<1>2. /\ b \in MapGrid /\ b \notin Passed
      /\ Passed' = Passed \cup {b} /\ Passed \subseteq MapGrid
      /\ row' \in 0..(SizeY - 1) /\ column' \in Nat
      /\ mapPhase' \in {"objects", "treasures", "turn"} /\ (mapPhase' = "objects" => column' < SizeX)
      /\ (mapPhase' = "treasures" => teamPlay) /\ (mapPhase' = "turn" => ~teamPlay)
  BY <1>0, <1>1, PassedOne
<1>3. Border' = Border /\ SizeX' = SizeX /\ SizeY' = SizeY /\ MapGrid' = MapGrid
  BY PlacesStay DEF MakeObject
<1>4. mapText' = mapText /\ extraBorder' = extraBorder /\ teamPlay' = teamPlay /\ wrapPlay' = wrapPlay
      /\ reading' = reading /\ number' = number /\ worldBlock' = worldBlock
  BY DEF MakeObject, mapOptions
<1>5. \A a : Drawn(a)' = Drawn(a)
  BY DrawnStays DEF MakeObject
<1>6. /\ worldBlock[b] = Tag(Drawn(b)) /\ (worldBlock[b] \in BaseTags <=> Drawn(b) \in BaseTags)
      /\ (worldBlock[b] \in BaseTags => worldBlock[b] = Drawn(b))
      /\ (worldBlock[b] = "*" <=> Drawn(b) = "*" /\ teamPlay) /\ (worldBlock[b] = "#" <=> Drawn(b) = "#")
  <2>1. worldBlock[b] = Tag(Drawn(b))
    BY <1>1, <1>2 DEF BlocksAreDrawn, ReadBlock
  <2> QED
    BY <2>1, TagsAre DEF Tag
<1>7. number = 1 /\ number \in Nat \ {0} /\ teamPlay \in BOOLEAN
      /\ bases \in Seq(BaseSort) /\ treasures \in Seq(OwnedSort) /\ fuels \in Seq(OwnedSort)
  BY <1>1 DEF MapTypes
<1>8. /\ IF worldBlock[b] \in BaseTags THEN CountBase(b) ELSE UNCHANGED <<bases, teams, numTeamBases>>
      /\ treasures' = IF worldBlock[b] = "*" THEN Append(treasures, Owned(b, Nobody)) ELSE treasures
      /\ fuels' = IF worldBlock[b] = "#" THEN Append(fuels, Owned(b, Nobody)) ELSE fuels
  BY <1>0 DEF MakeObject
<1>9. Owned(b, Nobody) \in OwnedSort /\ Owned(b, Nobody).at = b /\ Owned(b, Nobody).team = Nobody
  BY <1>2 DEF Owned, OwnedSort
<1>10. /\ treasures' \in Seq(OwnedSort) /\ Listed(treasures', TreasuresOf(Passed'))
       /\ fuels' \in Seq(OwnedSort) /\ Listed(fuels', FuelsOf(Passed'))
  <2>1. Listed(treasures, TreasuresOf(Passed)) /\ Listed(fuels, FuelsOf(Passed))
    BY <1>1 DEF AllListed
  <2>2. CASE worldBlock[b] = "*"
    <3>1. treasures' = Append(treasures, Owned(b, Nobody)) /\ fuels' = fuels
      BY <1>8, <2>2
    <3>2. /\ TreasuresOf(Passed') = TreasuresOf(Passed) \cup {b}
          /\ FuelsOf(Passed') = FuelsOf(Passed)
      BY <1>2, <1>6, <2>2 DEF TreasuresOf, FuelsOf
    <3>3. b \notin TreasuresOf(Passed)
      BY <1>2 DEF TreasuresOf
    <3>4. Listed(Append(treasures, Owned(b, Nobody)), TreasuresOf(Passed) \cup {Owned(b, Nobody).at})
      BY <1>7, <1>9, <2>1, <3>3, OneMore
    <3>5. Append(treasures, Owned(b, Nobody)) \in Seq(OwnedSort) /\ Append(fuels, Owned(b, Nobody)) \in Seq(OwnedSort)
      BY <1>7, <1>9
    <3>6. Owned(b, Nobody).at = b
      BY <1>9
    <3> QED
      BY <1>7, <2>1, <3>1, <3>2, <3>4, <3>5, <3>6, Zenon
  <2>3. CASE worldBlock[b] = "#"
    <3>1. fuels' = Append(fuels, Owned(b, Nobody)) /\ treasures' = treasures
      BY <1>8, <2>3
    <3>2. /\ TreasuresOf(Passed') = TreasuresOf(Passed)
          /\ FuelsOf(Passed') = FuelsOf(Passed) \cup {b}
      BY <1>2, <1>6, <2>3 DEF TreasuresOf, FuelsOf
    <3>3. b \notin FuelsOf(Passed)
      BY <1>2 DEF FuelsOf
    <3>4. Listed(Append(fuels, Owned(b, Nobody)), FuelsOf(Passed) \cup {Owned(b, Nobody).at})
      BY <1>7, <1>9, <2>1, <3>3, OneMore
    <3>5. Append(treasures, Owned(b, Nobody)) \in Seq(OwnedSort) /\ Append(fuels, Owned(b, Nobody)) \in Seq(OwnedSort)
      BY <1>7, <1>9
    <3>6. Owned(b, Nobody).at = b
      BY <1>9
    <3> QED
      BY <1>7, <2>1, <3>1, <3>2, <3>4, <3>5, <3>6, Zenon
  <2>4. CASE worldBlock[b] # "*" /\ worldBlock[b] # "#"
    <3>1. /\ TreasuresOf(Passed') = TreasuresOf(Passed)
          /\ FuelsOf(Passed') = FuelsOf(Passed)
      BY <1>2, <1>6, <2>4 DEF TreasuresOf, FuelsOf
    <3> QED
      BY <1>7, <1>8, <2>1, <2>4, <3>1
  <2> QED
    BY <2>2, <2>3, <2>4
<1>11. BasesOf(Passed) = {a \in Passed : Drawn(a) \in BaseTags}
       /\ BasesOf(Passed)' = {a \in Passed' : Drawn(a) \in BaseTags}
  BY <1>5 DEF BasesOf
<1>12. BasesOf(Passed)' = IF Drawn(b) \in BaseTags THEN BasesOf(Passed) \cup {b} ELSE BasesOf(Passed)
  BY <1>2, <1>11
<1>13. /\ bases' \in Seq(BaseSort) /\ Listed(bases', BasesOf(Passed)')
       /\ teams' \in [TeamNumbers -> [numBases : Nat, numTreasures : Nat]] /\ numTeamBases' \in Nat
       /\ \A t \in TeamNumbers : teams'[t].numTreasures = teams[t].numTreasures
       /\ teamPlay => /\ \A t \in TeamNumbers :
                           teams'[t].numBases = Cardinality(OfTeam(BasesOf(Passed)', t))
                      /\ numTeamBases' = Cardinality(WithBases')
  <2>1. Listed(bases, BasesOf(Passed)) /\ teams \in [TeamNumbers -> [numBases : Nat, numTreasures : Nat]]
        /\ numTeamBases \in Nat
    BY <1>1 DEF AllListed, MapTypes
  <2>2. CASE Drawn(b) \notin BaseTags
    <3>1. bases' = bases /\ teams' = teams /\ numTeamBases' = numTeamBases /\ BasesOf(Passed)' = BasesOf(Passed)
      BY <1>6, <1>8, <1>12, <2>2
    <3>2. teamPlay => /\ \A t \in TeamNumbers : teams[t].numBases = Cardinality(OfTeam(BasesOf(Passed), t))
                      /\ numTeamBases = Cardinality(WithBases)
      BY <1>1 DEF Counted
    <3>3. WithBases' = WithBases
      BY <3>1 DEF WithBases
    <3> QED
      BY <1>7, <2>1, <3>1, <3>2, <3>3
  <2>3. CASE Drawn(b) \in BaseTags
    <3>1. PICK t : t = IF teamPlay THEN TeamOf(Drawn(b)) ELSE Nobody
      OBVIOUS
    <3>2. PICK e : e = [at |-> b, team |-> t, dir |-> "up"]
      OBVIOUS
    <3>3. e \in BaseSort /\ e.at = b
      BY <1>2, <2>3, <3>1, <3>2, TagsAre DEF BaseSort, Directions
    <3>4. /\ bases' = Append(bases, e)
          /\ IF teamPlay
             THEN /\ teams' = [teams EXCEPT ![t].numBases = @ + 1]
                  /\ numTeamBases' = numTeamBases + (IF teams[t].numBases = 0 THEN 1 ELSE 0)
             ELSE UNCHANGED <<teams, numTeamBases>>
      BY <1>6, <1>8, <2>3, <3>1, <3>2 DEF CountBase
    <3>5. b \notin BasesOf(Passed) /\ BasesOf(Passed) \subseteq MapGrid /\ BasesOf(Passed)' = BasesOf(Passed) \cup {b}
      BY <1>2, <1>11, <1>12, <2>3
    <3>6. bases' \in Seq(BaseSort) /\ Listed(bases', BasesOf(Passed)')
      <4>1. Listed(Append(bases, e), BasesOf(Passed) \cup {e.at})
        BY <1>7, <2>1, <3>3, <3>5, OneMore
      <4> QED
        BY <1>7, <3>3, <3>4, <3>5, <4>1
    <3>7. CASE ~teamPlay
      BY <2>1, <3>4, <3>6, <3>7
    <3>8. CASE teamPlay
      <4>1. PICK V : V = BasesOf(Passed)
        OBVIOUS
      <4>2. V \subseteq MapGrid /\ b \in MapGrid \ V /\ t = TeamOf(Drawn(b)) /\ BasesOf(Passed)' = V \cup {b}
        BY <1>2, <3>1, <3>5, <3>8, <4>1
      <4>3. OneBaseMore(t)
        BY <3>4, <3>8 DEF OneBaseMore
      <4>5. BasesOf(Passed) = V /\ MapTypes /\ Counted
        BY <1>1, <4>1
      <4>6. V \subseteq MapGrid /\ b \in MapGrid \ V /\ t = TeamOf(Drawn(b)) 
        BY <4>2
      <4>4. /\ \A u \in TeamNumbers :
                 /\ teams'[u].numBases = Cardinality(OfTeam(V \cup {b}, u))
                 /\ teams'[u].numTreasures = teams[u].numTreasures
            /\ numTeamBases' = Cardinality(WithBases')
            /\ teams' \in [TeamNumbers -> [numBases : Nat, numTreasures : Nat]] /\ numTeamBases' \in Nat
        BY <2>3, <3>8, <4>3, <4>5, <4>6, BaseIsCounted
      <4> QED
        BY <3>6, <4>2, <4>4
    <3> QED
      BY <3>7, <3>8, <1>7
  <2> QED
    BY <2>2, <2>3
<1>14. MapTypes'
  <2>1. BaseSort' = BaseSort /\ OwnedSort' = OwnedSort
    BY <1>3 DEF BaseSort, OwnedSort
  <2> QED
    BY <1>1, <1>2, <1>3, <1>4, <1>10, <1>13, <2>1 DEF MapTypes, MapPhases
<1>15. TextPlace' /\ BasesFace'
  BY <1>2 DEF TextPlace, BasesFace
<1>16. BlocksAreDrawn'
  <2>1. \A d : Tag(d)' = Tag(d)
    BY <1>4 DEF Tag
  <2>2. \A a \in MapGrid : worldBlock[a] = Tag(Drawn(a))
    BY <1>1 DEF BlocksAreDrawn, ReadBlock
  <2> QED
    BY <1>2, <1>3, <1>4, <1>5, <2>1, <2>2 DEF BlocksAreDrawn
<1>17. AllListed'
  <2>1. TreasuresOf(Passed)' = TreasuresOf(Passed')
        /\ FuelsOf(Passed)' = FuelsOf(Passed')
    BY <1>4, <1>5 DEF TreasuresOf, FuelsOf
  <2> QED
    BY <1>10, <1>13, <2>1 DEF AllListed, Listed
<1>18. teamPlay => \A k \in DOMAIN treasures : treasures[k].team = Nobody
  BY <1>1 DEF GivenToNearest
<1>19. teamPlay => \A k \in DOMAIN treasures' : treasures'[k].team = Nobody
  BY <1>7, <1>8, <1>9, <1>18
<1>20. GivenToNearest'
  <2>1. ASSUME NEW k \in DOMAIN treasures' PROVE ~(mapPhase' = "treasures" /\ k < number')
    <3>1. k \in 1..Len(treasures')
      BY <1>10
    <3> QED
      BY <1>4, <1>7, <3>1
  <2>2. teamPlay' => mapPhase' \in {"objects", "treasures"}
    BY <1>2, <1>4
  <2>3. teamPlay' => \A k \in DOMAIN treasures' : treasures'[k].team = Nobody
    BY <1>4, <1>19
  <2> QED
    BY <2>1, <2>2, <2>3 DEF GivenToNearest
<1>21. Counted'
  <2>1. \A t : OfTeam(BasesOf(Passed), t)' = OfTeam(BasesOf(Passed)', t)
    BY <1>5 DEF OfTeam
  <2>2. teamPlay =>
          \A t \in TeamNumbers : /\ TeamTreasures(t) = {} /\ TeamTreasures(t)' = {}
    BY <1>18, <1>19 DEF TeamTreasures, Nobody, TeamNumbers
  <2>3. teamPlay => \A t \in TeamNumbers : teams[t].numTreasures = Cardinality({})
    BY <1>1, <2>2 DEF Counted
  <2>4. ASSUME teamPlay, NEW t \in TeamNumbers
        PROVE  teams'[t].numBases = Cardinality(OfTeam(BasesOf(Passed), t)')
               /\ teams'[t].numTreasures = Cardinality(TeamTreasures(t)')
    BY <1>13, <2>1, <2>2, <2>3, <2>4
  <2> QED
    BY <1>4, <1>13, <2>4 DEF Counted
<1> QED
  BY <1>14, <1>15, <1>16, <1>17, <1>20, <1>21 DEF MapInvariant
-----------------------------------------------------------------------------
(* Giving treasures and fuel stations to teams.                            *)

LEMMA FarIs ==
  ASSUME MapTypes, NEW a \in MapGrid, NEW b \in MapGrid PROVE Far(a, b) \in Int
<1>1. a[1] \in Int /\ a[2] \in Int /\ b[1] \in Int /\ b[2] \in Int /\ SizeX \in Int /\ SizeY \in Int
  BY IsOnMap, SizesAre DEF MapTypes
<1>2. ASSUME NEW d \in Int, NEW size \in Int PROVE Along(d, size) \in Int
  <2>1. wrapPlay \in BOOLEAN
    BY DEF MapTypes
  <2> QED
    BY <2>1 DEF Along
<1>3. Along(a[1] - b[1], SizeX) \in Int /\ Along(a[2] - b[2], SizeY) \in Int
  <2>1. a[1] - b[1] \in Int /\ a[2] - b[2] \in Int
    BY <1>1
  <2> QED
    BY <1>1, <1>2, <2>1
<1>4. ASSUME NEW x \in Int, NEW y \in Int PROVE x * x + y * y \in Int
  OBVIOUS
<1> QED
  BY <1>3, <1>4 DEF Far

\* Map_get_closest_team.
LEMMA NearestIsFound ==
  ASSUME MapTypes, NEW a \in MapGrid
  PROVE  /\ ClosestTeam(a) \in TeamNumbers \cup {Nobody}
         /\ bases = <<>> => ClosestTeam(a) = Nobody
         /\ bases # <<>> => \E k \in DOMAIN bases :
              bases[k].team = ClosestTeam(a) /\ \A j \in DOMAIN bases : Far(bases[k].at, a) <= Far(bases[j].at, a)
<1> DEFINE n == Len(bases)
           far == [j \in 1..n |-> Far(bases[j].at, a)]
           Loop(f) == f = [k \in 0..n |->
                            IF k = 0 THEN 0
                            ELSE IF f[k - 1] = 0 \/ Far(bases[k].at, a) < Far(bases[f[k - 1]].at, a) THEN k
                            ELSE f[k - 1]]
           best == CHOOSE f : Loop(f)
<1>1. bases \in Seq(BaseSort) /\ n \in Nat /\ DOMAIN bases = 1..n
  BY DEF MapTypes
<1>2. \A j \in 1..n : bases[j] \in BaseSort /\ bases[j].at \in MapGrid /\ bases[j].team \in TeamNumbers \cup {Nobody}
  <2>1. \A j \in 1..n : bases[j] \in BaseSort
    BY <1>1
  <2> QED
    BY <2>1 DEF BaseSort
<1>3. \A j \in 1..n : far[j] = Far(bases[j].at, a) /\ far[j] \in Int
  BY <1>2, FarIs
<1>4. ClosestTeam(a) = IF best[n] = 0 THEN Nobody ELSE bases[best[n]].team
  BY DEF ClosestTeam
<1> HIDE DEF far
<1>5. \E f : Loop(f)
  <2> DEFINE S == 0..n
             round == [p \in (1..n) \X S |->
                         IF p[2] = 0 \/ Far(bases[p[1]].at, a) < Far(bases[p[2]].at, a) THEN p[1] ELSE p[2]]
  <2>1. round \in Rounded(n, S)
    <3>1. \A p \in (1..n) \X S : p[1] \in S /\ p[2] \in S
      BY <1>1
    <3> QED
      BY <3>1 DEF Rounded
  <2>2. 0 \in S
    BY <1>1
  <2>3. \A k \in 1..n, v \in S : round[<<k, v>>] = IF v = 0 \/ Far(bases[k].at, a) < Far(bases[v].at, a) THEN k ELSE v
    OBVIOUS
  <2> HIDE DEF round, S
  <2>4. PICK f : Run(f, n, S, 0, round)
    BY <1>1, <2>1, <2>2, Iterated
  <2>5. f \in [0..n -> S] /\ f[0] = 0 /\ \A k \in 1..n : f[k] = round[<<k, f[k - 1]>>]
    BY <2>4 DEF Run
  <2>6. ASSUME NEW k \in 0..n
        PROVE  f[k] = IF k = 0 THEN 0
                      ELSE IF f[k - 1] = 0 \/ Far(bases[k].at, a) < Far(bases[f[k - 1]].at, a) THEN k
                      ELSE f[k - 1]
    <3>1. CASE k = 0
      BY <2>5, <3>1
    <3>2. CASE k # 0
      <4>1. k \in 1..n /\ k - 1 \in 0..n
        BY <1>1, <3>2
      <4>2. f[k - 1] \in S
        BY <2>5, <4>1
      <4> QED
        BY <2>3, <2>5, <3>2, <4>1, <4>2
    <3> QED
      BY <3>1, <3>2
  <2>7. f = [k \in 0..n |-> f[k]]
    BY <2>5
  <2>8. Loop(f)
    BY <2>6, <2>7
  <2> QED
    BY <2>8
<1>6. Loop(best)
  BY <1>5
<1> HIDE DEF best
<1>7. best[0] = 0 /\ \A k \in 1..n : best[k] = IF best[k - 1] = 0 \/ Far(bases[k].at, a) < Far(bases[best[k - 1]].at, a)
                                               THEN k ELSE best[k - 1]
  <2>1. 0 \in 0..n /\ \A k \in 1..n : k \in 0..n /\ k # 0
    BY <1>1
  <2> QED
    BY <1>6, <2>1
<1> HIDE DEF Loop
<1> DEFINE Good == {k \in 0..n : k # 0 => best[k] \in 1..k /\ \A j \in 1..k : far[best[k]] <= far[j]}
<1>8. 0 \in Good
  BY <1>1
<1>9. ASSUME NEW k \in 1..n, k - 1 \in Good PROVE k \in Good
  <2>1. k \in 0..n /\ k # 0
    BY <1>1
  <2>2. CASE k = 1
    <3>1. best[k] = 1
      BY <1>7, <2>2
    <3>2. \A j \in 1..k : far[best[k]] <= far[j]
      BY <1>1, <1>3, <2>2, <3>1
    <3> QED
      BY <2>1, <2>2, <3>1, <3>2
  <2>3. CASE k # 1
    <3>1. PICK l : l = k - 1
      OBVIOUS
    <3>2. l \in 1..n /\ l < k /\ best[l] \in 1..l /\ \A j \in 1..l : far[best[l]] <= far[j]
      BY <1>1, <1>9, <2>3, <3>1
    <3>3. best[k] = IF best[l] = 0 \/ Far(bases[k].at, a) < Far(bases[best[l]].at, a) THEN k ELSE best[l]
      BY <1>7, <3>1
    <3>4. best[l] \in 1..n /\ best[l] # 0
      BY <1>1, <3>2
    <3>5. best[k] = IF far[k] < far[best[l]] THEN k ELSE best[l]
      BY <1>3, <3>3, <3>4
    <3>6. best[k] \in 1..k
      BY <1>1, <3>2, <3>5
    <3>7. ASSUME NEW j \in 1..k PROVE far[best[k]] <= far[j]
      <4>1. j \in 1..l \/ j = k
        BY <1>1, <3>1
      <4>2. j \in 1..n
        BY <1>1
      <4>3. far[j] \in Int /\ far[k] \in Int /\ far[best[l]] \in Int
        BY <1>3, <3>4, <4>2
      <4>4. j \in 1..l => far[best[l]] <= far[j]
        BY <3>2
      <4>5. CASE far[k] < far[best[l]]
        BY <3>5, <4>1, <4>3, <4>4, <4>5
      <4>6. CASE ~(far[k] < far[best[l]])
        BY <3>5, <4>1, <4>3, <4>4, <4>6
      <4> QED
        BY <4>5, <4>6
    <3> QED
      BY <2>1, <3>6, <3>7
  <2> QED
    BY <2>2, <2>3
<1> HIDE DEF Good
<1>10. n \in Good
  <2>1. \A k \in 1..n : k - 1 \in Good => k \in Good
    BY <1>9
  <2> HIDE DEF n
  <2>2. \A k \in 0..n : k \in Good
    BY <1>1, <1>8, <2>1, UpTo
  <2> QED
    BY <1>1, <2>2
<1>11. CASE bases = <<>>
  <2>1. n = 0
    BY <1>11
  <2> QED
    BY <1>4, <1>7, <1>11, <2>1
<1>12. CASE bases # <<>>
  <2>1. n # 0
    BY <1>1, <1>12
  <2>2. best[n] \in 1..n /\ \A j \in 1..n : far[best[n]] <= far[j]
    BY <1>10, <2>1 DEF Good
  <2>3. ClosestTeam(a) = bases[best[n]].team
    BY <1>1, <1>4, <2>2
  <2> QED
    BY <1>1, <1>2, <1>3, <1>12, <2>2, <2>3
<1> QED
  BY <1>11, <1>12

LEMMA NearestGets ==
  ASSUME MapTypes, NEW a \in MapGrid PROVE NearestHas(Owned(a, ClosestTeam(a)))
<1>1. Owned(a, ClosestTeam(a)).at = a /\ Owned(a, ClosestTeam(a)).team = ClosestTeam(a)
  BY DEF Owned
<1> QED
  BY <1>1, NearestIsFound DEF NearestHas

LEMMA NearestStays ==
  ASSUME UNCHANGED mapOptions, UNCHANGED bases, NEW e
  PROVE  NearestHas(e)' = NearestHas(e)
<1>1. \A a, b : Far(a, b)' = Far(a, b)
  BY PlacesStay
<1> QED
  BY <1>1 DEF NearestHas

Given(objects, k) == [objects EXCEPT ![k] = Owned(objects[k].at, ClosestTeam(objects[k].at))]

\* An owner does not move what it gets.
LEMMA OwnerIsGiven ==
  ASSUME MapTypes, NEW objects \in Seq(OwnedSort), NEW k \in 1..Len(objects), NEW places, Listed(objects, places),
         NEW new, new = Given(objects, k)
  PROVE  /\ new \in Seq(OwnedSort) /\ DOMAIN new = DOMAIN objects /\ Listed(new, places)
         /\ NearestHas(new[k]) /\ new[k].team = ClosestTeam(objects[k].at)
         /\ \A j \in DOMAIN objects : j # k => new[j] = objects[j]
<1> DEFINE a == objects[k].at
           e == Owned(a, ClosestTeam(a))
<1>1. DOMAIN objects = 1..Len(objects) /\ objects[k] \in OwnedSort /\ a \in MapGrid
  <2>1. DOMAIN objects = 1..Len(objects) /\ objects[k] \in OwnedSort
    OBVIOUS
  <2> QED
    BY <2>1 DEF OwnedSort
<1>2. e \in OwnedSort /\ e.at = a /\ e.team = ClosestTeam(a) /\ NearestHas(e)
  BY <1>1, NearestIsFound, NearestGets DEF Owned, OwnedSort
<1> HIDE DEF e
<1>3. new = [objects EXCEPT ![k] = e]
  BY DEF e, Given
<1>4. new \in Seq(OwnedSort) /\ DOMAIN new = DOMAIN objects /\ new[k] = e
      /\ \A j \in DOMAIN objects : j # k => new[j] = objects[j]
  BY <1>2, <1>3
<1>5. \A j \in DOMAIN objects : new[j].at = objects[j].at
  BY <1>2, <1>4
<1>6. Listed(new, places)
  BY <1>4, <1>5 DEF Listed
<1> QED
  BY <1>2, <1>4, <1>6

\* What the giving leaves as it is.
LEMMA MapStays ==
  ASSUME MapInvariant, UNCHANGED <<mapOptions, column, row, reading, worldBlock, bases, numTeamBases>>,
         mapPhase \in {"treasures", "fuels"}, mapPhase' \in {"treasures", "fuels", "turn"}
  PROVE  /\ Border' = Border /\ SizeX' = SizeX /\ SizeY' = SizeY /\ MapGrid' = MapGrid
         /\ TextPlace' /\ BlocksAreDrawn' /\ BasesFace' /\ Passed = MapGrid /\ Passed' = MapGrid
         /\ BasesOf(Passed)' = BasesOf(Passed) /\ \A t : OfTeam(BasesOf(Passed), t)' = OfTeam(BasesOf(Passed), t)
         /\ TreasuresOf(Passed)' = TreasuresOf(Passed)
         /\ FuelsOf(Passed)' = FuelsOf(Passed)
         /\ \A e : NearestHas(e)' = NearestHas(e)
<1>1. Border' = Border /\ SizeX' = SizeX /\ SizeY' = SizeY /\ MapGrid' = MapGrid
  BY PlacesStay
<1>2. \A a : Drawn(a)' = Drawn(a)
  BY DrawnStays
<1>3. teamPlay' = teamPlay
  BY DEF mapOptions
<1>4. TextPlace' /\ BasesFace'
  BY DEF TextPlace, BasesFace
<1>5. BlocksAreDrawn'
  <2>1. \A d : Tag(d)' = Tag(d)
    BY <1>3 DEF Tag
  <2>2. \A a \in MapGrid : worldBlock[a] = Tag(Drawn(a))
    BY DEF MapInvariant, BlocksAreDrawn, ReadBlock
  <2> QED
    BY <1>1, <1>2, <2>1, <2>2 DEF BlocksAreDrawn
<1>6. Passed = MapGrid /\ Passed' = MapGrid
  BY <1>1 DEF Passed
<1>7. BasesOf(Passed)' = BasesOf(Passed)
  BY <1>2, <1>6 DEF BasesOf
<1>8. \A t : OfTeam(BasesOf(Passed), t)' = OfTeam(BasesOf(Passed), t)
  BY <1>2, <1>7 DEF OfTeam
<1>9. \A e : NearestHas(e)' = NearestHas(e)
  BY NearestStays
<1>10. TreasuresOf(Passed)' = TreasuresOf(Passed) /\ FuelsOf(Passed)' = FuelsOf(Passed)
  BY <1>2, <1>3, <1>6 DEF TreasuresOf, FuelsOf
<1> QED
  BY <1>1, <1>4, <1>5, <1>6, <1>7, <1>8, <1>9, <1>10

LEMMA TreasureIsGiven ==
  ASSUME MapInvariant, GiveTreasure PROVE MapInvariant'
<1>1. MapTypes /\ AllListed /\ GivenToNearest /\ Counted /\ mapPhase = "treasures" /\ teamPlay
  BY DEF MapInvariant, GiveTreasure, MapTypes
<1>2. mapText' = mapText /\ extraBorder' = extraBorder /\ teamPlay' = teamPlay /\ wrapPlay' = wrapPlay
      /\ column' = column /\ row' = row /\ reading' = reading /\ worldBlock' = worldBlock
      /\ bases' = bases /\ fuels' = fuels /\ numTeamBases' = numTeamBases
  BY DEF GiveTreasure, mapOptions
<1>3. mapPhase' \in {"treasures", "fuels"}
  BY <1>1 DEF GiveTreasure
<1>4. /\ Border' = Border /\ SizeX' = SizeX /\ SizeY' = SizeY /\ MapGrid' = MapGrid
      /\ TextPlace' /\ BlocksAreDrawn' /\ BasesFace' /\ Passed = MapGrid /\ Passed' = MapGrid
      /\ BasesOf(Passed)' = BasesOf(Passed) /\ \A t : OfTeam(BasesOf(Passed), t)' = OfTeam(BasesOf(Passed), t)
      /\ TreasuresOf(Passed)' = TreasuresOf(Passed)
      /\ FuelsOf(Passed)' = FuelsOf(Passed)
      /\ \A e : NearestHas(e)' = NearestHas(e)
  BY <1>1, <1>2, <1>3, MapStays DEF GiveTreasure
<1>5. number \in Nat \ {0} /\ treasures \in Seq(OwnedSort) /\ DOMAIN treasures = 1..Len(treasures)
      /\ teams \in [TeamNumbers -> [numBases : Nat, numTreasures : Nat]]
      /\ Listed(treasures, TreasuresOf(Passed))
  BY <1>1 DEF MapTypes, AllListed
<1>6. /\ treasures' \in Seq(OwnedSort) /\ Listed(treasures', TreasuresOf(Passed))
      /\ number' \in Nat \ {0}
      /\ teams' \in [TeamNumbers -> [numBases : Nat, numTreasures : Nat]]
      /\ \A t \in TeamNumbers : teams'[t].numBases = teams[t].numBases
                                /\ teams'[t].numTreasures = Cardinality(TeamTreasures(t)')
      /\ \A k \in DOMAIN treasures' : IF mapPhase' = "fuels" \/ k < number' THEN NearestHas(treasures'[k])
                                      ELSE treasures'[k].team = Nobody
      /\ mapPhase' = "fuels" => number' = 1
  <2>1. \A t \in TeamNumbers : teams[t].numTreasures = Cardinality(TeamTreasures(t))
        /\ teams[t].numBases \in Nat /\ teams[t].numTreasures \in Nat
    BY <1>1, <1>5 DEF Counted
  <2>2. \A k \in DOMAIN treasures : IF k < number THEN NearestHas(treasures[k]) ELSE treasures[k].team = Nobody
    BY <1>1 DEF GivenToNearest
  <2>3. CASE number > Len(treasures)
    <3>1. mapPhase' = "fuels" /\ number' = 1 /\ treasures' = treasures /\ teams' = teams
      BY <2>3 DEF GiveTreasure
    <3>2. \A t : TeamTreasures(t)' = TeamTreasures(t)
      BY <3>1 DEF TeamTreasures
    <3>3. \A k \in DOMAIN treasures : k < number
      BY <1>5, <2>3
    <3> QED
      BY <1>5, <2>1, <2>2, <3>1, <3>2, <3>3
  <2>4. CASE ~(number > Len(treasures))
    <3>1. PICK k : k = number
      OBVIOUS
    <3>2. k \in 1..Len(treasures) /\ k \in DOMAIN treasures
      BY <1>5, <2>4, <3>1
    <3>3. PICK t : t = ClosestTeam(treasures[k].at)
      OBVIOUS
    <3>4. /\ treasures' = Given(treasures, k)
          /\ teams' = IF t = Nobody THEN teams ELSE [teams EXCEPT ![t].numTreasures = @ + 1]
          /\ number' = number + 1 /\ mapPhase' = "treasures"
      BY <1>1, <2>4, <3>1, <3>3 DEF GiveTreasure, Given
    <3>5. /\ treasures' \in Seq(OwnedSort) /\ DOMAIN treasures' = DOMAIN treasures
          /\ Listed(treasures', TreasuresOf(Passed))
          /\ NearestHas(treasures'[k]) /\ treasures'[k].team = t
          /\ \A j \in DOMAIN treasures : j # k => treasures'[j] = treasures[j]
      BY <1>1, <1>5, <3>2, <3>3, <3>4, OwnerIsGiven
    <3>6. t \in TeamNumbers \cup {Nobody} /\ Nobody \notin TeamNumbers
      <4>1. treasures[k] \in OwnedSort
        BY <1>5, <3>2
      <4>2. treasures[k].at \in MapGrid
        BY <4>1 DEF OwnedSort
      <4> QED
        BY <1>1, <3>3, <4>2, NearestIsFound DEF Nobody, TeamNumbers
    <3>7. treasures[k].team = Nobody
      BY <2>2, <3>1, <3>2, <1>5
    <3>8. ASSUME NEW u \in TeamNumbers
          PROVE  /\ TeamTreasures(u)' = IF u = t THEN TeamTreasures(u) \cup {k} ELSE TeamTreasures(u)
                 /\ k \notin TeamTreasures(u) /\ IsFiniteSet(TeamTreasures(u)) /\ Cardinality(TeamTreasures(u)) \in Nat
      <4>1. TeamTreasures(u)' = IF u = t THEN TeamTreasures(u) \cup {k} ELSE TeamTreasures(u)
        BY <3>2, <3>5, <3>6, <3>7 DEF TeamTreasures
      <4>2. k \notin TeamTreasures(u)
        BY <3>6, <3>7 DEF TeamTreasures
      <4>3. IsFiniteSet(1..Len(treasures))
        <5>1. 1 \in Int /\ Len(treasures) \in Int
          BY <1>5
        <5> QED
          BY <5>1, FS_Interval
      <4>4. TeamTreasures(u) \subseteq 1..Len(treasures)
        BY <1>5 DEF TeamTreasures
      <4>5. IsFiniteSet(TeamTreasures(u))
        BY <4>3, <4>4, FS_Subset
      <4> QED
        BY <4>1, <4>2, <4>5, FS_CardinalityType
    <3>9. teams' \in [TeamNumbers -> [numBases : Nat, numTreasures : Nat]]
          /\ \A u \in TeamNumbers : teams'[u].numBases = teams[u].numBases
                 /\ teams'[u].numTreasures = IF u = t THEN teams[u].numTreasures + 1 ELSE teams[u].numTreasures
      <4>1. CASE t = Nobody
        BY <1>5, <3>4, <3>6, <4>1
      <4>2. CASE t # Nobody
        <5>1. t \in TeamNumbers /\ teams' = [teams EXCEPT ![t].numTreasures = @ + 1]
          BY <3>4, <3>6, <4>2
        <5> QED
          BY <1>5, <2>1, <5>1
      <4> QED
        BY <4>1, <4>2
    <3>10. ASSUME NEW u \in TeamNumbers PROVE teams'[u].numTreasures = Cardinality(TeamTreasures(u)')
      <4>1. CASE u = t
        <5>1. Cardinality(TeamTreasures(u) \cup {k}) = Cardinality(TeamTreasures(u)) + 1
          BY <3>8, FS_AddElement
        <5> QED
          BY <2>1, <3>8, <3>9, <4>1, <5>1
      <4>2. CASE u # t
        BY <2>1, <3>8, <3>9, <4>2
      <4> QED
        BY <4>1, <4>2
    <3>11. ASSUME NEW j \in DOMAIN treasures
           PROVE  IF j < number' THEN NearestHas(treasures'[j]) ELSE treasures'[j].team = Nobody
      <4>1. CASE j = k
        <5>1. j < number'
          BY <1>5, <3>1, <3>4, <4>1
        <5> QED
          BY <3>5, <4>1, <5>1
      <4>2. CASE j # k
        <5>1. j < number' <=> j < number
          BY <1>5, <3>1, <3>4, <4>2
        <5> QED
          BY <2>2, <3>5, <4>2, <5>1
      <4> QED
        BY <4>1, <4>2
    <3>12. number' \in Nat \ {0} /\ mapPhase' # "fuels"
      BY <1>5, <3>4
    <3> QED
      BY <3>5, <3>9, <3>10, <3>11, <3>12
  <2> QED
    BY <2>3, <2>4
<1>7. MapTypes'
  <2>1. BaseSort' = BaseSort /\ OwnedSort' = OwnedSort
    BY <1>4 DEF BaseSort, OwnedSort
  <2> QED
    BY <1>1, <1>2, <1>3, <1>4, <1>6, <2>1 DEF MapTypes, MapPhases
<1>8. AllListed'
  <2>1. Listed(bases, BasesOf(Passed)) /\ Listed(fuels, FuelsOf(Passed))
    BY <1>1 DEF AllListed
  <2>2. /\ TreasuresOf(Passed)' = TreasuresOf(Passed)
        /\ FuelsOf(Passed)' = FuelsOf(Passed)
    BY <1>4
  <2> QED
    BY <1>2, <1>4, <1>6, <2>1, <2>2 DEF AllListed, Listed
<1>9. GivenToNearest'
  <2>1. ASSUME NEW k \in DOMAIN treasures'
        PROVE  IF mapPhase' \in {"fuels", "turn", "done"} \/ (mapPhase' = "treasures" /\ k < number')
               THEN NearestHas(treasures[k])' ELSE treasures'[k].team = Nobody
    <3>1. NearestHas(treasures[k])' <=> NearestHas(treasures'[k])
      BY <1>4
    <3> QED
      BY <1>3, <1>6, <3>1
  <2>2. ASSUME NEW k \in DOMAIN fuels'
        PROVE  ~(mapPhase' \in {"turn", "done"} \/ (mapPhase' = "fuels" /\ k < number'))
    <3>1. k \in 1..Len(fuels) /\ fuels \in Seq(OwnedSort)
      BY <1>1, <1>2 DEF MapTypes
    <3> QED
      BY <1>3, <1>6, <3>1
  <2> QED
    BY <2>1, <2>2 DEF GivenToNearest
<1>10. Counted'
  <2>1. WithBases' = WithBases
    BY <1>6 DEF WithBases
  <2> QED
    BY <1>1, <1>2, <1>4, <1>6, <2>1 DEF Counted
<1> QED
  BY <1>4, <1>7, <1>8, <1>9, <1>10 DEF MapInvariant

LEMMA FuelIsGiven ==
  ASSUME MapInvariant, GiveFuel PROVE MapInvariant'
<1>1. MapTypes /\ AllListed /\ GivenToNearest /\ Counted /\ mapPhase = "fuels" /\ teamPlay
  BY DEF MapInvariant, GiveFuel, MapTypes
<1>2. mapText' = mapText /\ extraBorder' = extraBorder /\ teamPlay' = teamPlay /\ wrapPlay' = wrapPlay
      /\ column' = column /\ row' = row /\ reading' = reading /\ worldBlock' = worldBlock
      /\ bases' = bases /\ treasures' = treasures /\ teams' = teams /\ numTeamBases' = numTeamBases
  BY DEF GiveFuel, mapOptions
<1>3. mapPhase' \in {"fuels", "turn"}
  BY <1>1 DEF GiveFuel
<1>4. /\ Border' = Border /\ SizeX' = SizeX /\ SizeY' = SizeY /\ MapGrid' = MapGrid
      /\ TextPlace' /\ BlocksAreDrawn' /\ BasesFace' /\ Passed = MapGrid /\ Passed' = MapGrid
      /\ BasesOf(Passed)' = BasesOf(Passed) /\ \A t : OfTeam(BasesOf(Passed), t)' = OfTeam(BasesOf(Passed), t)
      /\ TreasuresOf(Passed)' = TreasuresOf(Passed)
      /\ FuelsOf(Passed)' = FuelsOf(Passed)
      /\ \A e : NearestHas(e)' = NearestHas(e)
  BY <1>1, <1>2, <1>3, MapStays DEF GiveFuel
<1>5. number \in Nat \ {0} /\ fuels \in Seq(OwnedSort) /\ DOMAIN fuels = 1..Len(fuels)
      /\ Listed(fuels, FuelsOf(Passed))
  BY <1>1 DEF MapTypes, AllListed
<1>6. /\ fuels' \in Seq(OwnedSort) /\ Listed(fuels', FuelsOf(Passed)) /\ number' \in Nat \ {0}
      /\ \A k \in DOMAIN fuels' : mapPhase' = "turn" \/ k < number' => NearestHas(fuels'[k])
  <2>1. \A k \in DOMAIN fuels : k < number => NearestHas(fuels[k])
    BY <1>1 DEF GivenToNearest
  <2>2. CASE number > Len(fuels)
    <3>1. fuels' = fuels /\ number' = number
      BY <2>2 DEF GiveFuel
    <3>2. \A k \in DOMAIN fuels : k < number
      BY <1>5, <2>2
    <3> QED
      BY <1>5, <2>1, <3>1, <3>2
  <2>3. CASE ~(number > Len(fuels))
    <3>1. PICK k : k = number
      OBVIOUS
    <3>2. k \in 1..Len(fuels)
      BY <1>5, <2>3, <3>1
    <3>3. fuels' = Given(fuels, k) /\ number' = number + 1 /\ mapPhase' = "fuels"
      BY <1>1, <2>3, <3>1 DEF GiveFuel, Given
    <3>4. /\ fuels' \in Seq(OwnedSort) /\ DOMAIN fuels' = DOMAIN fuels /\ Listed(fuels', FuelsOf(Passed))
          /\ NearestHas(fuels'[k]) /\ \A j \in DOMAIN fuels : j # k => fuels'[j] = fuels[j]
      BY <1>1, <1>5, <3>2, <3>3, OwnerIsGiven
    <3>5. ASSUME NEW j \in DOMAIN fuels, j < number' PROVE NearestHas(fuels'[j])
      <4>1. CASE j = k
        BY <3>4, <4>1
      <4>2. CASE j # k
        <5>1. j < number
          BY <1>5, <3>1, <3>3, <3>5, <4>2
        <5> QED
          BY <2>1, <3>4, <4>2, <5>1
      <4> QED
        BY <4>1, <4>2
    <3>6. number' \in Nat \ {0} /\ mapPhase' # "turn"
      BY <1>5, <3>3
    <3> QED
      BY <3>4, <3>5, <3>6
  <2> QED
    BY <2>2, <2>3
<1>7. MapTypes'
  <2>1. BaseSort' = BaseSort /\ OwnedSort' = OwnedSort
    BY <1>4 DEF BaseSort, OwnedSort
  <2> QED
    BY <1>1, <1>2, <1>3, <1>4, <1>6, <2>1 DEF MapTypes, MapPhases
<1>8. AllListed'
  <2>1. Listed(bases, BasesOf(Passed)) /\ Listed(treasures, TreasuresOf(Passed))
    BY <1>1 DEF AllListed
  <2> QED
    BY <1>2, <1>4, <1>6, <2>1 DEF AllListed, Listed
<1>9. GivenToNearest'
  <2>1. ASSUME NEW k \in DOMAIN treasures'
        PROVE  mapPhase' \in {"fuels", "turn", "done"} /\ NearestHas(treasures[k])'
    <3>1. NearestHas(treasures[k])' <=> NearestHas(treasures'[k])
      BY <1>4
    <3>2. NearestHas(treasures[k])
      BY <1>1, <1>2 DEF GivenToNearest
    <3> QED
      BY <1>2, <1>3, <3>1, <3>2
  <2>2. ASSUME NEW k \in DOMAIN fuels', mapPhase' \in {"turn", "done"} \/ (mapPhase' = "fuels" /\ k < number')
        PROVE  NearestHas(fuels[k])'
    <3>1. NearestHas(fuels[k])' <=> NearestHas(fuels'[k])
      BY <1>4
    <3> QED
      BY <1>3, <1>6, <2>2, <3>1
  <2> QED
    BY <2>1, <2>2 DEF GivenToNearest
<1>10. Counted'
  <2>1. WithBases' = WithBases /\ \A t : TeamTreasures(t)' = TeamTreasures(t)
    BY <1>2 DEF WithBases, TeamTreasures
  <2> QED
    BY <1>1, <1>2, <1>4, <2>1 DEF Counted
<1> QED
  BY <1>4, <1>7, <1>8, <1>9, <1>10 DEF MapInvariant
-----------------------------------------------------------------------------
(* Turning the bases.                                                      *)

LEMMA BesideIs ==
  ASSUME MapTypes, NEW b \in MapGrid, NEW dir \in Directions PROVE Beside(b, dir) \subseteq MapGrid
<1>1. b[1] \in 0..(SizeX - 1) /\ b[2] \in 0..(SizeY - 1) /\ SizeX \in Nat \ {0} /\ SizeY \in Nat \ {0}
  BY IsOnMap, SizesAre DEF MapTypes
<1>2. PICK x, y : NextTo(b, dir) = <<x, y>> /\ x \in (b[1] - 1)..(b[1] + 1) /\ y \in (b[2] - 1)..(b[2] + 1)
  <2>1. b[1] \in Int /\ b[2] \in Int
    BY <1>1
  <2> QED
    BY <2>1 DEF NextTo, Directions
<1>3. GoneAround(x, SizeX) \in 0..(SizeX - 1) /\ GoneAround(y, SizeY) \in 0..(SizeY - 1)
  BY <1>1, <1>2 DEF GoneAround
<1> QED
  BY <1>2, <1>3 DEF Beside, MapGrid

LEMMA FacingIs ==
  ASSUME MapTypes, NEW b
  PROVE  Facing(b) \in Directions /\ ((\E dir \in Directions : Attracted(b, dir)) => Attracted(b, Facing(b)))
BY DEF Facing, Directions

LEMMA BasesAreTurned ==
  ASSUME MapInvariant, TurnBases PROVE MapInvariant'
<1>1. MapTypes /\ BlocksAreDrawn /\ AllListed /\ GivenToNearest /\ Counted /\ mapPhase = "turn" /\ mapPhase' = "done"
  BY DEF MapInvariant, TurnBases
<1>2. mapText' = mapText /\ extraBorder' = extraBorder /\ teamPlay' = teamPlay /\ wrapPlay' = wrapPlay
      /\ column' = column /\ row' = row /\ number' = number
      /\ treasures' = treasures /\ fuels' = fuels /\ teams' = teams /\ numTeamBases' = numTeamBases
  BY DEF TurnBases, mapOptions, mapPlace
<1>3. Border' = Border /\ SizeX' = SizeX /\ SizeY' = SizeY /\ MapGrid' = MapGrid
      /\ (\A a, b : Far(a, b)' = Far(a, b)) /\ \A b, dir : Beside(b, dir)' = Beside(b, dir)
  BY PlacesStay DEF TurnBases
<1>4. \A a : Drawn(a)' = Drawn(a)
  BY DrawnStays DEF TurnBases
<1>5. bases \in Seq(BaseSort) /\ DOMAIN bases = 1..Len(bases)
      /\ \A k \in DOMAIN bases : bases[k].at \in MapGrid /\ bases[k].team \in TeamNumbers \cup {Nobody}
  <2>1. bases \in Seq(BaseSort)
    BY <1>1 DEF MapTypes
  <2>2. \A k \in DOMAIN bases : bases[k] \in BaseSort
    BY <2>1
  <2> QED
    BY <2>1, <2>2 DEF BaseSort
<1>6. bases' = [k \in DOMAIN bases |-> [at |-> bases[k].at, team |-> bases[k].team, dir |-> Facing(bases[k].at)]]
  BY DEF TurnBases
<1>7. /\ DOMAIN bases' = DOMAIN bases
      /\ \A k \in DOMAIN bases : /\ bases'[k].at = bases[k].at /\ bases'[k].team = bases[k].team
                                 /\ bases'[k].dir = Facing(bases[k].at)
  BY <1>6
<1>8. bases' \in Seq(BaseSort)
  <2>1. \A k \in 1..Len(bases) : bases'[k] \in BaseSort
    BY <1>1, <1>5, <1>6, FacingIs DEF BaseSort
  <2> QED
    BY <1>5, <1>6, <2>1
<1>9. worldBlock' = [b \in MapGrid |-> IF worldBlock[b] = "$" THEN " " ELSE worldBlock[b]]
  BY DEF TurnBases
<1>10. \A a \in MapGrid : worldBlock[a] = Tag(Drawn(a))
  BY <1>1 DEF BlocksAreDrawn, ReadBlock
<1>11. MapTypes'
  <2>1. BaseSort' = BaseSort /\ OwnedSort' = OwnedSort
    BY <1>3 DEF BaseSort, OwnedSort
  <2>2. worldBlock' = [b \in MapGrid |-> worldBlock'[b]]
    BY <1>9
  <2> QED
    BY <1>1, <1>2, <1>3, <1>8, <2>1, <2>2 DEF MapTypes, MapPhases
<1>12. TextPlace'
  BY <1>1 DEF TextPlace
<1>13. BlocksAreDrawn'
  <2>1. \A d : Tag(d)' = Tag(d)
    BY <1>2 DEF Tag
  <2>2. \A d : Tag(d) = "$" <=> d = "$"
    BY DEF Tag
  <2>3. \A a \in MapGrid : worldBlock'[a] = IF Drawn(a) = "$" THEN " " ELSE Tag(Drawn(a))
    BY <1>9, <1>10, <2>2
  <2> QED
    BY <1>1, <1>3, <1>4, <2>1, <2>3 DEF BlocksAreDrawn
<1>14. Passed = MapGrid /\ Passed' = MapGrid
  BY <1>1, <1>3 DEF Passed
<1>15. BasesOf(Passed)' = BasesOf(Passed) /\ TreasuresOf(Passed)' = TreasuresOf(Passed)
       /\ FuelsOf(Passed)' = FuelsOf(Passed)
  BY <1>2, <1>4, <1>14 DEF BasesOf, TreasuresOf, FuelsOf
<1>16. AllListed'
  <2>1. Listed(bases, BasesOf(Passed)) /\ Listed(treasures, TreasuresOf(Passed)) /\ Listed(fuels, FuelsOf(Passed))
    BY <1>1 DEF AllListed
  <2>2. Listed(bases', BasesOf(Passed))
    BY <1>7, <2>1 DEF Listed
  <2> QED
    BY <1>2, <1>15, <2>1, <2>2 DEF AllListed, Listed
<1>17. \A e : NearestHas(e) => NearestHas(e)'
  <2> SUFFICES ASSUME NEW e, NearestHas(e) PROVE NearestHas(e)'
    OBVIOUS
  <2>1. CASE bases = <<>>
    <3>1. DOMAIN bases' = {} /\ bases' = <<>>
      BY <1>5, <1>7, <1>8, <2>1
    <3> QED
      BY <2>1, <3>1 DEF NearestHas
  <2>2. CASE bases # <<>>
    <3>1. PICK k \in DOMAIN bases : bases[k].team = e.team
            /\ \A j \in DOMAIN bases : Far(bases[k].at, e.at) <= Far(bases[j].at, e.at)
      BY <2>2 DEF NearestHas
    <3>2. bases' # <<>>
      BY <1>5, <1>7, <1>8, <2>2
    <3> QED
      BY <1>3, <1>7, <3>1, <3>2 DEF NearestHas
  <2> QED
    BY <2>1, <2>2
<1>18. GivenToNearest'
  <2>1. ASSUME teamPlay', NEW k \in DOMAIN treasures' PROVE NearestHas(treasures[k])'
    <3>1. NearestHas(treasures[k])
      BY <1>1, <1>2, <2>1 DEF GivenToNearest
    <3>2. NearestHas(treasures'[k]) => NearestHas(treasures[k])'
      BY <1>17
    <3> QED
      BY <1>2, <3>1, <3>2
  <2>2. ASSUME teamPlay', NEW k \in DOMAIN fuels' PROVE NearestHas(fuels[k])'
    <3>1. NearestHas(fuels[k])
      BY <1>1, <1>2, <2>2 DEF GivenToNearest
    <3>2. NearestHas(fuels'[k]) => NearestHas(fuels[k])'
      BY <1>17
    <3> QED
      BY <1>2, <3>1, <3>2
  <2> QED
    BY <1>1, <2>1, <2>2 DEF GivenToNearest
<1>19. Counted'
  <2>1. WithBases' = WithBases /\ (\A t : TeamTreasures(t)' = TeamTreasures(t))
        /\ \A t : OfTeam(BasesOf(Passed), t)' = OfTeam(BasesOf(Passed), t)
    BY <1>2, <1>4, <1>15 DEF WithBases, TeamTreasures, OfTeam
  <2> QED
    BY <1>1, <1>2, <2>1 DEF Counted
<1>20. BasesFace'
  <2>1. ASSUME NEW k \in DOMAIN bases, NEW dir \in Directions
        PROVE  Attracted(bases[k].at, dir) <=> \E n \in Beside(bases[k].at, dir) : Drawn(n) = "$"
    <3>1. Beside(bases[k].at, dir) \subseteq MapGrid
      BY <1>1, <1>5, BesideIs
    <3>2. \A d : Tag(d) = "$" <=> d = "$"
      BY DEF Tag
    <3> QED
      BY <1>10, <3>1, <3>2 DEF Attracted
  <2>2. ASSUME NEW k \in DOMAIN bases, NEW dir \in Directions, \E n \in Beside(bases[k].at, dir) : Drawn(n) = "$"
        PROVE  \E n \in Beside(bases[k].at, bases'[k].dir) : Drawn(n) = "$"
    <3>1. Attracted(bases[k].at, dir)
      BY <2>1, <2>2
    <3>2. Facing(bases[k].at) \in Directions /\ Attracted(bases[k].at, Facing(bases[k].at))
      BY <1>1, <3>1, FacingIs
    <3> QED
      BY <1>7, <2>1, <3>2
  <2> QED
    BY <1>3, <1>4, <1>7, <2>2 DEF BasesFace
<1> QED
  BY <1>11, <1>12, <1>13, <1>16, <1>18, <1>19, <1>20 DEF MapInvariant

LEMMA NothingIsDone ==
  ASSUME MapInvariant, UNCHANGED mapVars PROVE MapInvariant'
<1>1. UNCHANGED mapOptions
  BY DEF mapVars
<1>2. mapText' = mapText /\ extraBorder' = extraBorder /\ teamPlay' = teamPlay /\ wrapPlay' = wrapPlay
      /\ mapPhase' = mapPhase /\ column' = column /\ row' = row /\ reading' = reading /\ number' = number
      /\ worldBlock' = worldBlock /\ bases' = bases /\ treasures' = treasures /\ fuels' = fuels
      /\ teams' = teams /\ numTeamBases' = numTeamBases
  BY DEF mapVars, mapOptions, mapPlace, mapObjects
<1>3. Border' = Border /\ SizeX' = SizeX /\ SizeY' = SizeY /\ MapGrid' = MapGrid
      /\ (\A k, line, c : AtColumn(k, line, c)' = AtColumn(k, line, c)) /\ \A b, dir : Beside(b, dir)' = Beside(b, dir)
  BY <1>1, PlacesStay
<1>4. (\A a : Drawn(a)' = Drawn(a)) /\ (\A d : Tag(d)' = Tag(d)) /\ \A e : NearestHas(e)' = NearestHas(e)
  BY <1>1, <1>2, DrawnStays, NearestStays DEF Tag
<1>5. MapTypes'
  <2>1. BaseSort' = BaseSort /\ OwnedSort' = OwnedSort
    BY <1>3 DEF BaseSort, OwnedSort
  <2> QED
    BY <1>2, <1>3, <2>1 DEF MapInvariant, MapTypes
<1>6. TextPlace'
  BY <1>2, <1>3 DEF MapInvariant, TextPlace, InLine
<1>7. BlocksAreDrawn'
  BY <1>2, <1>3, <1>4 DEF MapInvariant, BlocksAreDrawn, ReadBlock
<1>8. Passed' = Passed
  BY <1>2, <1>3 DEF Passed
<1>9. BasesOf(Passed)' = BasesOf(Passed) /\ TreasuresOf(Passed)' = TreasuresOf(Passed)
      /\ FuelsOf(Passed)' = FuelsOf(Passed)
  BY <1>2, <1>4, <1>8 DEF BasesOf, TreasuresOf, FuelsOf
<1>10. AllListed'
  BY <1>2, <1>9 DEF MapInvariant, AllListed, Listed
<1>11. GivenToNearest'
  BY <1>2, <1>4 DEF MapInvariant, GivenToNearest
<1>12. Counted'
  <2>1. WithBases' = WithBases /\ (\A t : TeamTreasures(t)' = TeamTreasures(t))
        /\ \A t : OfTeam(BasesOf(Passed), t)' = OfTeam(BasesOf(Passed), t)
    BY <1>2, <1>4, <1>9 DEF WithBases, TeamTreasures, OfTeam
  <2> QED
    BY <1>2, <2>1 DEF MapInvariant, Counted
<1>13. BasesFace'
  BY <1>2, <1>3, <1>4 DEF MapInvariant, BasesFace
<1> QED
  BY <1>5, <1>6, <1>7, <1>10, <1>11, <1>12, <1>13 DEF MapInvariant

(* The map is what was drawn.                                              *)
THEOREM MapIsRight == MapSpec => []MapIsAsDrawn
<1>1. MapInit => MapInvariant
  BY MapBegins
<1>2. MapInvariant /\ [MapNext]_mapVars => MapInvariant'
  <2> SUFFICES ASSUME MapInvariant, [MapNext]_mapVars PROVE MapInvariant'
    OBVIOUS
  <2>1. CASE MapNext
    BY <2>1, MapIsRead, ObjectIsMade, TreasureIsGiven, FuelIsGiven, BasesAreTurned DEF MapNext
  <2>2. CASE UNCHANGED mapVars
    BY <2>2, NothingIsDone
  <2> QED
    BY <2>1, <2>2
<1>3. MapInvariant => MapIsAsDrawn
  <2> SUFFICES ASSUME MapInvariant, mapPhase = "done" PROVE MapIsAsDrawn
    BY DEF MapIsAsDrawn
  <2>1. MapTypes /\ BlocksAreDrawn /\ AllListed /\ GivenToNearest /\ Counted /\ BasesFace
    BY DEF MapInvariant
  <2>2. Passed = MapGrid
    BY DEF Passed
  <2>3. \A b \in MapGrid : worldBlock[b] = IF Drawn(b) = "$" THEN " " ELSE Tag(Drawn(b))
    BY <2>1 DEF BlocksAreDrawn, ReadBlock
  <2>4. Listed(bases, BasesOf(MapGrid)) /\ Listed(treasures, TreasuresOf(MapGrid)) /\ Listed(fuels, FuelsOf(MapGrid))
    BY <2>1, <2>2 DEF AllListed
  <2>5. /\ OneEach(bases, LAMBDA c : c \in BaseTags)
        /\ OneEach(treasures, LAMBDA c : c = "*" /\ teamPlay)
        /\ OneEach(fuels, LAMBDA c : c = "#")
    BY <2>4 DEF OneEach, Listed, BasesOf, TreasuresOf, FuelsOf
  <2>6. \A k \in DOMAIN bases :
          (\E dir \in Directions : \E n \in Beside(bases[k].at, dir) : Drawn(n) = "$")
            => \E n \in Beside(bases[k].at, bases[k].dir) : Drawn(n) = "$"
    BY <2>1 DEF BasesFace
  <2>7. teamPlay => /\ \A k \in DOMAIN treasures : NearestHas(treasures[k])
                    /\ \A k \in DOMAIN fuels : NearestHas(fuels[k])
    BY <2>1 DEF GivenToNearest
  <2>8. ASSUME teamPlay, NEW t \in TeamNumbers
        PROVE  /\ teams[t].numBases = Cardinality({b \in MapGrid : Drawn(b) \in BaseTags /\ TeamOf(Drawn(b)) = t})
               /\ teams[t].numTreasures = Cardinality({k \in DOMAIN treasures : treasures[k].team = t})
    <3>1. OfTeam(BasesOf(MapGrid), t) = {b \in MapGrid : Drawn(b) \in BaseTags /\ TeamOf(Drawn(b)) = t}
      BY DEF OfTeam, BasesOf
    <3>2. teams[t].numBases = Cardinality(OfTeam(BasesOf(MapGrid), t))
          /\ teams[t].numTreasures = Cardinality(TeamTreasures(t))
      BY <2>1, <2>2, <2>8 DEF Counted
    <3> QED
      BY <3>1, <3>2 DEF TeamTreasures
  <2>9. teamPlay => numTeamBases = Cardinality({t \in TeamNumbers : teams[t].numBases > 0})
    BY <2>1 DEF Counted, WithBases
  <2> QED
    BY <2>3, <2>5, <2>6, <2>7, <2>8, <2>9 DEF MapIsAsDrawn
<1> QED
  BY <1>1, <1>2, <1>3, PTL DEF MapSpec
-----------------------------------------------------------------------------
(***************************************************************************)
(* Distances.  A block that is not in the queue has passed on to its       *)
(* neighbours what it knows (Relaxed), so that in the end none is too far  *)
(* (NoneIsTooFar); and each distance is that of some wall (BackedBy), so   *)
(* that none is too near.  Both rest on what a step does to the distance   *)
(* of a wall, half blocks included (OneStepOff, OneStepNearer), and on the *)
(* queue being a ring that only loses what it holds if it is full.         *)
(***************************************************************************)

LEMMA WorldFacts ==
  /\ X \in Nat \ {0} /\ Y \in Nat \ {0} /\ NumBlocks \in Nat \ {0}
  /\ MaxDist \in 2..255 /\ MaxDist <= 2 * X /\ MaxDist <= 2 * Y
  /\ <<0, 0>> \in BlockGrid
<1>1. X \in Nat \ {0} /\ Y \in Nat \ {0}
  BY WalldistAssumption
<1>2. NumBlocks \in Nat \ {0}
  BY <1>1, SMT DEF NumBlocks
<1> QED
  BY <1>1, <1>2, SMT DEF MaxDist, BlockGrid

(* Two ways one after the other lead where their sum leads.                *)
LEMMA OnceAround ==
  ASSUME NEW n \in Nat \ {0}, NEW a \in Int, NEW d \in Int
  PROVE  ((a % n) + d) % n = (a + d) % n
<1> DEFINE p == a \div n
           r == a % n
           p2 == (r + d) \div n
           s == (r + d) % n
<1>1. a = n * p + r /\ r \in 0..(n - 1) /\ p \in Int
  BY Division
<1> HIDE DEF p, r
<1>2. r + d \in Int
  BY <1>1
<1>3. r + d = n * p2 + s /\ s \in 0..(n - 1) /\ p2 \in Int
  BY <1>2, Division
<1> HIDE DEF p2, s
<1> DEFINE c == a + d
           p3 == p + p2
<1>4. c = n * p3 + s /\ p3 \in Int /\ c \in Int
  BY <1>1, <1>3, SMT
<1> HIDE DEF c, p3
<1>5. c % n = s
  BY <1>3, <1>4, Remainder
<1> QED
  BY <1>5 DEF r, s, c

LEMMA AtTwice ==
  ASSUME NEW b \in BlockGrid, NEW dx \in Int, NEW dy \in Int, NEW ex \in Int, NEW ey \in Int
  PROVE  At(At(b, dx, dy), ex, ey) = At(b, dx + ex, dy + ey)
<1> DEFINE x == b[1]
           y == b[2]
           u == x + dx
           v == y + dy
<1>1. x \in 0..X - 1 /\ y \in 0..Y - 1
  BY DEF BlockGrid
<1>2. u \in Int /\ v \in Int
  BY <1>1, WorldFacts
<1> HIDE DEF u, v
<1>3. ((u % X) + ex) % X = (u + ex) % X /\ ((v % Y) + ey) % Y = (v + ey) % Y
  BY <1>2, WorldFacts, OnceAround
<1>4. (((x + dx) % X) + ex) % X = ((x + dx) + ex) % X /\ (((y + dy) % Y) + ey) % Y = ((y + dy) + ey) % Y
  BY <1>3 DEF u, v
<1>5. x + (dx + ex) = (x + dx) + ex /\ y + (dy + ey) = (y + dy) + ey
  BY <1>1, WorldFacts
<1> HIDE DEF x, y
<1>6. (((x + dx) % X) + ex) % X = (x + (dx + ex)) % X /\ (((y + dy) % Y) + ey) % Y = (y + (dy + ey)) % Y
  BY <1>4, <1>5
<1> QED
  BY <1>6 DEF At, x, y

LEMMA AtIs ==
  ASSUME NEW b \in BlockGrid, NEW dx \in Int, NEW dy \in Int
  PROVE  /\ At(b, dx, dy) \in BlockGrid
         /\ At(b, 0, 0) = b
<1>1. b[1] \in 0..X - 1 /\ b[2] \in 0..Y - 1 /\ b = <<b[1], b[2]>>
  BY DEF BlockGrid
<1> DEFINE x == b[1]
           y == b[2]
<1>2. x \in 0..X - 1 /\ y \in 0..Y - 1 /\ b = <<x, y>>
  BY <1>1
<1>3. (x + dx) % X \in 0..X - 1 /\ (y + dy) % Y \in 0..Y - 1
  <2> DEFINE u == x + dx
             v == y + dy
  <2>1. u \in Int /\ v \in Int
    BY <1>2, WorldFacts
  <2> HIDE DEF u, v
  <2>2. u % X \in 0..X - 1 /\ v % Y \in 0..Y - 1
    BY <2>1, WorldFacts, Division
  <2> QED
    BY <2>2 DEF u, v
<1>4. x % X = x /\ y % Y = y
  <2>1. x = X * 0 + x /\ y = Y * 0 + y
    BY <1>2, WorldFacts
  <2> QED
    BY <1>2, <2>1, WorldFacts, Remainder
<1>5. At(b, dx, dy) \in BlockGrid
  BY <1>3 DEF At, BlockGrid
<1>6. At(b, 0, 0) = b
  <2>1. x + 0 = x /\ y + 0 = y
    BY <1>2, WorldFacts
  <2> QED
    BY <1>2, <1>4, <2>1 DEF At
<1> QED
  BY <1>5, <1>6
-----------------------------------------------------------------------------
(* How far a wall is.                                                      *)

Steps   == (-1..1) \X (-1..1)
OpenCorners == {<<1, 1>>, <<1, -1>>, <<-1, 1>>, <<-1, -1>>, <<0, 0>>}

\* Along a diagonal, towards the open corner e of what is dx and dy off.
FacesOpen(e, dx, dy) ==
  LET k == Blocks(dx, dy) IN k > 0 /\ <<-dx, -dy>> = <<k * e[1], k * e[2]>>

HalfBlocks(e, dx, dy) == 2 * Blocks(dx, dy) + (IF FacesOpen(e, dx, dy) THEN 1 ELSE 0)

\* The same, case by case.
Diagonal(e, dx, dy) ==
  \/ e = <<1, 1>> /\ dx < 0 /\ dy = dx
  \/ e = <<1, -1>> /\ dx < 0 /\ dy = -dx
  \/ e = <<-1, 1>> /\ dx > 0 /\ dy = -dx
  \/ e = <<-1, -1>> /\ dx > 0 /\ dy = dx

LEMMA GapIs ==
  ASSUME NEW b, NEW dx, NEW dy
  PROVE  Gap(measured, b, dx, dy) = HalfBlocks(OpenCorner(measured[At(b, dx, dy)]), dx, dy)
BY DEF Gap, HalfBlocks, FacesOpen

LEMMA OpenCornerIs ==
  ASSUME NEW kind
  PROVE  OpenCorner(kind) \in OpenCorners /\ (kind \notin Halves => OpenCorner(kind) = <<0, 0>>)
BY DEF OpenCorner, OpenCorners, Halves

LEMMA FacesOpenIs ==
  ASSUME NEW e \in OpenCorners, NEW dx \in Int, NEW dy \in Int
  PROVE  /\ Blocks(dx, dy) \in Nat /\ HalfBlocks(e, dx, dy) \in Nat
         /\ (FacesOpen(e, dx, dy) <=> Diagonal(e, dx, dy))
<1>1. Blocks(dx, dy) \in Nat
  BY DEF Blocks, AbsOf
<1>2. \/ e = <<1, 1>> \/ e = <<1, -1>> \/ e = <<-1, 1>> \/ e = <<-1, -1>> \/ e = <<0, 0>>
  BY DEF OpenCorners
<1>3. e[1] \in Int /\ e[2] \in Int
  BY <1>2
<1> DEFINE k == Blocks(dx, dy)
<1>4. FacesOpen(e, dx, dy) <=> k > 0 /\ -dx = k * e[1] /\ -dy = k * e[2]
  BY DEF FacesOpen
<1>5. k * 1 = k /\ k * (-1) = -k /\ k * 0 = 0
  BY <1>1
<1>6. (FacesOpen(e, dx, dy) <=> Diagonal(e, dx, dy))
  <2>1. CASE e = <<1, 1>>
    BY <1>1, <1>4, <1>5, <2>1 DEF Blocks, AbsOf, Diagonal
  <2>2. CASE e = <<1, -1>>
    BY <1>1, <1>4, <1>5, <2>2 DEF Blocks, AbsOf, Diagonal
  <2>3. CASE e = <<-1, 1>>
    BY <1>1, <1>4, <1>5, <2>3 DEF Blocks, AbsOf, Diagonal
  <2>4. CASE e = <<-1, -1>>
    BY <1>1, <1>4, <1>5, <2>4 DEF Blocks, AbsOf, Diagonal
  <2>5. CASE e = <<0, 0>>
    BY <1>1, <1>4, <1>5, <2>5 DEF Blocks, AbsOf, Diagonal
  <2> QED
    BY <1>2, <2>1, <2>2, <2>3, <2>4, <2>5
<1>7. HalfBlocks(e, dx, dy) \in Nat
  BY <1>1 DEF HalfBlocks
<1> QED
  BY <1>1, <1>6, <1>7

(* A step on is at most two half blocks further, or three out of the open  *)
(* corner of the wall itself.                                              *)
LEMMA OneStepOff ==
  ASSUME NEW e \in OpenCorners, NEW dx \in Int, NEW dy \in Int, NEW d \in Steps
  PROVE  HalfBlocks(e, dx - d[1], dy - d[2])
           <= HalfBlocks(e, dx, dy) + 2 + (IF dx = 0 /\ dy = 0 /\ d = e THEN 1 ELSE 0)
<1>1. PICK d1 \in -1..1, d2 \in -1..1 : d = <<d1, d2>>
  BY DEF Steps
<1> DEFINE x == dx - d1
           y == dy - d2
<1>2. x \in Int /\ y \in Int /\ d[1] = d1 /\ d[2] = d2
  BY <1>1
<1>3. FacesOpen(e, x, y) =>
        FacesOpen(e, dx, dy) \/ (dx = 0 /\ dy = 0 /\ d = e) \/ Blocks(x, y) <= Blocks(dx, dy)
  <2>1. /\ (FacesOpen(e, dx, dy) <=> Diagonal(e, dx, dy))
        /\ (FacesOpen(e, x, y) <=> Diagonal(e, x, y))
    <3> HIDE DEF x, y
    <3> QED
      BY <1>2, FacesOpenIs
  <2>2. CASE e = <<1, 1>>
    BY <1>1, <2>1, <2>2 DEF Blocks, AbsOf, Diagonal
  <2>3. CASE e = <<1, -1>>
    BY <1>1, <2>1, <2>3 DEF Blocks, AbsOf, Diagonal
  <2>4. CASE e = <<-1, 1>>
    BY <1>1, <2>1, <2>4 DEF Blocks, AbsOf, Diagonal
  <2>5. CASE e = <<-1, -1>>
    BY <1>1, <2>1, <2>5 DEF Blocks, AbsOf, Diagonal
  <2>6. CASE e = <<0, 0>>
    BY <2>1, <2>6 DEF Diagonal
  <2> QED
    BY <2>2, <2>3, <2>4, <2>5, <2>6 DEF OpenCorners
<1>4. Blocks(x, y) <= Blocks(dx, dy) + 1
  BY <1>1 DEF Blocks, AbsOf
<1>5. Blocks(x, y) \in Nat /\ Blocks(dx, dy) \in Nat
  BY <1>2, FacesOpenIs
<1> DEFINE m == Blocks(x, y)
           n == Blocks(dx, dy)
<1>6. /\ HalfBlocks(e, x, y) = 2 * m + (IF FacesOpen(e, x, y) THEN 1 ELSE 0)
      /\ HalfBlocks(e, dx, dy) = 2 * n + (IF FacesOpen(e, dx, dy) THEN 1 ELSE 0)
  BY DEF HalfBlocks
<1> HIDE DEF m, n, x, y
<1>7. HalfBlocks(e, x, y) <= HalfBlocks(e, dx, dy) + 2 + (IF dx = 0 /\ dy = 0 /\ d = e THEN 1 ELSE 0)
  BY <1>3, <1>4, <1>5, <1>6 DEF m, n
<1> QED
  BY <1>2, <1>7 DEF x, y

Sign(n) == IF n > 0 THEN 1 ELSE IF n < 0 THEN -1 ELSE 0

(* A step towards it is two half blocks nearer.                            *)
LEMMA OneStepNearer ==
  ASSUME NEW e \in OpenCorners, NEW dx \in Int, NEW dy \in Int, Blocks(dx, dy) # 0
  PROVE  /\ <<-Sign(dx), -Sign(dy)>> \in Steps
         /\ Blocks(dx - Sign(dx), dy - Sign(dy)) = Blocks(dx, dy) - 1
         /\ HalfBlocks(e, dx - Sign(dx), dy - Sign(dy)) + 2 <= HalfBlocks(e, dx, dy)
         /\ e = <<-Sign(dx), -Sign(dy)>> /\ Blocks(dx, dy) = 1 => HalfBlocks(e, dx, dy) = 3
         /\ Blocks(dx, dy) > 1 => HalfBlocks(e, dx, dy) >= 3
<1> DEFINE x == dx - Sign(dx)
           y == dy - Sign(dy)
           m == Blocks(x, y)
           n == Blocks(dx, dy)
<1>1. x \in Int /\ y \in Int /\ <<-Sign(dx), -Sign(dy)>> \in Steps
  BY DEF Sign, Steps
<1>2. m = n - 1
  BY DEF Blocks, AbsOf, Sign
<1>3. m \in Nat /\ n \in Nat
  BY <1>1, FacesOpenIs
<1>9. /\ (FacesOpen(e, dx, dy) <=> Diagonal(e, dx, dy))
      /\ (FacesOpen(e, x, y) <=> Diagonal(e, x, y))
  <2> HIDE DEF x, y
  <2> QED
    BY <1>1, FacesOpenIs
<1>4. FacesOpen(e, x, y) => FacesOpen(e, dx, dy)
  <2>1. /\ x < 0 => dx < 0 /\ x = dx + 1
        /\ x > 0 => dx > 0 /\ x = dx - 1
        /\ y < 0 => dy < 0 /\ y = dy + 1
        /\ y > 0 => dy > 0 /\ y = dy - 1
    BY DEF Sign
  <2> HIDE DEF x, y
  <2> QED
    BY <1>1, <1>9, <2>1 DEF Diagonal
<1>5. /\ HalfBlocks(e, x, y) = 2 * m + (IF FacesOpen(e, x, y) THEN 1 ELSE 0)
      /\ HalfBlocks(e, dx, dy) = 2 * n + (IF FacesOpen(e, dx, dy) THEN 1 ELSE 0)
  BY DEF HalfBlocks
<1>6. e = <<-Sign(dx), -Sign(dy)>> /\ n = 1 => FacesOpen(e, dx, dy)
  <2> SUFFICES ASSUME e = <<-Sign(dx), -Sign(dy)>>, n = 1 PROVE FacesOpen(e, dx, dy)
    OBVIOUS
  <2>1. e[1] = -Sign(dx) /\ e[2] = -Sign(dy)
    OBVIOUS
  <2>2. dx \in -1..1 /\ dy \in -1..1 /\ (dx # 0 \/ dy # 0) /\ Sign(dx) = dx /\ Sign(dy) = dy
    BY DEF Blocks, AbsOf, Sign
  <2>3. \/ e = <<1, 1>> \/ e = <<1, -1>> \/ e = <<-1, 1>> \/ e = <<-1, -1>> \/ e = <<0, 0>>
    BY DEF OpenCorners
  <2> QED
    BY <1>9, <2>1, <2>2, <2>3 DEF Diagonal
<1> HIDE DEF m, n, x, y
<1>7. HalfBlocks(e, x, y) + 2 <= HalfBlocks(e, dx, dy) /\ (n > 1 => HalfBlocks(e, dx, dy) >= 3)
  BY <1>2, <1>3, <1>4, <1>5
<1>8. e = <<-Sign(dx), -Sign(dy)>> /\ n = 1 => HalfBlocks(e, dx, dy) = 3
  BY <1>3, <1>5, <1>6
<1> QED
  BY <1>1, <1>2, <1>7, <1>8 DEF x, y, m, n
-----------------------------------------------------------------------------
(* The queue at the start.                                                 *)

\* A column and a row have a number, and a number has them.
LEMMA BlocksInOrder ==
  /\ \A n \in 1..NumBlocks : InOrder(n) \in BlockGrid
  /\ \A b \in BlockGrid : \E n \in 1..NumBlocks : b = InOrder(n)
<1>1. ASSUME NEW n \in 1..NumBlocks PROVE InOrder(n) \in BlockGrid
  <2> DEFINE a == n - 1
             x == a \div Y
             y == a % Y
  <2>1. a \in Nat /\ a < X * Y
    BY WorldFacts DEF NumBlocks
  <2> HIDE DEF a
  <2>2. a = Y * x + y /\ y \in 0..Y - 1 /\ x \in Int
    BY <2>1, WorldFacts, Division
  <2> HIDE DEF x, y
  <2>3. x >= 0
    <3>1. x <= -1 => Y * x <= -Y
      BY <2>2, WorldFacts, SMT
    <3> QED
      BY <2>1, <2>2, <3>1, WorldFacts
  <2>4. x < X
    <3>1. x >= X => Y * x >= X * Y
      BY <2>2, WorldFacts, SMT
    <3> QED
      BY <2>1, <2>2, <3>1, WorldFacts, SMT
  <2>5. <<x, y>> \in BlockGrid
    BY <2>2, <2>3, <2>4, WorldFacts DEF BlockGrid
  <2> QED
    BY <2>5 DEF InOrder, a, x, y
<1>2. ASSUME NEW b \in BlockGrid PROVE \E n \in 1..NumBlocks : b = InOrder(n)
  <2>1. PICK x \in 0..X - 1, y \in 0..Y - 1 : b = <<x, y>>
    BY DEF BlockGrid
  <2> DEFINE a == Y * x + y
  <2>2. a \in Nat /\ a < X * Y
    <3>1. Y * x \in Nat /\ Y * x <= Y * (X - 1) /\ Y * (X - 1) = X * Y - Y
      BY WorldFacts, SMT
    <3>2. Y * x \in Nat /\ Y * x <= X * Y - Y /\ X * Y \in Nat
      BY <3>1, WorldFacts, SMT
    <3> QED
      BY <3>2, WorldFacts, SMT
  <2>3. a = Y * x + y
    OBVIOUS
  <2> HIDE DEF a
  <2>4. a % Y = y
    BY <2>2, <2>3, WorldFacts, Remainder
  <2>5. a = Y * (a \div Y) + y /\ a \div Y \in Int
    BY <2>2, <2>4, WorldFacts, Division
  <2> DEFINE z == a \div Y
  <2>6. z = x
    <3>1. z \in Int /\ Y * z = Y * x
      BY <2>3, <2>5, WorldFacts, SMT
    <3> HIDE DEF z
    <3>2. Y * (z - x) = 0
      BY <3>1, WorldFacts, SMT
    <3>3. z - x > 0 => Y * (z - x) > 0
      BY <3>1, WorldFacts, SMT
    <3>4. z - x < 0 => Y * (z - x) < 0
      BY <3>1, WorldFacts, SMT
    <3> QED
      BY <3>1, <3>2, <3>3, <3>4
  <2>7. a + 1 \in 1..NumBlocks /\ (a + 1) - 1 = a
    BY <2>2, WorldFacts DEF NumBlocks
  <2>8. InOrder(a + 1) = b
    BY <2>1, <2>4, <2>6, <2>7 DEF InOrder
  <2> QED
    BY <2>7, <2>8
<1> QED
  BY <1>1, <1>2

LEMMA NumberIs ==
  ASSUME NEW n \in 1..NumBlocks
  PROVE  InOrder(n) \in BlockGrid
BY BlocksInOrder

Lists    == [queue : [Places -> BlockGrid], qback : Nat]
NoneYet  == [queue |-> [i \in Places |-> <<0, 0>>], qback |-> 0]

LEMMA NotedTyped ==
  ASSUME NEW m, NEW n \in 1..NumBlocks, NEW s \in Lists
  PROVE  Noted(m, n, s) \in Lists
<1>1. s.queue \in [Places -> BlockGrid] /\ s.qback \in Nat /\ InOrder(n) \in BlockGrid
  BY NumberIs DEF Lists
<1> DEFINE q == [s.queue EXCEPT ![s.qback] = InOrder(n)]
<1>2. q \in [Places -> BlockGrid]
  BY <1>1
<1> HIDE DEF q
<1>3. [queue |-> q, qback |-> s.qback + 1] \in Lists
  BY <1>1, <1>2 DEF Lists
<1> QED
  BY <1>3 DEF Noted, q

LEMMA NoneYetTyped == NoneYet \in Lists
BY WorldFacts DEF NoneYet, Lists

WallStep(m) == [x \in (1..NumBlocks) \X Lists |-> Noted(m, x[1], x[2])]

(* The loop over the blocks keeps to its equations.                        *)
LEMMA WallsOfIs ==
  ASSUME NEW m
  PROVE  \E f : /\ f \in [0..NumBlocks -> Lists] /\ f[0] = NoneYet /\ WallsOf(m) = f[NumBlocks]
                /\ \A n \in 1..NumBlocks : f[n] = Noted(m, n, f[n - 1])
<1> DEFINE Loop(h) == h = [n \in 0..NumBlocks |->
                             IF n = 0 THEN NoneYet ELSE Noted(m, n, h[n - 1])]
<1>0. NumBlocks \in Nat
  BY WorldFacts
<1>1. WallStep(m) \in Rounded(NumBlocks, Lists)
  <2>1. ASSUME NEW x \in (1..NumBlocks) \X Lists PROVE (Noted(m, x[1], x[2])) \in Lists
    <3>1. x[1] \in 1..NumBlocks /\ x[2] \in Lists
      OBVIOUS
    <3> QED
      BY <3>1, NotedTyped
  <2> QED
    BY <2>1 DEF WallStep, Rounded
<1>2. PICK f : /\ f \in [0..NumBlocks -> Lists] /\ f[0] = NoneYet
               /\ \A n \in 1..NumBlocks : f[n] = WallStep(m)[<<n, f[n - 1]>>]
  <2>1. PICK f : Run(f, NumBlocks, Lists, NoneYet, WallStep(m))
    BY <1>0, <1>1, Iterated, NoneYetTyped
  <2> QED
    BY <2>1 DEF Run
<1>3. ASSUME NEW n \in 1..NumBlocks PROVE f[n] = Noted(m, n, f[n - 1])
  <2>1. f[n - 1] \in Lists
    BY <1>0, <1>2
  <2>2. <<n, f[n - 1]>> \in (1..NumBlocks) \X Lists
    BY <2>1
  <2>3. WallStep(m)[<<n, f[n - 1]>>] = Noted(m, n, f[n - 1])
    BY <2>2, Zenon DEF WallStep
  <2> QED
    BY <1>2, <2>3
<1>4. Loop(f)
  <2> DEFINE g == [n \in 0..NumBlocks |-> IF n = 0 THEN NoneYet ELSE Noted(m, n, f[n - 1])]
  <2>1. ASSUME NEW n \in 0..NumBlocks PROVE f[n] = g[n]
    <3>1. n = 0 \/ n \in 1..NumBlocks
      BY <1>0
    <3> QED
      BY <1>2, <1>3, <3>1
  <2>2. f = [n \in 0..NumBlocks |-> f[n]]
    BY <1>2
  <2> HIDE DEF g
  <2>3. g = [n \in 0..NumBlocks |-> g[n]]
    BY DEF g
  <2>4. f = g
    BY <2>1, <2>2, <2>3
  <2> QED
    BY <2>4 DEF g
<1> DEFINE after == CHOOSE h : Loop(h)
<1>5. Loop(after)
  <2> HIDE DEF Loop
  <2> QED
    BY <1>4
<1>6. WallsOf(m) = after[NumBlocks]
  BY DEF WallsOf, NoneYet
<1> HIDE DEF after
<1>7. \A n \in 0..NumBlocks : after[n] = IF n = 0 THEN NoneYet ELSE Noted(m, n, after[n - 1])
  BY <1>5
<1>8. \A n \in 0..NumBlocks : after[n] = f[n]
  <2> DEFINE Same == {n \in 0..NumBlocks : after[n] = f[n]}
  <2>1. 0 \in Same
    BY <1>0, <1>2, <1>7
  <2>2. ASSUME NEW n \in 1..NumBlocks, n - 1 \in Same PROVE n \in Same
    <3>1. n \in 0..NumBlocks /\ n # 0 /\ after[n - 1] = f[n - 1]
      BY <1>0, <2>2
    <3>2. after[n] = Noted(m, n, after[n - 1])
      BY <1>7, <3>1
    <3> QED
      BY <1>3, <3>1, <3>2
  <2> HIDE DEF Same
  <2>3. \A n \in 0..NumBlocks : n \in Same
    BY <1>0, <2>1, <2>2, UpTo
  <2> QED
    BY <2>3 DEF Same
<1>9. NumBlocks \in 0..NumBlocks
  BY <1>0
<1> QED
  BY <1>2, <1>3, <1>6, <1>8, <1>9

\* After n blocks.
ListsWalls(m, n, s) ==
  /\ s.queue \in [Places -> BlockGrid] /\ s.qback \in 0..n
  /\ s.qback = n => \A j \in 1..n : m[InOrder(j)] \in Solid
  /\ \A j \in 1..n : m[InOrder(j)] \in Solid => \E i \in 0..s.qback - 1 : s.queue[i] = InOrder(j)

LEMMA NotedKeeps ==
  ASSUME NEW m, NEW n \in 1..NumBlocks, NEW s, ListsWalls(m, n - 1, s)
  PROVE  ListsWalls(m, n, Noted(m, n, s))
<1> DEFINE b == InOrder(n)
           k == s.qback
           w == [s.queue EXCEPT ![k] = b]
<1>1. s.queue \in [Places -> BlockGrid] /\ k \in 0..n - 1 /\ b \in BlockGrid
  BY NumberIs DEF ListsWalls
<1>2. k \in Places /\ n \in Nat
  BY <1>1, WorldFacts DEF Places
<1>3. CASE m[b] \in Solid
  <2>1. w \in [Places -> BlockGrid] /\ w[k] = b /\ \A i \in Places : i # k => w[i] = s.queue[i]
    BY <1>1, <1>2
  <2>2. ASSUME NEW j \in 1..n, m[InOrder(j)] \in Solid PROVE \E i \in 0..k : w[i] = InOrder(j)
    <3>1. CASE j = n
      BY <1>1, <2>1, <3>1
    <3>2. CASE j # n
      <4>1. PICK i \in 0..k - 1 : s.queue[i] = InOrder(j)
        BY <2>2, <3>2 DEF ListsWalls
      <4>2. i \in Places /\ i # k /\ i \in 0..k
        BY <1>1, <1>2, <4>1, WorldFacts DEF Places
      <4> QED
        BY <2>1, <4>1, <4>2
    <3> QED
      BY <3>1, <3>2
  <2>3. k + 1 = n => \A j \in 1..n : m[InOrder(j)] \in Solid
    <3> SUFFICES ASSUME k + 1 = n, NEW j \in 1..n PROVE m[InOrder(j)] \in Solid
      OBVIOUS
    <3>1. j = n \/ j \in 1..n - 1
      OBVIOUS
    <3> QED
      BY <1>1, <1>3, <3>1 DEF ListsWalls
  <2>4. Noted(m, n, s) = [queue |-> w, qback |-> k + 1]
    BY <1>3 DEF Noted
  <2> HIDE DEF w, k, b
  <2>5. (k + 1) - 1 = k /\ k + 1 \in 0..n
    BY <1>1, <1>2
  <2> QED
    BY <2>1, <2>2, <2>3, <2>4, <2>5 DEF ListsWalls
<1>4. CASE m[b] \notin Solid
  <2>1. Noted(m, n, s) = s
    BY <1>4 DEF Noted
  <2>2. k # n /\ k \in 0..n
    BY <1>1
  <2>3. ASSUME NEW j \in 1..n, m[InOrder(j)] \in Solid PROVE \E i \in 0..k - 1 : s.queue[i] = InOrder(j)
    <3>1. j \in 1..n - 1
      BY <1>4, <2>3
    <3> QED
      BY <2>3, <3>1 DEF ListsWalls
  <2> QED
    BY <1>1, <2>1, <2>2, <2>3 DEF ListsWalls
<1> QED
  BY <1>3, <1>4

(* Every wall is in the queue.                                             *)
LEMMA WallsAreListed ==
  ASSUME NEW m
  PROVE  ListsWalls(m, NumBlocks, WallsOf(m))
<1>1. PICK f : /\ f \in [0..NumBlocks -> Lists] /\ f[0] = NoneYet /\ WallsOf(m) = f[NumBlocks]
               /\ \A n \in 1..NumBlocks : f[n] = Noted(m, n, f[n - 1])
  BY WallsOfIs
<1> DEFINE T == {n \in 0..NumBlocks : ListsWalls(m, n, f[n])}
<1>2. 0 \in T
  BY <1>1, WorldFacts DEF ListsWalls, NoneYet
<1>3. ASSUME NEW n \in 1..NumBlocks, n - 1 \in T PROVE n \in T
  <2>1. ListsWalls(m, n - 1, f[n - 1]) /\ n \in 0..NumBlocks
    BY <1>3, WorldFacts
  <2>2. ListsWalls(m, n, f[n])
    BY <1>1, <2>1, NotedKeeps
  <2> QED
    BY <2>1, <2>2
<1> HIDE DEF T
<1>4. NumBlocks \in T
  BY <1>2, <1>3, UpTo, WorldFacts
<1> QED
  BY <1>1, <1>4 DEF T
-----------------------------------------------------------------------------
(* The search.                                                             *)

LEMMA SideIs ==
  /\ \A n \in 1..9 : Side(n) \in Steps
  /\ \A d \in Steps : \E n \in 1..9 : d = Side(n)
<1>1. /\ Side(1) = <<-1, -1>> /\ Side(2) = <<-1, 0>> /\ Side(3) = <<-1, 1>>
      /\ Side(4) = <<0, -1>> /\ Side(5) = <<0, 0>> /\ Side(6) = <<0, 1>>
      /\ Side(7) = <<1, -1>> /\ Side(8) = <<1, 0>> /\ Side(9) = <<1, 1>>
  BY DEF Side
<1>2. ASSUME NEW n \in 1..9 PROVE Side(n) \in Steps
  <2>1. n \in {1, 2, 3, 4, 5, 6, 7, 8, 9}
    OBVIOUS
  <2> QED
    BY <1>1, <2>1 DEF Steps
<1>3. ASSUME NEW d \in Steps PROVE \E n \in 1..9 : d = Side(n)
  <2>1. PICK x \in {-1, 0, 1}, y \in {-1, 0, 1} : d = <<x, y>>
    BY DEF Steps
  <2>2. \E n \in {1, 2, 3, 4, 5, 6, 7, 8, 9} : d = Side(n)
    BY <1>1, <2>1
  <2> QED
    BY <2>2
<1> QED
  BY <1>2, <1>3

Measures     == [BlockGrid -> 0..MaxDist]
SearchStates == [walldist : Measures, queue : [Places -> BlockGrid], qback : Nat, lapped : BOOLEAN]

\* The search has its types.
Searching == Search \in SearchStates

LEMMA NewDistIs ==
  ASSUME Searching, NEW b \in BlockGrid, NEW d
  PROVE  /\ walldist[b] \in 0..MaxDist
         /\ NewDist(b, d) \in Nat /\ NewDist(b, d) >= walldist[b] + 2
         /\ NewDist(b, d) = walldist[b] + 2 + (IF walldist[b] = 0 /\ d = OpenCorner(measured[b]) THEN 1 ELSE 0)
<1>1. walldist \in Measures
  BY DEF Searching, Search, SearchStates
<1>2. walldist[b] \in 0..MaxDist
  BY <1>1 DEF Measures
<1> QED
  BY <1>2, WorldFacts DEF NewDist

LEMMA NearedTyped ==
  ASSUME Searching, NEW b \in BlockGrid, NEW n \in 1..9, NEW front, NEW s \in SearchStates
  PROVE  Neared(b, Side(n), front, s) \in SearchStates
<1> DEFINE d == Side(n)
           c == At(b, d[1], d[2])
           dist == NewDist(b, d)
           w == [s.walldist EXCEPT ![c] = dist]
           q == [s.queue EXCEPT ![s.qback] = c]
<1>1. d[1] \in Int /\ d[2] \in Int
  BY SideIs DEF Steps
<1>2. c \in BlockGrid
  BY <1>1, AtIs
<1>3. s.walldist \in Measures /\ s.queue \in [Places -> BlockGrid] /\ s.qback \in Nat /\ s.lapped \in BOOLEAN
  BY DEF SearchStates
<1>4. CASE dist < s.walldist[c]
  <2>1. dist \in Nat /\ s.walldist[c] \in 0..MaxDist
    BY <1>2, <1>3, NewDistIs DEF Measures
  <2>2. dist \in 0..MaxDist
    BY <1>4, <2>1, WorldFacts
  <2> HIDE DEF dist, c
  <2>3. w \in Measures /\ q \in [Places -> BlockGrid]
    BY <1>2, <1>3, <2>2 DEF Measures
  <2>4. Further(s.qback) \in Nat
    BY <1>3 DEF Further
  <2> HIDE DEF w, q
  <2>5. [walldist |-> w, queue |-> q, qback |-> Further(s.qback),
         lapped |-> s.lapped \/ Further(s.qback) = front] \in SearchStates
    BY <1>3, <2>3, <2>4 DEF SearchStates
  <2> QED
    BY <1>4, <2>5, Zenon DEF Neared, w, q, c, d, dist
<1>5. CASE ~(dist < s.walldist[c])
  BY <1>5 DEF Neared
<1> QED
  BY <1>4, <1>5

NearStep(b, front) == [x \in (1..9) \X SearchStates |-> Neared(b, Side(x[1]), front, x[2])]

(* The loops over the neighbours keep to their equations.                  *)
LEMMA AllNearedIs ==
  ASSUME Searching, NEW b \in BlockGrid, NEW front, walldist[b] + 2 < 255
  PROVE  \E f : /\ f \in [0..9 -> SearchStates] /\ f[0] = Search /\ AllNeared(b, front) = f[9]
                /\ \A n \in 1..9 : f[n] = Neared(b, Side(n), front, f[n - 1])
<1> DEFINE Loop(h) == h = [n \in 0..9 |->
                             IF n = 0 THEN Search ELSE Neared(b, Side(n), front, h[n - 1])]
<1>0. 9 \in Nat
  OBVIOUS
<1>1. NearStep(b, front) \in Rounded(9, SearchStates)
  <2>1. ASSUME NEW x \in (1..9) \X SearchStates PROVE (Neared(b, Side(x[1]), front, x[2])) \in SearchStates
    <3>1. x[1] \in 1..9 /\ x[2] \in SearchStates
      OBVIOUS
    <3> QED
      BY <3>1, NearedTyped
  <2> QED
    BY <2>1 DEF NearStep, Rounded
<1>2. PICK f : /\ f \in [0..9 -> SearchStates] /\ f[0] = Search
               /\ \A n \in 1..9 : f[n] = NearStep(b, front)[<<n, f[n - 1]>>]
  <2>1. PICK f : Run(f, 9, SearchStates, Search, NearStep(b, front))
    BY <1>0, <1>1, Iterated DEF Searching
  <2> QED
    BY <2>1 DEF Run
<1>3. ASSUME NEW n \in 1..9 PROVE f[n] = Neared(b, Side(n), front, f[n - 1])
  <2>1. f[n - 1] \in SearchStates
    BY <1>0, <1>2
  <2>2. <<n, f[n - 1]>> \in (1..9) \X SearchStates
    BY <2>1
  <2>3. NearStep(b, front)[<<n, f[n - 1]>>] = Neared(b, Side(n), front, f[n - 1])
    BY <2>2, Zenon DEF NearStep
  <2> QED
    BY <1>2, <2>3
<1>4. Loop(f)
  <2> DEFINE g == [n \in 0..9 |-> IF n = 0 THEN Search ELSE Neared(b, Side(n), front, f[n - 1])]
  <2>1. ASSUME NEW n \in 0..9 PROVE f[n] = g[n]
    <3>1. n = 0 \/ n \in 1..9
      BY <1>0
    <3> QED
      BY <1>2, <1>3, <3>1
  <2>2. f = [n \in 0..9 |-> f[n]]
    BY <1>2
  <2> HIDE DEF g
  <2>3. g = [n \in 0..9 |-> g[n]]
    BY DEF g
  <2>4. f = g
    BY <2>1, <2>2, <2>3
  <2> QED
    BY <2>4 DEF g
<1> DEFINE after == CHOOSE h : Loop(h)
<1>5. Loop(after)
  <2> HIDE DEF Loop
  <2> QED
    BY <1>4
<1>6. AllNeared(b, front) = after[9]
  BY DEF AllNeared
<1> HIDE DEF after
<1>7. \A n \in 0..9 : after[n] = IF n = 0 THEN Search ELSE Neared(b, Side(n), front, after[n - 1])
  BY <1>5
<1>8. \A n \in 0..9 : after[n] = f[n]
  <2> DEFINE Same == {n \in 0..9 : after[n] = f[n]}
  <2>1. 0 \in Same
    BY <1>0, <1>2, <1>7
  <2>2. ASSUME NEW n \in 1..9, n - 1 \in Same PROVE n \in Same
    <3>1. n \in 0..9 /\ n # 0 /\ after[n - 1] = f[n - 1]
      BY <1>0, <2>2
    <3>2. after[n] = Neared(b, Side(n), front, after[n - 1])
      BY <1>7, <3>1
    <3> QED
      BY <1>3, <3>1, <3>2
  <2> HIDE DEF Same
  <2>3. \A n \in 0..9 : n \in Same
    BY <1>0, <2>1, <2>2, UpTo
  <2> QED
    BY <2>3 DEF Same
<1>9. 9 \in 0..9
  BY <1>0
<1> QED
  BY <1>2, <1>3, <1>6, <1>8, <1>9
-----------------------------------------------------------------------------
(* The queue.                                                              *)

\* The places of the queue between f and k.
InRing(i, f, k) == IF f <= k THEN f <= i /\ i < k ELSE i >= f \/ i < k

Waits(c, q, f, k) == \E i \in Places : InRing(i, f, k) /\ q[i] = c

LEMMA RingShrinks ==
  ASSUME NEW f \in Places, NEW k \in 0..NumBlocks, f # k
  PROVE  /\ Further(f) \in Places
         /\ \A i \in Places : InRing(i, f, k) /\ i # f => InRing(i, Further(f), k)
BY WorldFacts DEF Places, InRing, Further

LEMMA RingGrows ==
  ASSUME NEW f \in Places, NEW k \in Places, Further(k) # f
  PROVE  /\ ~InRing(k, f, k) /\ InRing(k, f, Further(k))
         /\ \A i \in Places : InRing(i, f, k) => InRing(i, f, Further(k))
BY WorldFacts DEF Places, InRing, Further

LEMMA RingIsEmpty ==
  ASSUME NEW f \in Places, NEW i \in Places
  PROVE  ~InRing(i, f, f)
BY WorldFacts DEF Places, InRing
-----------------------------------------------------------------------------
(* What is measured so far.                                                *)

ZeroIsWall(w) == \A b \in BlockGrid : w[b] = 0 <=> measured[b] \in Solid

\* There is a wall as near as that.
BackedBy(w, b) ==
  \/ w[b] = MaxDist
  \/ \E dx, dy \in Int :
       /\ measured[At(b, dx, dy)] \in Solid
       /\ HalfBlocks(OpenCorner(measured[At(b, dx, dy)]), dx, dy) <= w[b]

\* Its neighbours are as near as it can make them.
Relaxed(w, c) ==
  \A d \in Steps :
    w[At(c, d[1], d[2])] <= w[c] + 2 + (IF w[c] = 0 /\ d = OpenCorner(measured[c]) THEN 1 ELSE 0)

Founded(s) ==
  /\ ZeroIsWall(s.walldist) /\ \A b \in BlockGrid : BackedBy(s.walldist, b)
  /\ s.qback \in 0..NumBlocks
  /\ s.qback = NumBlocks => \A b \in BlockGrid : measured[b] \in Solid

\* The inductive invariant: who is not in the queue has passed on what it knows.
WallInv ==
  /\ Searching /\ Founded(Search) /\ qfront \in Places
  /\ ~lapped => \A c \in BlockGrid : Waits(c, queue, qfront, qback) \/ Relaxed(walldist, c)

\* After n neighbours of b.
NearedSoFar(b, front, n, s) ==
  /\ s \in SearchStates /\ Founded(s)
  /\ \A c \in BlockGrid : s.walldist[c] <= walldist[c]
  /\ s.walldist[b] = walldist[b]
  /\ ~s.lapped => \A c \in BlockGrid \ {b} : Waits(c, s.queue, front, s.qback) \/ Relaxed(s.walldist, c)
  /\ \A j \in 1..n : s.walldist[At(b, Side(j)[1], Side(j)[2])] <= NewDist(b, Side(j))

(* What is nearer by way of b has a wall as near as that.                  *)
LEMMA NearerIsBacked ==
  ASSUME Searching, Founded(Search), NEW b \in BlockGrid, NEW d \in Steps, BackedBy(walldist, b),
         NewDist(b, d) < MaxDist
  PROVE  \E dx, dy \in Int :
           /\ measured[At(At(b, d[1], d[2]), dx, dy)] \in Solid
           /\ HalfBlocks(OpenCorner(measured[At(At(b, d[1], d[2]), dx, dy)]), dx, dy) <= NewDist(b, d)
<1>1. d[1] \in Int /\ d[2] \in Int
  BY DEF Steps
<1>2. /\ walldist[b] \in 0..MaxDist
      /\ NewDist(b, d) \in Nat /\ NewDist(b, d) >= walldist[b] + 2
      /\ NewDist(b, d) = walldist[b] + 2 + (IF walldist[b] = 0 /\ d = OpenCorner(measured[b]) THEN 1 ELSE 0)
  BY NewDistIs
<1>3. walldist[b] # MaxDist
  BY <1>2, WorldFacts
<1>4. PICK dx \in Int, dy \in Int : /\ measured[At(b, dx, dy)] \in Solid
                                    /\ HalfBlocks(OpenCorner(measured[At(b, dx, dy)]), dx, dy) <= walldist[b]
  BY <1>3 DEF BackedBy
<1> DEFINE c == At(b, d[1], d[2])
           x == dx - d[1]
           y == dy - d[2]
           e == OpenCorner(measured[At(b, dx, dy)])
<1>5. At(c, x, y) = At(b, dx, dy)
  <2>1. x \in Int /\ y \in Int /\ d[1] + x = dx /\ d[2] + y = dy
    BY <1>1
  <2> HIDE DEF x, y
  <2> DEFINE u == d[1]
             v == d[2]
  <2>3. u \in Int /\ v \in Int
    BY <1>1
  <2> HIDE DEF u, v
  <2>4. At(At(b, u, v), x, y) = At(b, u + x, v + y)
    BY <2>1, <2>3, AtTwice
  <2>2. At(c, x, y) = At(b, d[1] + x, d[2] + y)
    BY <2>4 DEF u, v
  <2> QED
    BY <2>1, <2>2
<1>6. e \in OpenCorners /\ HalfBlocks(e, dx, dy) \in Nat /\ x \in Int /\ y \in Int
  BY <1>1, OpenCornerIs, FacesOpenIs
<1>7. HalfBlocks(e, x, y) \in Nat
  <2> HIDE DEF e, x, y
  <2> QED
    BY <1>6, FacesOpenIs
<1>8. HalfBlocks(e, x, y) <= HalfBlocks(e, dx, dy) + 2 + (IF dx = 0 /\ dy = 0 /\ d = e THEN 1 ELSE 0)
  BY <1>6, OneStepOff
<1>9. dx = 0 /\ dy = 0 => At(b, dx, dy) = b /\ walldist[b] = 0
  <2>1. At(b, 0, 0) = b
    BY AtIs
  <2>2. ZeroIsWall(walldist)
    BY DEF Founded, Search
  <2> QED
    BY <1>4, <2>1, <2>2 DEF ZeroIsWall
<1>10. dx = 0 /\ dy = 0 /\ d = e => walldist[b] = 0 /\ d = OpenCorner(measured[b])
  BY <1>9
<1>11. HalfBlocks(e, x, y) <= NewDist(b, d)
  <2>1. HalfBlocks(e, dx, dy) <= walldist[b]
    BY <1>4
  <2> HIDE DEF e, x, y
  <2> QED
    BY <1>2, <1>6, <1>7, <1>8, <1>10, <2>1
<1>12. measured[At(c, x, y)] \in Solid /\ HalfBlocks(OpenCorner(measured[At(c, x, y)]), x, y) <= NewDist(b, d)
  BY <1>4, <1>5, <1>11
<1> QED
  BY <1>6, <1>12

LEMMA NearedKeeps ==
  ASSUME Searching, Founded(Search), NEW b \in BlockGrid, NEW n \in 1..9, NEW front \in Places,
         NEW s, NearedSoFar(b, front, n - 1, s)
  PROVE  NearedSoFar(b, front, n, Neared(b, Side(n), front, s))
<1> DEFINE d == Side(n)
           c == At(b, d[1], d[2])
           dist == NewDist(b, d)
           k == s.qback
           w == [s.walldist EXCEPT ![c] = dist]
           q == [s.queue EXCEPT ![k] = c]
           t == Neared(b, d, front, s)
<1>1. d \in Steps /\ d[1] \in Int /\ d[2] \in Int
  BY SideIs DEF Steps
<1>2. c \in BlockGrid
  BY <1>1, AtIs
<1>3. s \in SearchStates /\ Founded(s)
  BY DEF NearedSoFar
<1>4. /\ s.walldist \in Measures /\ s.queue \in [Places -> BlockGrid] /\ k \in 0..NumBlocks
      /\ s.lapped \in BOOLEAN
  BY <1>3 DEF SearchStates, Founded
<1>5. dist \in Nat /\ dist >= walldist[b] + 2 /\ walldist[b] \in 0..MaxDist
  BY NewDistIs
<1>6. /\ \A x \in BlockGrid : s.walldist[x] \in 0..MaxDist
      /\ \A x \in BlockGrid : s.walldist[x] <= walldist[x]
      /\ \A x \in BlockGrid : walldist[x] \in 0..MaxDist
      /\ s.walldist[b] = walldist[b]
  BY <1>4, NewDistIs DEF NearedSoFar, Measures
<1>7. t \in SearchStates
  BY <1>3, NearedTyped
<1>8. CASE ~(dist < s.walldist[c])
  <2>1. t = s
    BY <1>8 DEF Neared
  <2>2. s.walldist[c] <= dist
    BY <1>2, <1>5, <1>6, <1>8
  <2>3. ASSUME NEW j \in 1..n PROVE s.walldist[At(b, Side(j)[1], Side(j)[2])] <= NewDist(b, Side(j))
    <3>1. CASE j = n
      BY <2>2, <3>1
    <3>2. CASE j # n
      <4>1. j \in 1..n - 1
        BY <3>2
      <4> QED
        BY <4>1 DEF NearedSoFar
    <3> QED
      BY <3>1, <3>2
  <2> HIDE DEF t, d
  <2>4. NearedSoFar(b, front, n, s)
    BY <2>3 DEF NearedSoFar
  <2> QED
    BY <2>1, <2>4 DEF t, d
<1>9. CASE dist < s.walldist[c]
  <2>1. t = [walldist |-> w, queue |-> q, qback |-> Further(k), lapped |-> s.lapped \/ Further(k) = front]
    BY <1>9 DEF Neared
  <2>2. t.walldist = w /\ t.queue = q /\ t.qback = Further(k) /\ t.lapped = (s.lapped \/ Further(k) = front)
    BY <2>1
  <2> HIDE DEF t
  <2>3. c # b /\ s.walldist[c] # 0 /\ dist # 0 /\ dist < MaxDist
    BY <1>2, <1>5, <1>6, <1>9, WorldFacts
  <2>4. measured[c] \notin Solid
    BY <1>2, <1>3, <2>3 DEF Founded, ZeroIsWall
  <2>5. k \in Places /\ Further(k) \in 0..NumBlocks /\ Further(k) # NumBlocks
    <3>1. k # NumBlocks
      BY <1>2, <1>3, <2>4 DEF Founded
    <3> QED
      BY <1>4, <3>1, WorldFacts DEF Places, Further
  <2>6. /\ w \in [BlockGrid -> Int] /\ w[c] = dist
        /\ \A x \in BlockGrid : x # c => w[x] = s.walldist[x]
    <3> HIDE DEF c, dist
    <3> QED
      BY <1>2, <1>4, <1>5, WorldFacts DEF Measures
  <2>7. /\ q[k] = c /\ \A i \in Places : i # k => q[i] = s.queue[i]
    <3> HIDE DEF c
    <3> QED
      BY <1>2, <1>4, <2>5
  <2>8. \A x \in BlockGrid : w[x] <= s.walldist[x] /\ w[x] \in Int
    <3> SUFFICES ASSUME NEW x \in BlockGrid PROVE w[x] <= s.walldist[x] /\ w[x] \in Int
      OBVIOUS
    <3> HIDE DEF w, c, dist
    <3>1. CASE x = c
      BY <1>5, <1>6, <1>9, <2>6, <3>1
    <3>2. CASE x # c
      BY <1>6, <2>6, <3>2
    <3> QED
      BY <3>1, <3>2
  <2> HIDE DEF w, q
  <2>9. ZeroIsWall(w)
    <3> SUFFICES ASSUME NEW x \in BlockGrid PROVE w[x] = 0 <=> measured[x] \in Solid
      BY DEF ZeroIsWall
    <3>1. CASE x = c
      BY <2>3, <2>4, <2>6, <3>1
    <3>2. CASE x # c
      BY <1>3, <2>6, <3>2 DEF Founded, ZeroIsWall
    <3> QED
      BY <3>1, <3>2
  <2>10. ASSUME NEW x \in BlockGrid PROVE BackedBy(w, x)
    <3>1. CASE x = c
      <4>1. BackedBy(walldist, b)
        BY DEF Founded, Search
      <4>2. \E dx, dy \in Int : /\ measured[At(c, dx, dy)] \in Solid
                                /\ HalfBlocks(OpenCorner(measured[At(c, dx, dy)]), dx, dy) <= dist
        BY <1>1, <2>3, <4>1, NearerIsBacked
      <4> HIDE DEF c, dist
      <4> QED
        BY <2>6, <3>1, <4>2 DEF BackedBy
    <3>2. CASE x # c
      <4>1. w[x] = s.walldist[x] /\ BackedBy(s.walldist, x)
        BY <1>3, <2>6, <3>2 DEF Founded
      <4> HIDE DEF c
      <4> QED
        BY <4>1 DEF BackedBy
    <3> QED
      BY <3>1, <3>2
  <2>11. Founded(t)
    BY <2>2, <2>5, <2>9, <2>10 DEF Founded
  <2>12. /\ \A x \in BlockGrid : w[x] <= walldist[x]
         /\ w[b] = walldist[b]
    <3> HIDE DEF c
    <3>1. w[b] = walldist[b]
      BY <1>6, <2>3, <2>6
    <3>2. ASSUME NEW x \in BlockGrid PROVE w[x] <= walldist[x]
      <4>1. /\ w[x] <= s.walldist[x] /\ w[x] \in Int /\ s.walldist[x] \in 0..MaxDist
            /\ s.walldist[x] <= walldist[x] /\ walldist[x] \in 0..MaxDist
        BY <1>6, <2>8
      <4> QED
        BY <4>1, WorldFacts
    <3> QED
      BY <3>1, <3>2
  <2>13. ASSUME ~t.lapped, NEW x \in BlockGrid \ {b}
         PROVE  Waits(x, q, front, Further(k)) \/ Relaxed(w, x)
    <3>1. ~s.lapped /\ Further(k) # front
      BY <2>2, <2>13
    <3>2. /\ ~InRing(k, front, k) /\ InRing(k, front, Further(k))
          /\ \A i \in Places : InRing(i, front, k) => InRing(i, front, Further(k))
      BY <2>5, <3>1, RingGrows
    <3>3. CASE x = c
      BY <2>5, <2>7, <3>2, <3>3 DEF Waits
    <3>4. CASE x # c /\ Waits(x, s.queue, front, k)
      <4>1. PICK i \in Places : InRing(i, front, k) /\ s.queue[i] = x
        BY <3>4 DEF Waits
      <4>2. i # k
        BY <3>2, <4>1
      <4> QED
        BY <2>7, <3>2, <4>1, <4>2 DEF Waits
    <3>5. CASE x # c /\ Relaxed(s.walldist, x)
      <4>1. w[x] = s.walldist[x] /\ s.walldist[x] \in 0..MaxDist
        BY <1>6, <2>6, <3>5
      <4>2. ASSUME NEW e \in Steps
            PROVE  w[At(x, e[1], e[2])] <= w[x] + 2 + (IF w[x] = 0 /\ e = OpenCorner(measured[x]) THEN 1 ELSE 0)
        <5> DEFINE y == At(x, e[1], e[2])
                   r == s.walldist[x] + 2 + (IF s.walldist[x] = 0 /\ e = OpenCorner(measured[x]) THEN 1 ELSE 0)
        <5>1. e[1] \in Int /\ e[2] \in Int
          BY DEF Steps
        <5>2. y \in BlockGrid
          BY <5>1, AtIs
        <5>3. s.walldist[y] <= r
          BY <3>5 DEF Relaxed
        <5>4. r \in Int
          BY <4>1
        <5> HIDE DEF y, r
        <5>5. w[y] <= r
          BY <1>6, <2>8, <5>2, <5>3, <5>4
        <5> QED
          BY <4>1, <5>5 DEF y, r
      <4> QED
        BY <4>2 DEF Relaxed
    <3>6. Waits(x, s.queue, front, k) \/ Relaxed(s.walldist, x)
      BY <3>1 DEF NearedSoFar
    <3> QED
      BY <3>3, <3>4, <3>5, <3>6
  <2>14. ASSUME NEW j \in 1..n PROVE w[At(b, Side(j)[1], Side(j)[2])] <= NewDist(b, Side(j))
    <3>1. CASE j = n
      <4>1. w[c] <= dist
        <5> HIDE DEF c, dist
        <5> QED
          BY <1>5, <2>6
      <4> QED
        BY <3>1, <4>1
    <3>2. CASE j # n
      <4> DEFINE x == At(b, Side(j)[1], Side(j)[2])
                 r == NewDist(b, Side(j))
      <4>1. j \in 1..n - 1 /\ j \in 1..9
        BY <3>2
      <4>2. Side(j)[1] \in Int /\ Side(j)[2] \in Int
        BY <4>1, SideIs DEF Steps
      <4>3. x \in BlockGrid /\ r \in Nat
        BY <4>2, AtIs, NewDistIs
      <4>4. s.walldist[x] <= r
        BY <4>1 DEF NearedSoFar
      <4> HIDE DEF x, r
      <4>5. w[x] <= r
        BY <1>6, <2>8, <4>3, <4>4
      <4> QED
        BY <4>5 DEF x, r
    <3> QED
      BY <3>1, <3>2
  <2> HIDE DEF d, c, dist
  <2>15. NearedSoFar(b, front, n, t)
    BY <1>7, <2>2, <2>11, <2>12, <2>13, <2>14 DEF NearedSoFar
  <2> QED
    BY <2>15 DEF t, d
<1> QED
  BY <1>8, <1>9

(* Taking a block from the queue keeps the invariant.                      *)
LEMMA TakeKeeps ==
  ASSUME WallInv, TakeBlock
  PROVE  WallInv'
<1> DEFINE b == queue[qfront]
           front == Further(qfront)
           s == AllNeared(b, front)
<1>1. /\ qfront # qback /\ qfront' = front /\ measured' = measured
      /\ walldist' = s.walldist /\ queue' = s.queue /\ qback' = s.qback /\ lapped' = s.lapped
  BY DEF TakeBlock
<1>2. Searching /\ Founded(Search) /\ qfront \in Places
  BY DEF WallInv
<1>3. /\ Search \in SearchStates
      /\ Search.walldist = walldist /\ Search.queue = queue /\ Search.qback = qback /\ Search.lapped = lapped
  BY <1>2 DEF Searching, Search
<1>4. /\ walldist \in Measures /\ queue \in [Places -> BlockGrid] /\ qback \in 0..NumBlocks
      /\ lapped \in BOOLEAN
  BY <1>2, <1>3 DEF SearchStates, Founded
<1>5. b \in BlockGrid
  BY <1>2, <1>4
<1>6. front \in Places /\ \A i \in Places : InRing(i, qfront, qback) /\ i # qfront => InRing(i, front, qback)
  BY <1>1, <1>2, <1>4, RingShrinks
<1>7. NearedSoFar(b, front, 0, Search)
  <2>1. ASSUME ~lapped, NEW c \in BlockGrid \ {b} PROVE Waits(c, queue, front, qback) \/ Relaxed(walldist, c)
    <3>1. CASE Waits(c, queue, qfront, qback)
      <4>1. PICK i \in Places : InRing(i, qfront, qback) /\ queue[i] = c
        BY <3>1 DEF Waits
      <4>2. i # qfront
        BY <4>1
      <4> QED
        BY <1>6, <4>1, <4>2 DEF Waits
    <3> QED
      BY <2>1, <3>1 DEF WallInv
  <2>2. \A c \in BlockGrid : walldist[c] <= walldist[c]
    BY <1>4, WorldFacts DEF Measures
  <2> HIDE DEF b, front
  <2> QED
    BY <1>2, <1>3, <2>1, <2>2 DEF NearedSoFar
<1> DEFINE PassedOn(t) ==
             /\ t \in SearchStates /\ Founded(t)
             /\ ~t.lapped => \A c \in BlockGrid : Waits(c, t.queue, front, t.qback) \/ Relaxed(t.walldist, c)
<1>8. ASSUME walldist[b] + 2 < 255 PROVE PassedOn(s)
  <2> HIDE DEF b, front
  <2>1. PICK f : /\ f \in [0..9 -> SearchStates] /\ f[0] = Search /\ AllNeared(b, front) = f[9]
                 /\ \A n \in 1..9 : f[n] = Neared(b, Side(n), front, f[n - 1])
    BY <1>2, <1>5, <1>8, AllNearedIs
  <2> DEFINE T == {n \in 0..9 : NearedSoFar(b, front, n, f[n])}
  <2>2. 0 \in T
    BY <1>7, <2>1
  <2>3. ASSUME NEW n \in 1..9, n - 1 \in T PROVE n \in T
    <3>1. NearedSoFar(b, front, n - 1, f[n - 1]) /\ n \in 0..9
      BY <2>3
    <3>2. NearedSoFar(b, front, n, Neared(b, Side(n), front, f[n - 1]))
      BY <1>2, <1>5, <1>6, <3>1, NearedKeeps
    <3> QED
      BY <2>1, <3>1, <3>2
  <2> HIDE DEF T
  <2>4. \A n \in 0..9 : n \in T
    BY <2>2, <2>3, UpTo
  <2>5. NearedSoFar(b, front, 9, s)
    BY <2>1, <2>4 DEF T
  <2> HIDE DEF s
  <2>6. Relaxed(s.walldist, b)
    <3>1. ASSUME NEW d \in Steps
          PROVE  s.walldist[At(b, d[1], d[2])]
                   <= s.walldist[b] + 2 + (IF s.walldist[b] = 0 /\ d = OpenCorner(measured[b]) THEN 1 ELSE 0)
      <4>1. PICK n \in 1..9 : d = Side(n)
        BY SideIs
      <4>2. s.walldist[At(b, d[1], d[2])] <= NewDist(b, d) /\ s.walldist[b] = walldist[b]
        BY <2>5, <4>1 DEF NearedSoFar
      <4>3. NewDist(b, d) = walldist[b] + 2 + (IF walldist[b] = 0 /\ d = OpenCorner(measured[b]) THEN 1 ELSE 0)
        BY <1>2, <1>5, NewDistIs
      <4> QED
        BY <4>2, <4>3
    <3> QED
      BY <3>1 DEF Relaxed
  <2> QED
    BY <2>5, <2>6 DEF NearedSoFar
<1>9. ASSUME ~(walldist[b] + 2 < 255) PROVE PassedOn(s)
  <2>1. s = Search
    BY <1>9 DEF AllNeared
  <2>2. Relaxed(walldist, b)
    <3> HIDE DEF b
    <3>1. ASSUME NEW d \in Steps
          PROVE  walldist[At(b, d[1], d[2])]
                   <= walldist[b] + 2 + (IF walldist[b] = 0 /\ d = OpenCorner(measured[b]) THEN 1 ELSE 0)
      <4> DEFINE c == At(b, d[1], d[2])
      <4>1. d[1] \in Int /\ d[2] \in Int
        BY DEF Steps
      <4>2. c \in BlockGrid
        BY <1>5, <4>1, AtIs
      <4> HIDE DEF c
      <4>3. walldist[c] \in 0..MaxDist /\ walldist[b] \in 0..MaxDist
        BY <1>4, <1>5, <4>2 DEF Measures
      <4>4. walldist[c] <= walldist[b] + 2 + (IF walldist[b] = 0 /\ d = OpenCorner(measured[b]) THEN 1 ELSE 0)
        BY <1>9, <4>3, WorldFacts
      <4> QED
        BY <4>4 DEF c
    <3> QED
      BY <3>1 DEF Relaxed
  <2> HIDE DEF s
  <2>3. ~lapped => \A c \in BlockGrid : Waits(c, queue, front, qback) \/ Relaxed(walldist, c)
    BY <1>3, <1>7, <2>2 DEF NearedSoFar
  <2> QED
    BY <1>2, <1>3, <2>1, <2>3
<1>10. PassedOn(s)
  BY <1>8, <1>9
<1> HIDE DEF s, b, front
<1>11. Search' = s
  <2>1. s = [walldist |-> s.walldist, queue |-> s.queue, qback |-> s.qback, lapped |-> s.lapped]
    BY <1>10 DEF SearchStates
  <2> QED
    BY <1>1, <2>1 DEF Search
<1>12. Searching' /\ Founded(Search)'
  <2>1. Searching'
    BY <1>10, <1>11 DEF Searching
  <2>2. /\ \A x \in BlockGrid : walldist'[x] = 0 <=> measured'[x] \in Solid
        /\ \A x \in BlockGrid : BackedBy(walldist, x)'
        /\ qback' \in 0..NumBlocks
        /\ qback' = NumBlocks => \A x \in BlockGrid : measured'[x] \in Solid
    BY <1>1, <1>10 DEF Founded, ZeroIsWall, BackedBy
  <2>3. Founded(Search)'
    BY <2>2 DEF Founded, ZeroIsWall, Search
  <2> QED
    BY <2>1, <2>3
<1>13. ~lapped' => \A c \in BlockGrid : Waits(c, queue, qfront, qback)' \/ Relaxed(walldist, c)'
  BY <1>1, <1>10 DEF Waits, Relaxed
<1> QED
  BY <1>1, <1>6, <1>12, <1>13 DEF WallInv

LEMMA WallBegins == WalldistInit => WallInv
<1> SUFFICES ASSUME WalldistInit PROVE WallInv
  OBVIOUS
<1> DEFINE l == WallsOf(measured)
<1>1. /\ measured \in WallMaps
      /\ walldist = [b \in BlockGrid |-> IF measured[b] \in Solid THEN 0 ELSE MaxDist]
      /\ queue = l.queue /\ qfront = 0 /\ qback = l.qback /\ lapped = FALSE
  BY DEF WalldistInit
<1>2. ListsWalls(measured, NumBlocks, l)
  BY WallsAreListed
<1> HIDE DEF l
<1>3. /\ queue \in [Places -> BlockGrid] /\ qback \in 0..NumBlocks
      /\ qback = NumBlocks => \A j \in 1..NumBlocks : measured[InOrder(j)] \in Solid
      /\ \A j \in 1..NumBlocks : measured[InOrder(j)] \in Solid => \E i \in 0..qback - 1 : queue[i] = InOrder(j)
  BY <1>1, <1>2 DEF ListsWalls
<1>4. \A b \in BlockGrid : walldist[b] = IF measured[b] \in Solid THEN 0 ELSE MaxDist
  BY <1>1
<1>5. walldist \in Measures
  BY <1>1, WorldFacts DEF Measures
<1>6. Searching
  <2>1. qback \in Nat
    BY <1>3, WorldFacts
  <2>2. lapped \in BOOLEAN
    BY <1>1, Zenon
  <2> QED
    BY <1>3, <1>5, <2>1, <2>2 DEF Searching, Search, SearchStates
<1>7. ZeroIsWall(walldist)
  BY <1>4, WorldFacts DEF ZeroIsWall
<1>8. ASSUME NEW b \in BlockGrid PROVE BackedBy(walldist, b)
  <2>1. CASE measured[b] \in Solid
    <3>1. At(b, 0, 0) = b
      BY AtIs
    <3>2. OpenCorner(measured[b]) \in OpenCorners
      BY OpenCornerIs
    <3>3. HalfBlocks(OpenCorner(measured[b]), 0, 0) = 0
      BY DEF HalfBlocks, FacesOpen, Blocks, AbsOf
    <3>4. walldist[b] = 0
      BY <1>4, <2>1
    <3> QED
      BY <2>1, <3>1, <3>3, <3>4 DEF BackedBy
  <2>2. CASE measured[b] \notin Solid
    BY <1>4, <2>2 DEF BackedBy
  <2> QED
    BY <2>1, <2>2
<1>9. qback = NumBlocks => \A b \in BlockGrid : measured[b] \in Solid
  BY <1>3, BlocksInOrder
<1>10. Founded(Search)
  BY <1>3, <1>7, <1>8, <1>9 DEF Founded, Search
<1>11. ASSUME NEW c \in BlockGrid PROVE Waits(c, queue, qfront, qback) \/ Relaxed(walldist, c)
  <2>1. CASE measured[c] \in Solid
    <3>1. PICK j \in 1..NumBlocks : c = InOrder(j)
      BY BlocksInOrder
    <3>2. PICK i \in 0..qback - 1 : queue[i] = c
      BY <1>3, <2>1, <3>1
    <3>3. i \in Places /\ InRing(i, qfront, qback)
      BY <1>1, <1>3, <3>2, WorldFacts DEF Places, InRing
    <3> QED
      BY <3>2, <3>3 DEF Waits
  <2>2. CASE measured[c] \notin Solid
    <3>1. ASSUME NEW d \in Steps
          PROVE  walldist[At(c, d[1], d[2])]
                   <= walldist[c] + 2 + (IF walldist[c] = 0 /\ d = OpenCorner(measured[c]) THEN 1 ELSE 0)
      <4> DEFINE x == At(c, d[1], d[2])
      <4>1. d[1] \in Int /\ d[2] \in Int
        BY DEF Steps
      <4>2. x \in BlockGrid
        BY <4>1, AtIs
      <4> HIDE DEF x
      <4>3. walldist[x] \in 0..MaxDist /\ walldist[c] = MaxDist
        BY <1>4, <1>5, <2>2, <4>2 DEF Measures
      <4>4. walldist[x] <= walldist[c] + 2 + (IF walldist[c] = 0 /\ d = OpenCorner(measured[c]) THEN 1 ELSE 0)
        BY <4>3, WorldFacts
      <4> QED
        BY <4>4 DEF x
    <3> QED
      BY <3>1 DEF Relaxed
  <2> QED
    BY <2>1, <2>2
<1>12. qfront \in Places
  BY <1>1, WorldFacts DEF Places
<1> QED
  BY <1>6, <1>10, <1>11, <1>12 DEF WallInv
-----------------------------------------------------------------------------
(* The end of the search.                                                  *)

(* Where all have passed on what they know, none is too far.               *)
LEMMA NoneIsTooFar ==
  ASSUME Searching, ZeroIsWall(walldist), \A c \in BlockGrid : Relaxed(walldist, c),
         NEW b \in BlockGrid, NEW dx \in Int, NEW dy \in Int, measured[At(b, dx, dy)] \in Solid
  PROVE  walldist[b] <= Gap(measured, b, dx, dy)
<1> DEFINE Reaches(k) ==
             \A c \in BlockGrid, x, y \in Int :
               Blocks(x, y) = k /\ measured[At(c, x, y)] \in Solid
                 => walldist[c] <= HalfBlocks(OpenCorner(measured[At(c, x, y)]), x, y)
           n == Blocks(dx, dy)
           T == {k \in 0..n : Reaches(k)}
<1>1. n \in Nat
  BY FacesOpenIs DEF Blocks, AbsOf
<1>2. \A c \in BlockGrid : walldist[c] \in 0..MaxDist
  BY NewDistIs
<1>3. Reaches(0)
  <2> SUFFICES ASSUME NEW c \in BlockGrid, NEW x \in Int, NEW y \in Int, Blocks(x, y) = 0,
                      measured[At(c, x, y)] \in Solid
               PROVE  walldist[c] <= HalfBlocks(OpenCorner(measured[At(c, x, y)]), x, y)
    OBVIOUS
  <2>1. x = 0 /\ y = 0
    BY DEF Blocks, AbsOf
  <2>2. At(c, x, y) = c
    BY <2>1, AtIs
  <2>3. walldist[c] = 0
    BY <2>2 DEF ZeroIsWall
  <2>4. HalfBlocks(OpenCorner(measured[At(c, x, y)]), x, y) \in Nat
    BY OpenCornerIs, FacesOpenIs
  <2> QED
    BY <2>3, <2>4
<1>4. ASSUME NEW k \in 1..n, Reaches(k - 1) PROVE Reaches(k)
  <2> SUFFICES ASSUME NEW c \in BlockGrid, NEW x \in Int, NEW y \in Int, Blocks(x, y) = k,
                      measured[At(c, x, y)] \in Solid
               PROVE  walldist[c] <= HalfBlocks(OpenCorner(measured[At(c, x, y)]), x, y)
    OBVIOUS
  <2> DEFINE a == At(c, Sign(x), Sign(y))
             u == x - Sign(x)
             v == y - Sign(y)
             d == <<-Sign(x), -Sign(y)>>
             wall == At(c, x, y)
             e == OpenCorner(measured[wall])
  <2>1. Sign(x) \in Int /\ Sign(y) \in Int /\ u \in Int /\ v \in Int
    BY DEF Sign
  <2>2. a \in BlockGrid
    BY <2>1, AtIs
  <2>3. At(a, u, v) = wall
    <3>1. At(a, u, v) = At(c, Sign(x) + u, Sign(y) + v)
      <4> DEFINE sx == Sign(x)
                 sy == Sign(y)
      <4>1. sx \in Int /\ sy \in Int
        BY <2>1
      <4> HIDE DEF sx, sy, u, v
      <4>2. At(At(c, sx, sy), u, v) = At(c, sx + u, sy + v)
        BY <2>1, <4>1, AtTwice
      <4> QED
        BY <4>2 DEF sx, sy
    <3>2. Sign(x) + u = x /\ Sign(y) + v = y
      BY <2>1
    <3> QED
      BY <3>1, <3>2
  <2>4. At(a, d[1], d[2]) = c
    <3> DEFINE sx == Sign(x)
               sy == Sign(y)
    <3>1. sx \in Int /\ sy \in Int /\ -sx \in Int /\ -sy \in Int /\ sx + (-sx) = 0 /\ sy + (-sy) = 0
      BY <2>1
    <3> HIDE DEF sx, sy
    <3>2. At(At(c, sx, sy), -sx, -sy) = At(c, sx + (-sx), sy + (-sy))
      BY <3>1, AtTwice
    <3>3. At(c, 0, 0) = c
      BY AtIs
    <3> QED
      BY <3>1, <3>2, <3>3 DEF sx, sy
  <2>5. e \in OpenCorners /\ Blocks(x, y) # 0
    BY OpenCornerIs
  <2>6. /\ d \in Steps /\ Blocks(u, v) = k - 1
        /\ HalfBlocks(e, u, v) + 2 <= HalfBlocks(e, x, y)
        /\ e = d /\ k = 1 => HalfBlocks(e, x, y) = 3
        /\ k > 1 => HalfBlocks(e, x, y) >= 3
    BY <2>5, OneStepNearer
  <2>7. HalfBlocks(e, u, v) \in Nat /\ HalfBlocks(e, x, y) \in Nat
    <3> HIDE DEF e, u, v
    <3> QED
      BY <2>1, <2>5, FacesOpenIs
  <2>8. walldist[a] <= HalfBlocks(e, u, v)
    <3> HIDE DEF u, v, a
    <3>1. walldist[a] <= HalfBlocks(OpenCorner(measured[At(a, u, v)]), u, v)
      BY <1>4, <2>1, <2>2, <2>3, <2>6
    <3> QED
      BY <2>3, <3>1
  <2>9. walldist[c] <= walldist[a] + 2 + (IF walldist[a] = 0 /\ d = OpenCorner(measured[a]) THEN 1 ELSE 0)
    <3> HIDE DEF a, d
    <3> QED
      BY <2>2, <2>4, <2>6 DEF Relaxed
  <2>10. k = 1 => a = wall
    <3>1. k = 1 => u = 0 /\ v = 0
      <4>1. Blocks(u, v) = 0 => u = 0 /\ v = 0
        <5> HIDE DEF u, v
        <5> QED
          BY <2>1 DEF Blocks, AbsOf
      <4> QED
        BY <2>6, <4>1
    <3>2. At(a, 0, 0) = a
      BY <2>2, AtIs
    <3> QED
      BY <2>3, <3>1, <3>2
  <2>11. walldist[a] \in 0..MaxDist /\ walldist[c] \in 0..MaxDist
    BY <1>2, <2>2
  <2>12. k = 1 /\ d = OpenCorner(measured[a]) => HalfBlocks(e, x, y) = 3
    BY <2>6, <2>10
  <2> HIDE DEF a, u, v, d, wall, e
  <2>13. walldist[c] <= HalfBlocks(e, x, y)
    BY <2>6, <2>7, <2>8, <2>9, <2>11, <2>12, WorldFacts
  <2> QED
    BY <2>13 DEF e, wall
<1>5. 0 \in T
  BY <1>1, <1>3
<1>6. ASSUME NEW k \in 1..n, k - 1 \in T PROVE k \in T
  <2> HIDE DEF Reaches
  <2> QED
    BY <1>1, <1>4, <1>6
<1> HIDE DEF T, n
<1>7. n \in T
  BY <1>1, <1>5, <1>6, UpTo
<1>8. Reaches(n)
  BY <1>7 DEF T
<1> QED
  BY <1>8, GapIs DEF n

LEMMA DistancesFound == WallInv /\ ~lapped => DistancesAreTrue
<1> SUFFICES ASSUME WallInv, ~lapped, qfront = qback, NEW b \in BlockGrid
             PROVE  walldist[b] = WallDistance(measured, b)
  BY DEF DistancesAreTrue
<1> DEFINE offsets == {o \in (-X..X) \X (-Y..Y) : measured[At(b, o[1], o[2])] \in Solid}
           M == {MaxDist} \cup {Gap(measured, b, o[1], o[2]) : o \in offsets}
<1>1. Searching /\ Founded(Search) /\ qfront \in Places
  BY DEF WallInv
<1>2. ZeroIsWall(walldist) /\ BackedBy(walldist, b)
  BY <1>1 DEF Founded, Search
<1>3. \A c \in BlockGrid : Relaxed(walldist, c)
  BY <1>1, RingIsEmpty DEF WallInv, Waits
<1>4. walldist[b] \in 0..MaxDist /\ MaxDist \in Nat
  BY <1>1, NewDistIs, WorldFacts
<1>5. \A o \in offsets : o[1] \in Int /\ o[2] \in Int /\ measured[At(b, o[1], o[2])] \in Solid
  BY WorldFacts
<1>6. ASSUME NEW o \in offsets
      PROVE  Gap(measured, b, o[1], o[2]) \in Nat /\ walldist[b] <= Gap(measured, b, o[1], o[2])
  <2> DEFINE dx == o[1]
             dy == o[2]
  <2>1. dx \in Int /\ dy \in Int /\ measured[At(b, dx, dy)] \in Solid
    BY <1>5
  <2> HIDE DEF dx, dy
  <2>2. walldist[b] <= Gap(measured, b, dx, dy)
    BY <1>1, <1>2, <1>3, <2>1, NoneIsTooFar
  <2>3. Gap(measured, b, dx, dy) \in Nat
    BY <2>1, GapIs, OpenCornerIs, FacesOpenIs
  <2> QED
    BY <2>2, <2>3 DEF dx, dy
<1>7. M \in SUBSET Nat /\ M # {}
  <2> HIDE DEF offsets
  <2> QED
    BY <1>4, <1>6
<1>8. Min(M) \in M /\ \A m \in M : Min(M) <= m
  <2> HIDE DEF M
  <2> QED
    BY <1>7, LeastIsThere
<1>9. walldist[b] <= Min(M)
  <2>1. \A m \in M : walldist[b] <= m
    <3> HIDE DEF offsets
    <3> QED
      BY <1>4, <1>6, WorldFacts
  <2> HIDE DEF M
  <2> QED
    BY <1>8, <2>1
<1>10. Min(M) <= walldist[b]
  <2>1. CASE walldist[b] = MaxDist
    <3>1. MaxDist \in M
      OBVIOUS
    <3> HIDE DEF M
    <3> QED
      BY <1>8, <2>1, <3>1
  <2>2. CASE walldist[b] # MaxDist
    <3>1. PICK dx \in Int, dy \in Int : /\ measured[At(b, dx, dy)] \in Solid
                                        /\ HalfBlocks(OpenCorner(measured[At(b, dx, dy)]), dx, dy) <= walldist[b]
      BY <1>2, <2>2 DEF BackedBy
    <3> DEFINE g == Gap(measured, b, dx, dy)
    <3>2. g <= walldist[b]
      BY <3>1, GapIs
    <3>3. Blocks(dx, dy) \in Nat /\ g >= 2 * Blocks(dx, dy) /\ g \in Nat
      <4>1. OpenCorner(measured[At(b, dx, dy)]) \in OpenCorners
        BY OpenCornerIs
      <4>2. Blocks(dx, dy) \in Nat
        BY <4>1, FacesOpenIs
      <4> QED
        BY <4>2, GapIs DEF HalfBlocks
    <3> HIDE DEF g
    <3>4. Blocks(dx, dy) <= X /\ Blocks(dx, dy) <= Y
      BY <1>4, <3>2, <3>3, WorldFacts
    <3>5. dx \in -X..X /\ dy \in -Y..Y
      BY <3>4, WorldFacts DEF Blocks, AbsOf
    <3>6. <<dx, dy>> \in offsets
      BY <3>1, <3>5
    <3>7. g \in M
      <4>1. g = Gap(measured, b, <<dx, dy>>[1], <<dx, dy>>[2])
        BY DEF g
      <4> HIDE DEF offsets
      <4> QED
        BY <3>6, <4>1
    <3> HIDE DEF M
    <3>8. Min(M) <= g /\ Min(M) \in Nat
      BY <1>7, <1>8, <3>7
    <3> QED
      BY <1>4, <3>2, <3>3, <3>8
  <2> QED
    BY <2>1, <2>2
<1>11. Min(M) \in Nat
  <2> HIDE DEF M
  <2> QED
    BY <1>7, <1>8
<1> HIDE DEF M
<1>12. walldist[b] = Min(M)
  BY <1>4, <1>9, <1>10, <1>11
<1> QED
  BY <1>12 DEF WallDistance, M

(* Walls.  For every size of the world and every map of it, the search of  *)
(* Walldist_init ends with the distance of every block to the nearest      *)
(* wall, if its queue, which is as long as the map has blocks, was never   *)
(* so full that an entry was lost.                                         *)
THEOREM WallsAreMeasured == WalldistSpec => [](~lapped => DistancesAreTrue)
<1>1. WallInv /\ [TakeBlock]_wallVars => WallInv'
  <2> SUFFICES ASSUME WallInv, [TakeBlock]_wallVars PROVE WallInv'
    OBVIOUS
  <2>1. CASE TakeBlock
    BY <2>1, TakeKeeps
  <2>2. CASE UNCHANGED wallVars
    BY <2>2 DEF wallVars, WallInv, Searching, Search, Founded, ZeroIsWall, BackedBy, Waits, Relaxed
  <2> QED
    BY <2>1, <2>2
<1> QED
  BY <1>1, WallBegins, DistancesFound, PTL DEF WalldistSpec
-----------------------------------------------------------------------------
(* Where no wall is a half block the ring never loses an entry.            *)

\* No wall is a half block.
WholeWalls == \A b \in BlockGrid : measured[b] \notin Halves

\* How far a place of the ring is from f.
Past(i, f) == IF i >= f THEN i - f ELSE i - f + NumBlocks

\* The blocks wait once each, the nearest first.
InTurn(w, q, f, k) ==
  \A i, j \in Places :
    InRing(i, f, k) /\ InRing(j, f, k)
      => (q[i] = q[j] => i = j) /\ (Past(i, f) <= Past(j, f) => w[q[i]] <= w[q[j]])

\* Who waits is known, and nothing that is known is two blocks farther.
KnownFrom(w, q, f, k) ==
  \A i \in Places :
    InRing(i, f, k)
      => w[q[i]] < MaxDist /\ \A c \in BlockGrid : w[c] = MaxDist \/ w[c] <= w[q[i]] + 2

RingInv ==
  /\ ~lapped
  /\ qback # NumBlocks => InTurn(walldist, queue, qfront, qback) /\ KnownFrom(walldist, queue, qfront, qback)

\* While b, which was the first, tells its neighbours.
InHand(b, front, s) ==
  /\ ~s.lapped
  /\ s.qback # NumBlocks =>
       /\ InTurn(s.walldist, s.queue, front, s.qback)
       /\ walldist[b] < MaxDist
       /\ \A c \in BlockGrid : s.walldist[c] = MaxDist \/ s.walldist[c] <= walldist[b] + 2
       /\ \A i \in Places :
            InRing(i, front, s.qback)
              => /\ s.queue[i] # b
                 /\ s.walldist[s.queue[i]] < MaxDist /\ walldist[b] <= s.walldist[s.queue[i]]

LEMMA TurnsShrink ==
  ASSUME NEW f \in Places, NEW k \in Places, f # k
  PROVE  /\ InRing(f, f, k)
         /\ \A i \in Places : InRing(i, Further(f), k) => InRing(i, f, k) /\ i # f /\ Past(f, f) <= Past(i, f)
         /\ \A i, j \in Places :
              InRing(i, Further(f), k) /\ InRing(j, Further(f), k) /\ Past(i, Further(f)) <= Past(j, Further(f))
                => Past(i, f) <= Past(j, f)
BY WorldFacts DEF Places, InRing, Further, Past

LEMMA TurnsGrow ==
  ASSUME NEW f \in Places, NEW k \in Places, Further(k) # f
  PROVE  /\ \A i \in Places : InRing(i, f, Further(k)) => i = k \/ InRing(i, f, k)
         /\ \A i \in Places : InRing(i, f, k) => ~(Past(k, f) <= Past(i, f))
BY WorldFacts DEF Places, InRing, Further, Past

LEMMA RingIsFull ==
  ASSUME NEW f \in Places, NEW k \in Places, Further(k) = f, NEW i \in Places
  PROVE  i = k \/ InRing(i, f, k)
BY WorldFacts DEF Places, InRing, Further

(* As many places as blocks: if all are taken, by different blocks, each   *)
(* block has one.                                                          *)
LEMMA EveryBlockHasAPlace ==
  ASSUME NEW q \in [Places -> BlockGrid], \A i, j \in Places : q[i] = q[j] => i = j, NEW b \in BlockGrid
  PROVE  \E i \in Places : q[i] = b
<1>1. IsFiniteSet(Places) /\ Cardinality(Places) = NumBlocks
  <2>1. 0 \in Int /\ NumBlocks - 1 \in Int /\ ~(0 > NumBlocks - 1) /\ (NumBlocks - 1) - 0 + 1 = NumBlocks
    BY WorldFacts
  <2> QED
    BY <2>1, FS_Interval DEF Places
<1>2. IsFiniteSet(BlockGrid) /\ Cardinality(BlockGrid) = NumBlocks
  <2> DEFINE columns == 0..X - 1
             rows    == 0..Y - 1
  <2>1. IsFiniteSet(columns) /\ Cardinality(columns) = X
    <3>1. 0 \in Int /\ X - 1 \in Int /\ ~(0 > X - 1) /\ (X - 1) - 0 + 1 = X
      BY WorldFacts
    <3> QED
      BY <3>1, FS_Interval
  <2>2. IsFiniteSet(rows) /\ Cardinality(rows) = Y
    <3>1. 0 \in Int /\ Y - 1 \in Int /\ ~(0 > Y - 1) /\ (Y - 1) - 0 + 1 = Y
      BY WorldFacts
    <3> QED
      BY <3>1, FS_Interval
  <2>3. BlockGrid = columns \X rows
    BY DEF BlockGrid
  <2> HIDE DEF columns, rows
  <2>4. IsFiniteSet(columns \X rows) /\ Cardinality(columns \X rows) = Cardinality(columns) * Cardinality(rows)
    BY <2>1, <2>2, FS_Product
  <2> QED
    BY <2>1, <2>2, <2>3, <2>4 DEF NumBlocks
<1>3. q \in Injection(Places, BlockGrid)
  BY DEF Injection, IsInjective
<1>4. q \in Surjection(Places, BlockGrid)
  BY <1>1, <1>2, <1>3, FS_Injection
<1> QED
  BY <1>4 DEF Surjection

(* A neighbour that is not known yet goes to the back; the ring has a      *)
(* place for it, since b has none.                                         *)
LEMMA NearedInTurn ==
  ASSUME Searching, Founded(Search), WholeWalls, NEW b \in BlockGrid, NEW n \in 1..9, NEW front \in Places,
         NEW s, NearedSoFar(b, front, n - 1, s), InHand(b, front, s)
  PROVE  InHand(b, front, Neared(b, Side(n), front, s))
<1> DEFINE d == Side(n)
           c == At(b, d[1], d[2])
           dist == NewDist(b, d)
           k == s.qback
           w == [s.walldist EXCEPT ![c] = dist]
           q == [s.queue EXCEPT ![k] = c]
           t == Neared(b, d, front, s)
<1>1. d[1] \in Int /\ d[2] \in Int
  BY SideIs DEF Steps
<1>2. c \in BlockGrid
  BY <1>1, AtIs
<1>3. s \in SearchStates /\ Founded(s)
  BY DEF NearedSoFar
<1>4. /\ s.walldist \in Measures /\ s.queue \in [Places -> BlockGrid] /\ k \in 0..NumBlocks
      /\ s.lapped \in BOOLEAN
  BY <1>3 DEF SearchStates, Founded
<1>5. dist \in Nat /\ dist >= walldist[b] + 2 /\ walldist[b] \in 0..MaxDist
  BY NewDistIs
<1>6. /\ \A x \in BlockGrid : s.walldist[x] \in 0..MaxDist
      /\ s.walldist[b] = walldist[b]
  BY <1>4 DEF NearedSoFar, Measures
<1>7. CASE ~(dist < s.walldist[c])
  <2>1. t = s
    BY <1>7 DEF Neared
  <2> QED
    BY <2>1
<1>8. CASE dist < s.walldist[c]
  <2>1. t = [walldist |-> w, queue |-> q, qback |-> Further(k), lapped |-> s.lapped \/ Further(k) = front]
    BY <1>8 DEF Neared
  <2>2. t.walldist = w /\ t.queue = q /\ t.qback = Further(k) /\ t.lapped = (s.lapped \/ Further(k) = front)
    BY <2>1
  <2> HIDE DEF t
  <2>3. c # b /\ s.walldist[c] # 0
    BY <1>2, <1>5, <1>6, <1>8
  <2>4. measured[c] \notin Solid
    BY <1>2, <1>3, <2>3 DEF Founded, ZeroIsWall
  <2>5. k # NumBlocks /\ k \in Places /\ Further(k) \in Places
    <3>1. k # NumBlocks
      BY <1>2, <1>3, <2>4 DEF Founded
    <3> QED
      BY <1>4, <3>1, WorldFacts DEF Places, Further
  <2>6. /\ ~s.lapped /\ InTurn(s.walldist, s.queue, front, k)
        /\ walldist[b] < MaxDist
        /\ \A x \in BlockGrid : s.walldist[x] = MaxDist \/ s.walldist[x] <= walldist[b] + 2
        /\ \A i \in Places :
             InRing(i, front, k)
               => /\ s.queue[i] # b
                  /\ s.walldist[s.queue[i]] < MaxDist /\ walldist[b] <= s.walldist[s.queue[i]]
    BY <2>5 DEF InHand
  <2>7. s.walldist[c] = MaxDist
    BY <1>2, <1>5, <1>6, <1>8, <2>6, WorldFacts
  <2>8. dist = walldist[b] + 2
    <3>1. d # <<0, 0>>
      <4>1. At(b, 0, 0) = b
        BY AtIs
      <4> QED
        BY <2>3, <4>1
    <3>2. OpenCorner(measured[b]) = <<0, 0>>
      BY DEF WholeWalls, OpenCorner, Halves
    <3> HIDE DEF d
    <3> QED
      BY <1>5, <3>1, <3>2, NewDistIs DEF dist
  <2>9. /\ w \in [BlockGrid -> Int] /\ w[c] = dist
        /\ \A x \in BlockGrid : x # c => w[x] = s.walldist[x]
    <3> HIDE DEF c, dist
    <3> QED
      BY <1>2, <1>4, <1>5, WorldFacts DEF Measures
  <2>10. /\ q \in [Places -> BlockGrid] /\ q[k] = c /\ \A i \in Places : i # k => q[i] = s.queue[i]
    <3> HIDE DEF c
    <3> QED
      BY <1>2, <1>4, <2>5
  <2> HIDE DEF w, q, c, dist, d
  <2>11. ASSUME NEW i \in Places, InRing(i, front, k)
         PROVE  /\ i # k /\ q[i] = s.queue[i] /\ q[i] \in BlockGrid /\ q[i] # c /\ q[i] # b
                /\ w[q[i]] = s.walldist[s.queue[i]] /\ w[q[i]] < MaxDist /\ walldist[b] <= w[q[i]]
                /\ w[q[i]] <= dist /\ w[q[i]] \in Int
    <3>1. i # k
      <4>1. ~InRing(k, front, k)
        BY <2>5 DEF InRing, Places
      <4> QED
        BY <2>11, <4>1
    <3>2. q[i] = s.queue[i] /\ q[i] \in BlockGrid
      BY <2>10, <3>1
    <3>3. q[i] # c
      BY <2>6, <2>7, <2>11, <3>2, WorldFacts
    <3>4. w[q[i]] = s.walldist[s.queue[i]] /\ w[q[i]] \in Int
      BY <2>9, <3>2, <3>3
    <3>5. s.walldist[s.queue[i]] < MaxDist /\ s.walldist[s.queue[i]] \in 0..MaxDist
      BY <1>6, <2>6, <2>11, <3>2
    <3>6. s.walldist[s.queue[i]] <= walldist[b] + 2
      BY <2>6, <3>2, <3>5, WorldFacts
    <3> QED
      BY <2>6, <2>8, <2>11, <3>1, <3>2, <3>3, <3>4, <3>5, <3>6
  <2>12. ASSUME NEW i \in Places, NEW j \in Places,
                i = k \/ InRing(i, front, k), j = k \/ InRing(j, front, k), q[i] = q[j]
         PROVE  i = j
    <3>1. CASE i = k
      BY <2>10, <2>11, <2>12, <3>1
    <3>2. CASE j = k
      BY <2>10, <2>11, <2>12, <3>2
    <3>3. CASE InRing(i, front, k) /\ InRing(j, front, k)
      <4>1. s.queue[i] = s.queue[j]
        BY <2>11, <2>12, <3>3
      <4> QED
        BY <2>6, <3>3, <4>1 DEF InTurn
    <3> QED
      BY <2>12, <3>1, <3>2, <3>3
  <2>13. Further(k) # front
    <3> SUFFICES ASSUME Further(k) = front PROVE FALSE
      OBVIOUS
    <3>1. \A i \in Places : i = k \/ InRing(i, front, k)
      BY <2>5, RingIsFull
    <3>2. PICK i \in Places : q[i] = b
      BY <2>10, <2>12, <3>1, EveryBlockHasAPlace
    <3> QED
      BY <2>3, <2>10, <2>11, <3>1, <3>2
  <2>14. /\ \A i \in Places : InRing(i, front, Further(k)) => i = k \/ InRing(i, front, k)
         /\ \A i \in Places : InRing(i, front, k) => ~(Past(k, front) <= Past(i, front))
    BY <2>5, <2>13, TurnsGrow
  <2>15. InTurn(w, q, front, Further(k))
    <3> SUFFICES ASSUME NEW i \in Places, NEW j \in Places,
                        InRing(i, front, Further(k)), InRing(j, front, Further(k))
                 PROVE  (q[i] = q[j] => i = j) /\ (Past(i, front) <= Past(j, front) => w[q[i]] <= w[q[j]])
      BY DEF InTurn
    <3>1. (i = k \/ InRing(i, front, k)) /\ (j = k \/ InRing(j, front, k))
      BY <2>14
    <3>2. q[i] = q[j] => i = j
      BY <2>12, <3>1
    <3>3. ASSUME Past(i, front) <= Past(j, front) PROVE w[q[i]] <= w[q[j]]
      <4>1. CASE j = k
        <5>1. w[q[j]] = dist
          BY <2>9, <2>10, <4>1
        <5>2. CASE i = k
          BY <1>5, <5>1, <5>2, <4>1
        <5>3. CASE InRing(i, front, k)
          BY <2>11, <5>1, <5>3
        <5> QED
          BY <3>1, <5>2, <5>3
      <4>2. CASE i = k /\ InRing(j, front, k)
        BY <2>14, <3>3, <4>2
      <4>3. CASE InRing(i, front, k) /\ InRing(j, front, k)
        <5>1. s.walldist[s.queue[i]] <= s.walldist[s.queue[j]]
          BY <2>6, <3>3, <4>3 DEF InTurn
        <5> QED
          BY <2>11, <4>3, <5>1
      <4> QED
        BY <3>1, <4>1, <4>2, <4>3
    <3> QED
      BY <3>2, <3>3
  <2>16. ASSUME NEW x \in BlockGrid PROVE w[x] = MaxDist \/ w[x] <= walldist[b] + 2
    <3>1. CASE x = c
      BY <1>5, <2>8, <2>9, <3>1
    <3>2. CASE x # c
      BY <2>6, <2>9, <3>2
    <3> QED
      BY <3>1, <3>2
  <2>17. ASSUME NEW i \in Places, InRing(i, front, Further(k))
         PROVE  q[i] # b /\ w[q[i]] < MaxDist /\ walldist[b] <= w[q[i]]
    <3>1. CASE i = k
      <4>1. q[i] = c /\ w[q[i]] = dist /\ dist < MaxDist
        BY <1>8, <2>7, <2>9, <2>10, <3>1
      <4> QED
        BY <1>5, <2>3, <2>8, <4>1
    <3>2. CASE InRing(i, front, k)
      BY <2>11, <3>2
    <3> QED
      BY <2>14, <2>17, <3>1, <3>2
  <2>18. InHand(b, front, t)
    BY <2>2, <2>6, <2>13, <2>15, <2>16, <2>17 DEF InHand
  <2> QED
    BY <2>18 DEF t, d
<1> QED
  BY <1>7, <1>8

(* No two numbers are of the same block.                                   *)
LEMMA NumbersDiffer ==
  ASSUME NEW i \in 1..NumBlocks, NEW j \in 1..NumBlocks, InOrder(i) = InOrder(j)
  PROVE  i = j
<1> DEFINE x == (i - 1) \div Y
           y == (i - 1) % Y
<1>1. i - 1 \in Int /\ j - 1 \in Int /\ Y \in Nat \ {0}
  BY WorldFacts
<1>2. x = (j - 1) \div Y /\ y = (j - 1) % Y
  BY DEF InOrder
<1>3. i - 1 = Y * x + y /\ j - 1 = Y * x + y
  BY <1>1, <1>2, Division
<1> HIDE DEF x, y
<1> QED
  BY <1>1, <1>3

\* After n blocks: walls of these, each once.
ListsOnce(m, n, s) ==
  /\ \A i \in 0..s.qback - 1 : \E j \in 1..n : s.queue[i] = InOrder(j) /\ m[InOrder(j)] \in Solid
  /\ \A i, j \in 0..s.qback - 1 : s.queue[i] = s.queue[j] => i = j

LEMMA NotedOnce ==
  ASSUME NEW m, NEW n \in 1..NumBlocks, NEW s, ListsWalls(m, n - 1, s), ListsOnce(m, n - 1, s)
  PROVE  ListsOnce(m, n, Noted(m, n, s))
<1> DEFINE b == InOrder(n)
           k == s.qback
           w == [s.queue EXCEPT ![k] = b]
<1>1. s.queue \in [Places -> BlockGrid] /\ k \in 0..n - 1
  BY DEF ListsWalls
<1>2. k \in Places /\ n \in Nat
  BY <1>1, WorldFacts DEF Places
<1>3. ASSUME NEW i \in 0..k - 1
      PROVE  /\ i \in Places /\ i # k /\ s.queue[i] # b
             /\ \E j \in 1..n : s.queue[i] = InOrder(j) /\ m[InOrder(j)] \in Solid
  <2>1. PICK j \in 1..n - 1 : s.queue[i] = InOrder(j) /\ m[InOrder(j)] \in Solid
    BY DEF ListsOnce
  <2>2. j \in 1..NumBlocks /\ j \in 1..n /\ j # n
    BY <1>2, <2>1, WorldFacts
  <2>3. InOrder(j) # InOrder(n)
    BY <2>2, NumbersDiffer
  <2>4. i \in Places /\ i # k
    BY <1>2, WorldFacts DEF Places
  <2> QED
    BY <2>1, <2>2, <2>3, <2>4
<1>4. CASE m[b] \in Solid
  <2>1. w[k] = b /\ \A i \in Places : i # k => w[i] = s.queue[i]
    BY <1>1, <1>2
  <2>2. Noted(m, n, s) = [queue |-> w, qback |-> k + 1]
    BY <1>4 DEF Noted
  <2> HIDE DEF w
  <2>3. ASSUME NEW i \in 0..(k + 1) - 1 PROVE i = k \/ (i \in 0..k - 1 /\ w[i] = s.queue[i])
    <3>1. i = k \/ i \in 0..k - 1
      BY <1>1
    <3> QED
      BY <1>3, <2>1, <3>1
  <2>4. ASSUME NEW i \in 0..(k + 1) - 1 PROVE \E j \in 1..n : w[i] = InOrder(j) /\ m[InOrder(j)] \in Solid
    <3>1. CASE i = k
      <4>1. n \in 1..n
        BY <1>2
      <4> QED
        BY <1>4, <2>1, <3>1, <4>1
    <3>2. CASE i \in 0..k - 1 /\ w[i] = s.queue[i]
      BY <1>3, <3>2
    <3> QED
      BY <2>3, <3>1, <3>2
  <2>5. ASSUME NEW i \in 0..(k + 1) - 1, NEW j \in 0..(k + 1) - 1, w[i] = w[j] PROVE i = j
    <3>1. (i = k \/ (i \in 0..k - 1 /\ w[i] = s.queue[i])) /\ (j = k \/ (j \in 0..k - 1 /\ w[j] = s.queue[j]))
      BY <2>3
    <3> HIDE DEF b, k
    <3> QED
      BY <1>3, <2>1, <2>5, <3>1 DEF ListsOnce, k
  <2> QED
    BY <2>2, <2>4, <2>5 DEF ListsOnce
<1>5. CASE m[b] \notin Solid
  <2>1. Noted(m, n, s) = s
    BY <1>5 DEF Noted
  <2>2. \A i \in 0..s.qback - 1 : \E j \in 1..n : s.queue[i] = InOrder(j) /\ m[InOrder(j)] \in Solid
    BY <1>3
  <2> QED
    BY <2>1, <2>2 DEF ListsOnce
<1> QED
  BY <1>4, <1>5

LEMMA WallsAreListedOnce ==
  ASSUME NEW m
  PROVE  ListsOnce(m, NumBlocks, WallsOf(m))
<1>1. PICK f : /\ f \in [0..NumBlocks -> Lists] /\ f[0] = NoneYet /\ WallsOf(m) = f[NumBlocks]
               /\ \A n \in 1..NumBlocks : f[n] = Noted(m, n, f[n - 1])
  BY WallsOfIs
<1> DEFINE T == {n \in 0..NumBlocks : ListsWalls(m, n, f[n]) /\ ListsOnce(m, n, f[n])}
<1>2. 0 \in T
  BY <1>1, WorldFacts DEF ListsWalls, ListsOnce, NoneYet
<1>3. ASSUME NEW n \in 1..NumBlocks, n - 1 \in T PROVE n \in T
  <2>1. ListsWalls(m, n - 1, f[n - 1]) /\ ListsOnce(m, n - 1, f[n - 1]) /\ n \in 0..NumBlocks
    BY <1>3, WorldFacts
  <2>2. ListsWalls(m, n, f[n]) /\ ListsOnce(m, n, f[n])
    BY <1>1, <2>1, NotedKeeps, NotedOnce
  <2> QED
    BY <2>1, <2>2
<1> HIDE DEF T
<1>4. NumBlocks \in T
  BY <1>2, <1>3, UpTo, WorldFacts
<1> QED
  BY <1>1, <1>4 DEF T

LEMMA RingBegins == WalldistInit => RingInv
<1> SUFFICES ASSUME WalldistInit PROVE RingInv
  OBVIOUS
<1> DEFINE l == WallsOf(measured)
<1>1. /\ walldist = [b \in BlockGrid |-> IF measured[b] \in Solid THEN 0 ELSE MaxDist]
      /\ queue = l.queue /\ qfront = 0 /\ qback = l.qback /\ ~lapped
  BY DEF WalldistInit
<1>2. ListsOnce(measured, NumBlocks, l) /\ ListsWalls(measured, NumBlocks, l)
  BY WallsAreListedOnce, WallsAreListed
<1> HIDE DEF l
<1>3. /\ \A i \in 0..qback - 1 : \E j \in 1..NumBlocks : queue[i] = InOrder(j) /\ measured[InOrder(j)] \in Solid
      /\ \A i, j \in 0..qback - 1 : queue[i] = queue[j] => i = j
      /\ qback \in 0..NumBlocks
  BY <1>1, <1>2 DEF ListsOnce, ListsWalls
<1>4. ASSUME NEW i \in Places, InRing(i, qfront, qback) PROVE i \in 0..qback - 1 /\ walldist[queue[i]] = 0
  <2>1. i \in 0..qback - 1
    BY <1>1, <1>3, <1>4, WorldFacts DEF InRing, Places
  <2>2. PICK j \in 1..NumBlocks : queue[i] = InOrder(j) /\ measured[InOrder(j)] \in Solid
    BY <1>3, <2>1
  <2>3. InOrder(j) \in BlockGrid
    BY NumberIs
  <2> QED
    BY <1>1, <2>1, <2>2, <2>3
<1>5. InTurn(walldist, queue, qfront, qback)
  BY <1>3, <1>4 DEF InTurn
<1>6. KnownFrom(walldist, queue, qfront, qback)
  <2>1. \A c \in BlockGrid : walldist[c] = MaxDist \/ walldist[c] = 0
    BY <1>1
  <2> QED
    BY <1>4, <2>1, WorldFacts DEF KnownFrom
<1> QED
  BY <1>1, <1>5, <1>6 DEF RingInv

(* Whoever is taken from the ring finds room in it for all neighbours.     *)
LEMMA RingKeeps ==
  ASSUME WallInv, RingInv, WholeWalls, TakeBlock
  PROVE  RingInv'
<1> DEFINE b == queue[qfront]
           front == Further(qfront)
           s == AllNeared(b, front)
<1>1. /\ qfront # qback /\ qfront' = front
      /\ walldist' = s.walldist /\ queue' = s.queue /\ qback' = s.qback /\ lapped' = s.lapped
  BY DEF TakeBlock
<1>2. Searching /\ Founded(Search) /\ qfront \in Places
  BY DEF WallInv
<1>3. /\ Search \in SearchStates
      /\ Search.walldist = walldist /\ Search.queue = queue /\ Search.qback = qback /\ Search.lapped = lapped
  BY <1>2 DEF Searching, Search
<1>4. /\ walldist \in Measures /\ queue \in [Places -> BlockGrid] /\ qback \in 0..NumBlocks
  BY <1>2, <1>3 DEF SearchStates, Founded
<1>5. b \in BlockGrid
  BY <1>2, <1>4
<1>6. front \in Places /\ \A i \in Places : InRing(i, qfront, qback) /\ i # qfront => InRing(i, front, qback)
  BY <1>1, <1>2, <1>4, RingShrinks
<1>7. NearedSoFar(b, front, 0, Search)
  <2>1. ASSUME ~lapped, NEW c \in BlockGrid \ {b} PROVE Waits(c, queue, front, qback) \/ Relaxed(walldist, c)
    <3>1. CASE Waits(c, queue, qfront, qback)
      <4>1. PICK i \in Places : InRing(i, qfront, qback) /\ queue[i] = c
        BY <3>1 DEF Waits
      <4>2. i # qfront
        BY <4>1
      <4> QED
        BY <1>6, <4>1, <4>2 DEF Waits
    <3> QED
      BY <2>1, <3>1 DEF WallInv
  <2>2. \A c \in BlockGrid : walldist[c] <= walldist[c]
    BY <1>4, WorldFacts DEF Measures
  <2> HIDE DEF b, front
  <2> QED
    BY <1>2, <1>3, <2>1, <2>2 DEF NearedSoFar
<1>8. InHand(b, front, Search)
  <2>1. ~lapped
    BY DEF RingInv
  <2>2. ASSUME qback # NumBlocks
        PROVE  /\ InTurn(walldist, queue, front, qback)
               /\ walldist[b] < MaxDist
               /\ \A c \in BlockGrid : walldist[c] = MaxDist \/ walldist[c] <= walldist[b] + 2
               /\ \A i \in Places :
                    InRing(i, front, qback)
                      => /\ queue[i] # b
                         /\ walldist[queue[i]] < MaxDist /\ walldist[b] <= walldist[queue[i]]
    <3>1. qback \in Places
      BY <1>4, <2>2, WorldFacts DEF Places
    <3>2. /\ InRing(qfront, qfront, qback)
          /\ \A i \in Places : InRing(i, front, qback)
               => InRing(i, qfront, qback) /\ i # qfront /\ Past(qfront, qfront) <= Past(i, qfront)
          /\ \A i, j \in Places :
               InRing(i, front, qback) /\ InRing(j, front, qback) /\ Past(i, front) <= Past(j, front)
                 => Past(i, qfront) <= Past(j, qfront)
      BY <1>1, <1>2, <3>1, TurnsShrink
    <3>3. InTurn(walldist, queue, qfront, qback) /\ KnownFrom(walldist, queue, qfront, qback)
      BY <2>2 DEF RingInv
    <3> HIDE DEF front
    <3>4. InTurn(walldist, queue, front, qback)
      BY <3>2, <3>3 DEF InTurn
    <3>5. /\ walldist[b] < MaxDist
          /\ \A c \in BlockGrid : walldist[c] = MaxDist \/ walldist[c] <= walldist[b] + 2
      BY <1>2, <3>2, <3>3 DEF KnownFrom
    <3>6. ASSUME NEW i \in Places, InRing(i, front, qback)
          PROVE  queue[i] # b /\ walldist[queue[i]] < MaxDist /\ walldist[b] <= walldist[queue[i]]
      <4>1. InRing(i, qfront, qback) /\ i # qfront /\ Past(qfront, qfront) <= Past(i, qfront)
        BY <3>2, <3>6
      <4>2. walldist[queue[i]] < MaxDist
        BY <3>3, <4>1 DEF KnownFrom
      <4> QED
        BY <1>2, <3>2, <3>3, <4>1, <4>2 DEF InTurn
    <3> QED
      BY <3>4, <3>5, <3>6
  <2> HIDE DEF b, front
  <2> QED
    BY <1>3, <2>1, <2>2 DEF InHand
<1>9. InHand(b, front, s) /\ s \in SearchStates
  <2> HIDE DEF b, front
  <2>1. CASE walldist[b] + 2 < 255
    <3>1. PICK f : /\ f \in [0..9 -> SearchStates] /\ f[0] = Search /\ AllNeared(b, front) = f[9]
                   /\ \A n \in 1..9 : f[n] = Neared(b, Side(n), front, f[n - 1])
      BY <1>2, <1>5, <2>1, AllNearedIs
    <3> DEFINE T == {n \in 0..9 : NearedSoFar(b, front, n, f[n]) /\ InHand(b, front, f[n])}
    <3>2. 0 \in T
      BY <1>7, <1>8, <3>1
    <3>3. ASSUME NEW n \in 1..9, n - 1 \in T PROVE n \in T
      <4>1. NearedSoFar(b, front, n - 1, f[n - 1]) /\ InHand(b, front, f[n - 1]) /\ n \in 0..9
        BY <3>3
      <4>2. NearedSoFar(b, front, n, Neared(b, Side(n), front, f[n - 1]))
        BY <1>2, <1>5, <1>6, <4>1, NearedKeeps
      <4>3. InHand(b, front, Neared(b, Side(n), front, f[n - 1]))
        BY <1>2, <1>5, <1>6, <4>1, NearedInTurn
      <4> QED
        BY <3>1, <4>1, <4>2, <4>3
    <3> HIDE DEF T
    <3>4. \A n \in 0..9 : n \in T
      BY <3>2, <3>3, UpTo
    <3>5. NearedSoFar(b, front, 9, s) /\ InHand(b, front, s)
      BY <3>1, <3>4 DEF T
    <3> HIDE DEF s
    <3> QED
      BY <3>5 DEF NearedSoFar
  <2>2. CASE ~(walldist[b] + 2 < 255)
    <3>1. s = Search
      BY <2>2 DEF AllNeared
    <3> HIDE DEF s
    <3> QED
      BY <1>7, <1>8, <3>1 DEF NearedSoFar
  <2> QED
    BY <2>1, <2>2
<1> HIDE DEF s, b, front
<1>10. ASSUME s.qback # NumBlocks PROVE KnownFrom(s.walldist, s.queue, front, s.qback)
  <2> SUFFICES ASSUME NEW i \in Places, InRing(i, front, s.qback)
               PROVE  /\ s.walldist[s.queue[i]] < MaxDist
                      /\ \A c \in BlockGrid : s.walldist[c] = MaxDist \/ s.walldist[c] <= s.walldist[s.queue[i]] + 2
    BY DEF KnownFrom
  <2>1. /\ s.walldist[s.queue[i]] < MaxDist /\ walldist[b] <= s.walldist[s.queue[i]]
        /\ \A c \in BlockGrid : s.walldist[c] = MaxDist \/ s.walldist[c] <= walldist[b] + 2
    BY <1>9, <1>10 DEF InHand
  <2>2. /\ s.queue[i] \in BlockGrid /\ walldist[b] \in 0..MaxDist
        /\ \A c \in BlockGrid : s.walldist[c] \in 0..MaxDist
    BY <1>4, <1>5, <1>9 DEF SearchStates, Measures
  <2> QED
    BY <2>1, <2>2, WorldFacts
<1>11. ~s.lapped /\ (s.qback # NumBlocks => InTurn(s.walldist, s.queue, front, s.qback))
  BY <1>9 DEF InHand
<1> QED
  BY <1>1, <1>10, <1>11 DEF RingInv

(* Walls.  Where no wall is a half block the ring never loses an entry,    *)
(* whatever the size of the world: every block waits once, in the order of *)
(* distances, and there is room for all that are not the one just taken.   *)
(* So the distances are those of the nearest walls when the search ends.   *)
THEOREM WholeWallsFitTheRing == WalldistSpec => [](WholeWalls => ~lapped /\ DistancesAreTrue)
<1> DEFINE Inv == WallInv /\ (WholeWalls => RingInv)
<1>1. WalldistInit => Inv
  BY WallBegins, RingBegins
<1>2. Inv /\ [TakeBlock]_wallVars => Inv'
  <2> SUFFICES ASSUME Inv, [TakeBlock]_wallVars PROVE Inv'
    OBVIOUS
  <2>1. CASE TakeBlock
    <3>1. WholeWalls' => WholeWalls
      BY <2>1 DEF TakeBlock, WholeWalls
    <3> QED
      BY <2>1, <3>1, TakeKeeps, RingKeeps
  <2>2. CASE UNCHANGED wallVars
    BY <2>2 DEF wallVars, WallInv, Searching, Search, Founded, ZeroIsWall, BackedBy, Waits, Relaxed,
                WholeWalls, RingInv, InTurn, KnownFrom
  <2> QED
    BY <2>1, <2>2
<1>3. Inv => (WholeWalls => ~lapped /\ DistancesAreTrue)
  BY DistancesFound DEF RingInv
<1> QED
  BY <1>1, <1>2, <1>3, PTL DEF WalldistSpec
=============================================================================
