--------------------------- MODULE PlayersProofs ----------------------------
(***************************************************************************)
(* What the server keeps of its players: identifiers, pointers, scores.    *)
(*                                                                         *)
(* Identifiers and the index into Players[] stay right for every number of *)
(* structs and of identifiers, when the counters of the queue, which only  *)
(* grow, wrap around at any multiple of the size of the queue; and         *)
(* operators are counted right.                                            *)
(*                                                                         *)
(* The invariant adds to IdsAreTheirs that what is free and what is in use *)
(* are NumIds together, so that the queue is empty only when everybody has *)
(* come, and full before the first one.                                    *)
(*                                                                         *)
(* Pointers between players lead to players, for any number of structs and *)
(* whoever the watcher is.  The invariant is inductive once Players[] is   *)
(* known to be a sequence: whoever leaves, the swap of Player_remove keeps *)
(* everybody else, and Player_remove clears what is not behind a flag; and *)
(* once it is known that only a robot that is there has a war, because     *)
(* Player_remove asks whether the watcher is a robot.                      *)
(*                                                                         *)
(* The ranking remembers every score that is due, for a table of any size. *)
(***************************************************************************)
EXTENDS PlayerTable, Watching, Rank, Counting

\* There is an identifier for every struct, and the counters wrap around where
\* the queue does.
Sizes == /\ NumIds \in Nat \ {0} /\ MaxPlayers \in 0..NumIds
         /\ Width \in Nat /\ Width > NumIds
         /\ \E m \in Nat : Width = NumIds * m
-----------------------------------------------------------------------------
(* Remainders.                                                             *)

(* Whole laps do not matter.                                               *)
LEMMA Laps ==
  ASSUME NEW n \in Nat \ {0}, NEW m \in Int, NEW k \in Int
  PROVE  (n * m + k) % n = k % n
<1> DEFINE q == k \div n
           r == k % n
           a == n * m + k
<1>1. k = n * q + r /\ r \in 0..(n - 1) /\ q \in Int
  BY Division
<1> HIDE DEF q, r
<1>2. a \in Int /\ m + q \in Int /\ a = n * (m + q) + r
  BY <1>1, SMT
<1> HIDE DEF a
<1>3. a % n = r
  BY <1>1, <1>2, Remainder
<1> QED
  BY <1>3 DEF a, r

(* Less than a lap apart, two places are not the same.                     *)
LEMMA Apart ==
  ASSUME NEW n \in Nat \ {0}, NEW a \in Int, NEW b \in Int, a < b, b < a + n
  PROVE  a % n # b % n
<1> SUFFICES ASSUME a % n = b % n PROVE FALSE
  OBVIOUS
<1> DEFINE p == a \div n
           q == b \div n
           r == a % n
<1>1. a = n * p + r /\ b = n * q + r /\ p \in Int /\ q \in Int /\ r \in 0..(n - 1)
  BY Division
<1> HIDE DEF p, q, r
<1>2. n * (q - p) = b - a
  BY <1>1, SMT
<1>3. q - p >= 1 => n * (q - p) >= n
  BY <1>1, SMT
<1>4. q - p <= 0 => n * (q - p) <= 0
  BY <1>1, SMT
<1> QED
  BY <1>1, <1>2, <1>3, <1>4, SMT
-----------------------------------------------------------------------------
(* The queue of free identifiers.                                          *)

Counters == 0..(Width - 1)

Dist(g, p) == (p - g) % Width

\* The k-th place of the queue.
Place(g, k) == (g + k) % NumIds

\* The queue q from g to p has what is free, each once.
Waits(q, g, p, free) ==
  /\ Dist(g, p) <= NumIds
  /\ \A k \in Nat : k < Dist(g, p) => q[Place(g, k)] \in free
  /\ \A j, k \in Nat : j < k /\ k < Dist(g, p) => q[Place(g, j)] # q[Place(g, k)]
  /\ \A n \in free : \E k \in Nat : k < Dist(g, p) /\ q[Place(g, k)] = n

LEMMA DistIs ==
  ASSUME Sizes, NEW g \in Counters, NEW p \in Counters
  PROVE  Dist(g, p) = IF p >= g THEN p - g ELSE (p - g) + Width
<1>1. Width \in Nat \ {0} /\ g \in Int /\ p \in Int
  BY SMT DEF Sizes, Counters
<1>2. CASE p >= g
  <2>1. p - g \in 0..(Width - 1) /\ p - g \in Int /\ p - g = Width * 0 + (p - g)
    BY <1>1, <1>2, SMT DEF Counters
  <2>2. (p - g) % Width = p - g
    BY <1>1, <2>1, Remainder
  <2> QED
    BY <1>2, <2>2 DEF Dist
<1>3. CASE ~(p >= g)
  <2>1. /\ (p - g) + Width \in 0..(Width - 1) /\ p - g \in Int
        /\ p - g = Width * (-1) + ((p - g) + Width) /\ -1 \in Int
    BY <1>1, <1>3, SMT DEF Counters
  <2>2. (p - g) % Width = (p - g) + Width
    BY <1>1, <2>1, Remainder
  <2> QED
    BY <1>3, <2>2 DEF Dist
<1> QED
  BY <1>2, <1>3

(* A counter and one more.                                                 *)
LEMMA CountsOn ==
  ASSUME Sizes, NEW g \in Counters
  PROVE  /\ (g + 1) % Width \in Counters
         /\ (g + 1) % Width = IF g = Width - 1 THEN 0 ELSE g + 1
<1>1. Width \in Nat \ {0} /\ g \in Int /\ g >= 0 /\ g <= Width - 1
  BY SMT DEF Sizes, Counters
<1>2. CASE g = Width - 1
  <2>1. g + 1 = Width * 1 + 0 /\ 0 \in 0..(Width - 1) /\ g + 1 \in Int /\ 1 \in Int
    BY <1>1, <1>2, SMT
  <2> QED
    BY <1>1, <1>2, <2>1, Remainder DEF Counters
<1>3. CASE g # Width - 1
  <2>1. g + 1 = Width * 0 + (g + 1) /\ g + 1 \in 0..(Width - 1) /\ g + 1 \in Int /\ 0 \in Int
    BY <1>1, <1>3, SMT
  <2> QED
    BY <1>1, <1>3, <2>1, Remainder DEF Counters
<1> QED
  BY <1>2, <1>3

(* The queue does not notice that a counter wraps around.                  *)
LEMMA PlaceWraps ==
  ASSUME Sizes, NEW k \in Int
  PROVE  (Width + k) % NumIds = k % NumIds
<1>1. PICK m \in Nat : Width = NumIds * m
  BY DEF Sizes
<1>2. m \in Int /\ NumIds \in Nat \ {0}
  BY DEF Sizes
<1>3. (NumIds * m + k) % NumIds = k % NumIds
  BY <1>2, Laps
<1> QED
  BY <1>1, <1>3

LEMMA NextPlace ==
  ASSUME Sizes, NEW g \in Counters, NEW k \in Nat
  PROVE  Place((g + 1) % Width, k) = Place(g, k + 1)
<1>1. Width \in Nat /\ g \in Int /\ k \in Int
  BY SMT DEF Sizes, Counters
<1>2. CASE g = Width - 1
  <2>1. (g + 1) % Width = 0 /\ 0 + k = k /\ g + (k + 1) = Width + k
    BY <1>1, <1>2, CountsOn, SMT
  <2> QED
    BY <1>1, <2>1, PlaceWraps DEF Place
<1>3. CASE g # Width - 1
  <2>1. (g + 1) % Width = g + 1 /\ (g + 1) + k = g + (k + 1)
    BY <1>1, <1>3, CountsOn, SMT
  <2> QED
    BY <2>1 DEF Place
<1> QED
  BY <1>2, <1>3

(* The place behind the queue.                                             *)
LEMMA LastPlace ==
  ASSUME Sizes, NEW g \in Counters, NEW p \in Counters
  PROVE  p % NumIds = Place(g, Dist(g, p))
<1>1. Width \in Nat /\ g \in Int /\ p \in Int
  BY SMT DEF Sizes, Counters
<1>2. CASE p >= g
  <2>1. g + Dist(g, p) = p
    BY <1>1, <1>2, DistIs, SMT
  <2> QED
    BY <2>1 DEF Place
<1>3. CASE ~(p >= g)
  <2>1. g + Dist(g, p) = Width + p
    BY <1>1, <1>3, DistIs, SMT
  <2> QED
    BY <1>1, <2>1, PlaceWraps DEF Place
<1> QED
  BY <1>2, <1>3

Queues == [0..(NumIds - 1) -> Ids]

LEMMA PlacesAreInTheQueue ==
  ASSUME Sizes, NEW a \in Int
  PROVE  a % NumIds \in 0..(NumIds - 1)
<1>1. NumIds \in Nat \ {0}
  BY DEF Sizes
<1> QED
  BY <1>1, Division

(* What is taken is free, and is no longer.                                *)
LEMMA Taken ==
  ASSUME Sizes, NEW q, NEW g \in Counters, NEW p \in Counters, NEW free,
         Waits(q, g, p, free), g # p
  PROVE  /\ q[g % NumIds] \in free
         /\ Waits(q, (g + 1) % Width, p, free \ {q[g % NumIds]})
         /\ Dist((g + 1) % Width, p) = Dist(g, p) - 1
         /\ Dist(g, p) \in Nat /\ Dist(g, p) > 0
<1> DEFINE d == Dist(g, p)
           h == (g + 1) % Width
           n == q[g % NumIds]
<1>1. h \in Counters /\ Width \in Nat /\ g \in Int /\ p \in Int /\ NumIds \in Nat
  BY CountsOn, SMT DEF Sizes, Counters
<1>2. d \in Nat /\ d > 0 /\ Dist(h, p) = d - 1
  <2>1. d = IF p >= g THEN p - g ELSE (p - g) + Width
    BY DistIs
  <2>2. Dist(h, p) = IF p >= h THEN p - h ELSE (p - h) + Width
    BY <1>1, DistIs
  <2>3. h = IF g = Width - 1 THEN 0 ELSE g + 1
    BY CountsOn
  <2> HIDE DEF d, h
  <2> QED
    BY <1>1, <2>1, <2>2, <2>3, SMT DEF Counters
<1>3. Place(g, 0) = g % NumIds
  BY <1>1, SMT DEF Place
<1>4. \A k \in Nat : Place(h, k) = Place(g, k + 1)
  BY NextPlace
<1> HIDE DEF d, h
<1>5. /\ d <= NumIds
      /\ \A k \in Nat : k < d => q[Place(g, k)] \in free
      /\ \A j, k \in Nat : j < k /\ k < d => q[Place(g, j)] # q[Place(g, k)]
      /\ \A m \in free : \E k \in Nat : k < d /\ q[Place(g, k)] = m
  BY DEF Waits, d
<1>6. n \in free
  BY <1>2, <1>3, <1>5
<1>7. \A k \in Nat : k < d - 1 => q[Place(h, k)] \in free \ {n}
  <2> SUFFICES ASSUME NEW k \in Nat, k < d - 1 PROVE q[Place(h, k)] \in free \ {n}
    OBVIOUS
  <2>1. k + 1 \in Nat /\ k + 1 < d /\ 0 < k + 1
    BY <1>2, SMT
  <2> QED
    BY <1>3, <1>4, <1>5, <2>1
<1>8. \A j, k \in Nat : j < k /\ k < d - 1 => q[Place(h, j)] # q[Place(h, k)]
  <2> SUFFICES ASSUME NEW j \in Nat, NEW k \in Nat, j < k, k < d - 1
               PROVE  q[Place(h, j)] # q[Place(h, k)]
    OBVIOUS
  <2>1. j + 1 \in Nat /\ k + 1 \in Nat /\ j + 1 < k + 1 /\ k + 1 < d
    BY <1>2, SMT
  <2> QED
    BY <1>4, <1>5, <2>1
<1>9. \A m \in free \ {n} : \E k \in Nat : k < d - 1 /\ q[Place(h, k)] = m
  <2> SUFFICES ASSUME NEW m \in free \ {n} PROVE \E k \in Nat : k < d - 1 /\ q[Place(h, k)] = m
    OBVIOUS
  <2>1. PICK k \in Nat : k < d /\ q[Place(g, k)] = m
    BY <1>5
  <2>2. k # 0
    BY <1>3, <2>1
  <2>3. k - 1 \in Nat /\ k - 1 < d - 1 /\ (k - 1) + 1 = k
    BY <1>2, <2>1, <2>2, SMT
  <2>4. q[Place(h, k - 1)] = m
    BY <1>4, <2>1, <2>3
  <2> QED
    BY <2>3, <2>4
<1>10. d - 1 <= NumIds
  BY <1>1, <1>2, <1>5, SMT
<1> QED
  BY <1>2, <1>6, <1>7, <1>8, <1>9, <1>10 DEF Waits, d, h

(* What is put behind a queue that is not full is free, and nothing is     *)
(* overwritten.                                                            *)
LEMMA PutBack ==
  ASSUME Sizes, NEW q \in Queues, NEW g \in Counters, NEW p \in Counters, NEW free,
         Waits(q, g, p, free), Dist(g, p) < NumIds,
         NEW n \in Ids, n \notin free
  PROVE  /\ Waits([q EXCEPT ![p % NumIds] = n], g, (p + 1) % Width, free \cup {n})
         /\ Dist(g, (p + 1) % Width) = Dist(g, p) + 1
<1> DEFINE d == Dist(g, p)
           r == (p + 1) % Width
           t == [q EXCEPT ![p % NumIds] = n]
<1>1. r \in Counters /\ Width \in Nat /\ Width > NumIds /\ g \in Int /\ p \in Int /\ NumIds \in Nat \ {0}
  BY CountsOn, SMT DEF Sizes, Counters
<1>2. d \in Nat /\ d < NumIds /\ Dist(g, r) = d + 1
  <2>1. d = IF p >= g THEN p - g ELSE (p - g) + Width
    BY DistIs
  <2>2. Dist(g, r) = IF r >= g THEN r - g ELSE (r - g) + Width
    BY <1>1, DistIs
  <2>3. r = IF p = Width - 1 THEN 0 ELSE p + 1
    BY CountsOn
  <2>4. d < NumIds
    OBVIOUS
  <2> HIDE DEF d, r
  <2> QED
    BY <1>1, <2>1, <2>2, <2>3, <2>4, SMT DEF Counters
<1>3. Place(g, d) = p % NumIds
  BY LastPlace
<1>4. p % NumIds \in 0..(NumIds - 1)
  BY <1>1, PlacesAreInTheQueue
<1>5. t[Place(g, d)] = n
  BY <1>3, <1>4 DEF Queues
<1>6. ASSUME NEW k \in Nat, k < d
      PROVE  t[Place(g, k)] = q[Place(g, k)]
  <2>1. g + k \in Int /\ g + d \in Int /\ g + k < g + d /\ g + d < (g + k) + NumIds
    BY <1>1, <1>2, <1>6, SMT
  <2>2. Place(g, k) # Place(g, d)
    BY <1>1, <2>1, Apart DEF Place
  <2>3. Place(g, k) \in 0..(NumIds - 1)
    BY <2>1, PlacesAreInTheQueue DEF Place
  <2> QED
    BY <1>3, <2>2, <2>3 DEF Queues
<1>7. /\ \A k \in Nat : k < d => q[Place(g, k)] \in free
      /\ \A j, k \in Nat : j < k /\ k < d => q[Place(g, j)] # q[Place(g, k)]
      /\ \A m \in free : \E k \in Nat : k < d /\ q[Place(g, k)] = m
  BY DEF Waits
<1> HIDE DEF d, r, t
<1>8. \A k \in Nat : k < d + 1 <=> k < d \/ k = d
  BY <1>2, SMT
<1>9. \A k \in Nat : k < d + 1 => t[Place(g, k)] \in free \cup {n}
  BY <1>5, <1>6, <1>7, <1>8
<1>10. \A j, k \in Nat : j < k /\ k < d + 1 => t[Place(g, j)] # t[Place(g, k)]
  <2> SUFFICES ASSUME NEW j \in Nat, NEW k \in Nat, j < k, k < d + 1
               PROVE  t[Place(g, j)] # t[Place(g, k)]
    OBVIOUS
  <2>1. j < d /\ (k < d \/ k = d)
    BY <1>2, SMT
  <2>2. t[Place(g, j)] = q[Place(g, j)] /\ q[Place(g, j)] \in free
    BY <1>6, <1>7, <2>1
  <2>3. CASE k < d
    BY <1>6, <1>7, <2>2, <2>3
  <2>4. CASE k = d
    BY <1>5, <2>2, <2>4
  <2> QED
    BY <2>1, <2>3, <2>4
<1>11. \A m \in free \cup {n} : \E k \in Nat : k < d + 1 /\ t[Place(g, k)] = m
  BY <1>2, <1>5, <1>6, <1>7, <1>8
<1>12. d + 1 <= NumIds
  BY <1>1, <1>2, SMT
<1> QED
  BY <1>2, <1>9, <1>10, <1>11, <1>12 DEF Waits, d, r, t
-----------------------------------------------------------------------------
(* The invariant.                                                          *)

TypeOK ==
  /\ players \in [Structs -> Structs] /\ num \in 0..MaxPlayers
  /\ id \in [Structs -> 0..NumIds] /\ getInd \in [0..NumIds -> Nat]
  /\ idQueue \in Queues /\ getId \in Counters /\ putId \in Counters
  /\ inUse \in SUBSET Ids

EverybodyOnce == \A i, j \in Structs : players[i] = players[j] => i = j

Indexed == \A i \in 1..num : id[players[i]] \in inUse /\ getInd[id[players[i]]] = i - 1

FreeAreWaiting == /\ Waits(idQueue, getId, putId, Ids \ inUse)
                  /\ Dist(getId, putId) = NumIds - num

TableInv == TypeOK /\ EverybodyOnce /\ Indexed /\ FreeAreWaiting /\ Cardinality(inUse) = num

(* The numbers among the variables and constants.                          *)
LEMMA Numbers ==
  ASSUME Sizes, TypeOK
  PROVE  /\ num \in Nat /\ num <= MaxPlayers /\ MaxPlayers \in Nat /\ MaxPlayers <= NumIds
         /\ NumIds \in Nat \ {0} /\ Width \in Nat
         /\ \A i \in 1..num : i \in Structs /\ i \in Nat /\ players[i] \in Structs
         /\ Ids \subseteq 0..NumIds /\ NoId \notin Ids
         /\ IsFiniteSet(inUse)
<1>1. /\ num \in Nat /\ num <= MaxPlayers /\ MaxPlayers \in Nat /\ MaxPlayers <= NumIds
      /\ NumIds \in Nat \ {0} /\ Width \in Nat
  BY SMT DEF Sizes, TypeOK
<1>2. \A i \in 1..num : i \in Structs /\ i \in Nat
  BY <1>1, SMT DEF Structs
<1>3. \A i \in 1..num : players[i] \in Structs
  BY <1>2 DEF TypeOK
<1>4. Ids \subseteq 0..NumIds /\ NoId \notin Ids
  BY <1>1, SMT DEF Ids, NoId
<1>5. IsFiniteSet(Ids)
  BY <1>1, FS_Interval, SMT DEF Ids
<1>6. IsFiniteSet(inUse)
  BY <1>5, FS_Subset DEF TypeOK
<1> QED
  BY <1>1, <1>2, <1>3, <1>4, <1>6

LEMMA TableInvInit ==
  ASSUME Sizes, TableInit
  PROVE  TableInv
<1>1. PICK m \in Nat : Width = NumIds * m
  BY DEF Sizes
<1>2. NumIds \in Nat \ {0} /\ MaxPlayers \in Nat /\ Width \in Nat /\ Width > NumIds
  BY SMT DEF Sizes
<1>3. getId \in Counters /\ putId \in Counters
  BY <1>2, SMT DEF TableInit, Counters
<1>4. TypeOK
  <2>1. NoId \in 0..NumIds /\ 0 \in Nat /\ 0 \in 0..MaxPlayers
    BY <1>2, SMT DEF NoId
  <2>2. \A k \in 0..(NumIds - 1) : k + 1 \in Ids
    BY <1>2, SMT DEF Ids
  <2> QED
    BY <1>3, <2>1, <2>2 DEF TableInit, TypeOK, Queues
<1>5. Dist(getId, putId) = NumIds
  <2>1. Dist(getId, putId) = IF putId >= getId THEN putId - getId ELSE (putId - getId) + Width
    BY <1>3, DistIs
  <2> QED
    BY <1>2, <2>1, SMT DEF TableInit
<1>6. \A k \in Nat : k < NumIds => Place(getId, k) = k
  <2> SUFFICES ASSUME NEW k \in Nat, k < NumIds PROVE (getId + k) % NumIds = k
    BY DEF Place
  <2>1. /\ m - 1 \in Int /\ k \in 0..(NumIds - 1) /\ getId + k \in Int
        /\ getId + k = NumIds * (m - 1) + k
    BY <1>1, <1>2, SMT DEF TableInit
  <2> QED
    BY <1>2, <2>1, Remainder
<1>7. Ids \ inUse = Ids
  BY DEF TableInit
<1>8. Waits(idQueue, getId, putId, Ids)
  <2>1. \A k \in Nat : k < NumIds => idQueue[Place(getId, k)] = k + 1 /\ k + 1 \in Ids
    BY <1>2, <1>6, SMT DEF TableInit, Ids
  <2>2. \A j, k \in Nat : j < k /\ k < NumIds => idQueue[Place(getId, j)] # idQueue[Place(getId, k)]
    <3> SUFFICES ASSUME NEW j \in Nat, NEW k \in Nat, j < k, k < NumIds
                 PROVE  idQueue[Place(getId, j)] # idQueue[Place(getId, k)]
      OBVIOUS
    <3>1. j < NumIds /\ j + 1 # k + 1
      BY <1>2, SMT
    <3> QED
      BY <2>1, <3>1
  <2>3. \A n \in Ids : \E k \in Nat : k < NumIds /\ idQueue[Place(getId, k)] = n
    <3> SUFFICES ASSUME NEW n \in Ids PROVE \E k \in Nat : k < NumIds /\ idQueue[Place(getId, k)] = n
      OBVIOUS
    <3>1. n - 1 \in Nat /\ n - 1 < NumIds /\ (n - 1) + 1 = n
      BY <1>2, SMT DEF Ids
    <3> QED
      BY <2>1, <3>1
  <2>4. NumIds <= NumIds
    BY <1>2, SMT
  <2> QED
    BY <1>5, <2>1, <2>2, <2>3, <2>4 DEF Waits
<1>9. FreeAreWaiting
  BY <1>2, <1>5, <1>7, <1>8, SMT DEF FreeAreWaiting, TableInit
<1>10. EverybodyOnce
  BY DEF TableInit, EverybodyOnce
<1>11. Indexed
  BY SMT DEF TableInit, Indexed
<1>12. Cardinality(inUse) = num
  BY FS_EmptySet DEF TableInit
<1> QED
  BY <1>4, <1>9, <1>10, <1>11, <1>12 DEF TableInv

(* As long as a struct is free, so is an identifier.                       *)
LEMMA IdsSuffice ==
  ASSUME Sizes, TableInv, num < MaxPlayers
  PROVE  /\ getId # putId
         /\ PeekId = idQueue[getId % NumIds]
         /\ PeekId \in Ids /\ PeekId \notin inUse /\ PeekId # NoId
         /\ Waits(idQueue, (getId + 1) % Width, putId, Ids \ (inUse \cup {PeekId}))
         /\ Dist((getId + 1) % Width, putId) = NumIds - (num + 1)
         /\ (getId + 1) % Width \in Counters
<1>1. TypeOK /\ FreeAreWaiting
  BY DEF TableInv
<1>2. getId # putId
  <2>1. Dist(getId, putId) = IF putId >= getId THEN putId - getId ELSE (putId - getId) + Width
    BY <1>1, DistIs DEF TypeOK
  <2>2. Dist(getId, putId) > 0
    BY <1>1, Numbers, SMT DEF FreeAreWaiting
  <2> QED
    BY <1>1, <2>1, <2>2, SMT DEF TypeOK, Counters
<1>3. PeekId = idQueue[getId % NumIds]
  BY <1>2 DEF PeekId
<1>4. /\ PeekId \in Ids \ inUse
      /\ Waits(idQueue, (getId + 1) % Width, putId, (Ids \ inUse) \ {PeekId})
      /\ Dist((getId + 1) % Width, putId) = Dist(getId, putId) - 1
  BY <1>1, <1>2, <1>3, Taken DEF TypeOK, FreeAreWaiting
<1>5. (Ids \ inUse) \ {PeekId} = Ids \ (inUse \cup {PeekId})
  OBVIOUS
<1>6. Dist((getId + 1) % Width, putId) = NumIds - (num + 1)
  BY <1>1, <1>4, Numbers, SMT DEF FreeAreWaiting
<1>7. (getId + 1) % Width \in Counters
  BY <1>1, CountsOn DEF TypeOK
<1>8. PeekId # NoId
  BY <1>1, <1>4, Numbers
<1> QED
  BY <1>2, <1>3, <1>4, <1>5, <1>6, <1>7, <1>8
-----------------------------------------------------------------------------
(* Coming.                                                                 *)

LEMMA AddKeeps ==
  ASSUME Sizes, TableInv, NEW isRobot, PlayerAdd(isRobot)
  PROVE  /\ TableInv'
         /\ players[num + 1] \notin Present
         /\ Present' = Present \cup {players[num + 1]}
<1> DEFINE p == players[num + 1]
           n == PeekId
<1>1. TypeOK /\ EverybodyOnce /\ Indexed /\ FreeAreWaiting /\ Cardinality(inUse) = num
  BY DEF TableInv
<1>2. /\ num < MaxPlayers
      /\ id' = [id EXCEPT ![p] = n] /\ getInd' = [getInd EXCEPT ![n] = num]
      /\ getId' = (IF n = NoId THEN getId ELSE (getId + 1) % Width)
      /\ inUse' = inUse \cup ({n} \ {NoId})
      /\ num' = num + 1
      /\ UNCHANGED <<players, idQueue, putId, operators, numOperators, gameLock, abandoned, up>>
  BY DEF PlayerAdd
<1>3. /\ n \in Ids /\ n \notin inUse /\ n # NoId
      /\ Waits(idQueue, (getId + 1) % Width, putId, Ids \ (inUse \cup {n}))
      /\ Dist((getId + 1) % Width, putId) = NumIds - (num + 1)
      /\ (getId + 1) % Width \in Counters
  BY <1>2, IdsSuffice
<1>4. getId' = (getId + 1) % Width /\ inUse' = inUse \cup {n}
  BY <1>2, <1>3
<1>5. num + 1 \in Structs /\ num + 1 \in 0..MaxPlayers /\ num \in Nat
      /\ (1..num') = (1..num) \cup {num + 1}
      /\ \A i \in 1..num : i # num + 1 /\ i \in Structs
      /\ num = (num + 1) - 1
  BY <1>1, <1>2, Numbers, SMT DEF Structs
<1>6. p \in Structs /\ n \in 0..NumIds
  BY <1>1, <1>3, <1>5, Numbers DEF TypeOK
<1> HIDE DEF n
<1>7. p \notin Present
  BY <1>1, <1>5 DEF Present, EverybodyOnce
<1>8. Present' = Present \cup {p}
  BY <1>2, <1>5 DEF Present
<1>9. TypeOK'
  BY <1>1, <1>2, <1>3, <1>4, <1>5, <1>6 DEF TypeOK
<1>10. EverybodyOnce'
  BY <1>1, <1>2 DEF EverybodyOnce
<1>11. Indexed'
  <2> SUFFICES ASSUME NEW i \in 1..num'
               PROVE  id'[players[i]] \in inUse' /\ getInd'[id'[players[i]]] = i - 1
    BY <1>2 DEF Indexed
  <2>1. CASE i = num + 1
    BY <1>1, <1>2, <1>4, <1>5, <1>6, <2>1 DEF TypeOK
  <2>2. CASE i \in 1..num
    <3>1. id[players[i]] \in inUse /\ getInd[id[players[i]]] = i - 1
      BY <1>1, <2>2 DEF Indexed
    <3>2. players[i] # p /\ players[i] \in Structs
      BY <1>1, <1>7, <2>2, Numbers DEF Present
    <3>3. id'[players[i]] = id[players[i]]
      BY <1>1, <1>2, <3>2 DEF TypeOK
    <3>4. id[players[i]] # n /\ id[players[i]] \in 0..NumIds
      BY <1>1, <1>3, <3>1, <3>2 DEF TypeOK
    <3>5. getInd'[id[players[i]]] = getInd[id[players[i]]]
      BY <1>1, <1>2, <3>4 DEF TypeOK
    <3> QED
      BY <1>4, <3>1, <3>3, <3>5
  <2> QED
    BY <1>5, <2>1, <2>2
<1>12. FreeAreWaiting'
  BY <1>2, <1>3, <1>4 DEF FreeAreWaiting
<1>13. Cardinality(inUse') = num'
  BY <1>1, <1>2, <1>3, <1>4, Numbers, FS_AddElement
<1> QED
  BY <1>7, <1>8, <1>9, <1>10, <1>11, <1>12, <1>13 DEF TableInv

LEMMA BackKeeps ==
  ASSUME Sizes, TableInv, RobotGoesBack
  PROVE  TableInv' /\ Present' = Present
<1> DEFINE n == PeekId
<1>1. TypeOK /\ EverybodyOnce /\ Indexed /\ FreeAreWaiting /\ Cardinality(inUse) = num
  BY DEF TableInv
<1>2. /\ num < MaxPlayers
      /\ getInd' = [getInd EXCEPT ![n] = num]
      /\ getId' = (getId + 1) % Width
      /\ idQueue' = [idQueue EXCEPT ![putId % NumIds] = n] /\ putId' = (putId + 1) % Width
      /\ UNCHANGED <<players, num, id, inUse, robots, operators, numOperators, gameLock, abandoned, up>>
  BY DEF RobotGoesBack
<1>3. /\ n \in Ids /\ n \notin inUse
      /\ Waits(idQueue, (getId + 1) % Width, putId, Ids \ (inUse \cup {n}))
      /\ Dist((getId + 1) % Width, putId) = NumIds - (num + 1)
      /\ (getId + 1) % Width \in Counters
  BY <1>2, IdsSuffice
<1> HIDE DEF n
<1>4. n \in 0..NumIds /\ num \in Nat
  BY <1>1, <1>3, Numbers
<1>5. /\ idQueue \in Queues /\ putId \in Counters /\ n \notin Ids \ (inUse \cup {n})
      /\ Dist((getId + 1) % Width, putId) < NumIds
      /\ (NumIds - (num + 1)) + 1 = NumIds - num
  BY <1>1, <1>3, Numbers, SMT DEF TypeOK
<1>6. /\ Waits(idQueue', getId', putId', (Ids \ (inUse \cup {n})) \cup {n})
      /\ Dist(getId', putId') = NumIds - num
  BY <1>2, <1>3, <1>5, PutBack
<1>7. (Ids \ (inUse \cup {n})) \cup {n} = Ids \ inUse
  BY <1>3
<1>8. FreeAreWaiting'
  BY <1>2, <1>6, <1>7 DEF FreeAreWaiting
<1>9. TypeOK'
  <2>1. putId' \in Counters
    BY <1>2, <1>5, CountsOn
  <2>2. idQueue' \in Queues
    BY <1>2, <1>3, <1>5 DEF Queues
  <2> QED
    BY <1>1, <1>2, <1>3, <1>4, <2>1, <2>2 DEF TypeOK
<1>10. Indexed'
  <2> SUFFICES ASSUME NEW i \in 1..num
               PROVE  id[players[i]] \in inUse /\ getInd'[id[players[i]]] = i - 1
    BY <1>2 DEF Indexed
  <2>1. id[players[i]] \in inUse /\ getInd[id[players[i]]] = i - 1
    BY <1>1 DEF Indexed
  <2>2. id[players[i]] # n /\ id[players[i]] \in 0..NumIds
    BY <1>1, <1>3, <2>1, Numbers DEF TypeOK
  <2> QED
    BY <1>1, <1>2, <2>1, <2>2 DEF TypeOK
<1>11. EverybodyOnce' /\ Present' = Present /\ Cardinality(inUse') = num'
  BY <1>1, <1>2 DEF EverybodyOnce, Present
<1> QED
  BY <1>8, <1>9, <1>10, <1>11 DEF TableInv
-----------------------------------------------------------------------------
(* Going.                                                                  *)

LEMMA RemoveKeeps ==
  ASSUME Sizes, TableInv, NEW p \in Present, PlayerRemove(p)
  PROVE  TableInv' /\ Present' = Present \ {p}
<1> DEFINE n    == id[p]
           last == players[num]
           gone == getInd[n] + 1
<1>1. TypeOK /\ EverybodyOnce /\ Indexed /\ FreeAreWaiting /\ Cardinality(inUse) = num
  BY DEF TableInv
<1>2. /\ players' = [players EXCEPT ![gone] = last, ![num] = p]
      /\ getInd' = [getInd EXCEPT ![id[last]] = getInd[n], ![n] = num - 1]
      /\ idQueue' = [idQueue EXCEPT ![putId % NumIds] = n] /\ putId' = (putId + 1) % Width
      /\ inUse' = inUse \ {n}
      /\ num' = num - 1 /\ id' = [id EXCEPT ![p] = NoId] /\ getId' = getId
  BY DEF PlayerRemove, Swapped, ReleaseId
<1>3. PICK i0 \in 1..num : p = players[i0]
  BY DEF Present
<1>4. n \in inUse /\ getInd[n] = i0 - 1 /\ p \in Structs /\ n \in Ids
  BY <1>1, <1>3, Numbers DEF Indexed, TypeOK
<1>5. /\ gone = i0 /\ num \in 1..num /\ num - 1 \in 0..MaxPlayers /\ num - 1 \in Nat /\ i0 - 1 \in Nat
      /\ (1..(num - 1)) \cup {num} = 1..num
      /\ \A i \in 1..(num - 1) : i \in 1..num /\ i # num
      /\ i0 # num => i0 \in 1..(num - 1)
      /\ NoId \in 0..NumIds
  BY <1>1, <1>3, <1>4, Numbers, SMT DEF NoId
<1>6. last \in Structs /\ id[last] \in inUse /\ getInd[id[last]] = num - 1 /\ id[last] \in 0..NumIds
  BY <1>1, <1>5, Numbers DEF Indexed, TypeOK
<1>7. n \in 0..NumIds /\ num \in Structs /\ i0 \in Structs
  BY <1>1, <1>3, <1>4, <1>5, Numbers
<1> HIDE DEF n, last, gone
<1>8. /\ players'[num] = p
      /\ i0 # num => players'[i0] = last
      /\ \A i \in Structs \ {i0, num} : players'[i] = players[i]
  BY <1>1, <1>2, <1>5, <1>7 DEF TypeOK
<1>9. /\ getInd'[n] = num - 1
      /\ id[last] # n => getInd'[id[last]] = i0 - 1
      /\ \A m \in (0..NumIds) \ {n, id[last]} : getInd'[m] = getInd[m]
  BY <1>1, <1>2, <1>4, <1>6, <1>7 DEF TypeOK
<1>10. TypeOK'
  <2>1. players' \in [Structs -> Structs] /\ id' \in [Structs -> 0..NumIds]
        /\ getInd' \in [0..NumIds -> Nat]
    BY <1>1, <1>2, <1>4, <1>5, <1>6 DEF TypeOK
  <2>2. putId' \in Counters /\ idQueue' \in Queues /\ inUse' \in SUBSET Ids
    BY <1>1, <1>2, <1>4, CountsOn DEF TypeOK, Queues
  <2> QED
    BY <1>1, <1>2, <1>5, <2>1, <2>2 DEF TypeOK
<1>11. EverybodyOnce'
  BY <1>1, <1>3, <1>5, <1>7, <1>8 DEF EverybodyOnce, last
<1>12. ASSUME NEW i \in 1..(num - 1)
       PROVE  id'[players'[i]] \in inUse' /\ getInd'[id'[players'[i]]] = i - 1
  <2>1. i \in 1..num /\ i # num /\ i \in Structs
    BY <1>1, <1>5, Numbers
  <2>2. CASE i = i0
    <3>1. i0 # num /\ players'[i] = last
      BY <1>8, <2>1, <2>2
    <3>2. last # p
      BY <1>1, <1>3, <1>7, <3>1 DEF EverybodyOnce, last
    <3>3. id'[last] = id[last]
      BY <1>1, <1>2, <1>6, <3>2 DEF TypeOK
    <3>4. id[last] # n
      <4>1. i0 - 1 # num - 1
        BY <1>5, <3>1, Numbers, <1>1, <1>7, SMT DEF Structs
      <4> QED
        BY <1>4, <1>6, <4>1
    <3>5. id'[players'[i]] = id[last]
      BY <3>1, <3>3
    <3>6. id[last] \in inUse'
      BY <1>2, <1>6, <3>4
    <3>7. getInd'[id[last]] = i - 1
      BY <1>9, <2>2, <3>4
    <3> QED
      BY <3>5, <3>6, <3>7
  <2>3. CASE i # i0
    <3>1. players'[i] = players[i]
      BY <1>8, <2>1, <2>3
    <3>2. id[players[i]] \in inUse /\ getInd[id[players[i]]] = i - 1
      BY <1>1, <2>1 DEF Indexed
    <3>3. players[i] # p /\ players[i] \in Structs
      BY <1>1, <1>3, <1>7, <2>1, <2>3, Numbers DEF EverybodyOnce
    <3>4. id'[players[i]] = id[players[i]]
      BY <1>1, <1>2, <3>3 DEF TypeOK
    <3>5. i - 1 # i0 - 1 /\ i - 1 # num - 1
      BY <1>1, <1>7, <2>1, <2>3, Numbers, SMT DEF Structs
    <3>6. id[players[i]] # n /\ id[players[i]] # id[last] /\ id[players[i]] \in 0..NumIds
      BY <1>1, <1>4, <1>6, <3>2, <3>3, <3>5 DEF TypeOK
    <3>7. id'[players'[i]] = id[players[i]]
      BY <3>1, <3>4
    <3>8. id[players[i]] \in inUse'
      BY <1>2, <3>2, <3>6
    <3>9. getInd'[id[players[i]]] = i - 1
      BY <1>9, <3>2, <3>6
    <3> QED
      BY <3>7, <3>8, <3>9
  <2> QED
    BY <2>2, <2>3
<1>13. Indexed'
  BY <1>2, <1>12 DEF Indexed
<1>14. FreeAreWaiting'
  <2>1. n \notin Ids \ inUse /\ Dist(getId, putId) < NumIds /\ (NumIds - num) + 1 = NumIds - (num - 1)
    BY <1>1, <1>4, <1>5, Numbers, SMT DEF FreeAreWaiting
  <2>2. /\ Waits(idQueue', getId, putId', (Ids \ inUse) \cup {n})
        /\ Dist(getId, putId') = NumIds - (num - 1)
    BY <1>1, <1>2, <1>4, <2>1, PutBack DEF FreeAreWaiting, TypeOK
  <2>3. (Ids \ inUse) \cup {n} = Ids \ (inUse \ {n})
    BY <1>4
  <2> QED
    BY <1>2, <2>2, <2>3 DEF FreeAreWaiting
<1>15. Cardinality(inUse') = num'
  BY <1>1, <1>2, <1>4, Numbers, FS_RemoveElement
<1>16. Present' = Present \ {p}
  <2>1. Present' = {players'[i] : i \in 1..(num - 1)}
    BY <1>2 DEF Present
  <2>2. ASSUME NEW i \in 1..(num - 1)
        PROVE  players'[i] \in Present /\ players'[i] # p
    <3>1. i \in 1..num /\ i # num /\ i \in Structs
      BY <1>1, <1>5, Numbers
    <3>2. CASE i = i0
      BY <1>1, <1>3, <1>5, <1>7, <1>8, <3>1, <3>2 DEF EverybodyOnce, last, Present
    <3>3. CASE i # i0
      BY <1>1, <1>3, <1>7, <1>8, <3>1, <3>3 DEF EverybodyOnce, Present
    <3> QED
      BY <3>2, <3>3
  <2>3. ASSUME NEW q \in Present, q # p
        PROVE  \E i \in 1..(num - 1) : players'[i] = q
    <3>1. PICK i \in 1..num : q = players[i]
      BY DEF Present
    <3>2. i # i0
      BY <1>3, <2>3, <3>1
    <3>3. CASE i = num
      BY <1>5, <1>8, <3>1, <3>2, <3>3 DEF last
    <3>4. CASE i # num
      <4>1. i \in 1..(num - 1) /\ i \in Structs
        BY <1>1, <1>5, <3>1, <3>4, Numbers
      <4> QED
        BY <1>8, <3>1, <3>2, <3>4, <4>1
    <3> QED
      BY <3>3, <3>4
  <2> QED
    BY <2>1, <2>2, <2>3
<1> QED
  BY <1>10, <1>11, <1>13, <1>14, <1>15, <1>16 DEF TableInv
-----------------------------------------------------------------------------
(* Every step.                                                             *)

(* A step adds a player, removes one who is there, has a robot come and    *)
(* go, or leaves the table alone.                                          *)
LEMMA StepsOfTheTable ==
  ASSUME Sizes, TableInv, TableNext
  PROVE  \/ PlayerAdd(FALSE)
         \/ PlayerAdd(TRUE)
         \/ RobotGoesBack
         \/ \E p \in Present : PlayerRemove(p)
         \/ Password
         \/ UNCHANGED table /\ (LockCommand \/ LockFromOutside)
         \/ UNCHANGED <<table, operators, numOperators, gameLock, abandoned>>
<1>1. CASE KickById
  <2>1. PICK n \in Ids :
          IF getInd[n] < num
          THEN PlayerRemove(players[getInd[n] + 1])
          ELSE up' = FALSE /\ UNCHANGED <<table, operators, numOperators, gameLock, abandoned>>
    BY <1>1 DEF KickById
  <2>2. CASE getInd[n] < num
    <3>1. n \in 0..NumIds /\ num \in Nat
      BY Numbers DEF TableInv
    <3>2. getInd[n] \in Nat
      BY <3>1 DEF TableInv, TypeOK
    <3>3. getInd[n] + 1 \in 1..num
      BY <2>2, <3>1, <3>2, SMT
    <3>4. players[getInd[n] + 1] \in Present
      BY <3>3 DEF Present
    <3> QED
      BY <2>1, <2>2, <3>4
  <2> QED
    BY <2>1, <2>2
<1>2. CASE PlayerLogin \/ RobotAdd
  BY <1>2 DEF PlayerLogin, RobotAdd
<1>3. CASE RobotGoesBack
  BY <1>3
<1>4. CASE PlayerLeaves \/ Kick
  BY <1>4 DEF PlayerLeaves, Kick
<1>5. CASE Password
  BY <1>5
<1>6. CASE LockCommand \/ LockFromOutside
  BY <1>6 DEF LockCommand, LockFromOutside, SetLock
<1> QED
  BY <1>1, <1>2, <1>3, <1>4, <1>5, <1>6 DEF TableNext

LEMMA TableKept ==
  ASSUME TableInv, UNCHANGED table
  PROVE  TableInv' /\ Present' = Present
BY DEF table, TableInv, TypeOK, EverybodyOnce, Indexed, FreeAreWaiting, Present

LEMMA TableStep ==
  ASSUME Sizes, TableInv, [TableNext]_tableVars
  PROVE  TableInv'
<1>1. CASE UNCHANGED table
  BY <1>1, TableKept
<1>2. CASE PlayerAdd(FALSE) \/ PlayerAdd(TRUE)
  BY <1>2, AddKeeps
<1>3. CASE RobotGoesBack
  BY <1>3, BackKeeps
<1>4. CASE \E p \in Present : PlayerRemove(p)
  BY <1>4, RemoveKeeps
<1> QED
  BY <1>1, <1>2, <1>3, <1>4, StepsOfTheTable DEF Password, tableVars

LEMMA TableIdentifies ==
  ASSUME Sizes, TableInv
  PROVE  IdsAreTheirs
<1> DEFINE waiting == [k \in 1..Distance |-> idQueue[(getId + k - 1) % NumIds]]
<1>1. TypeOK /\ Indexed /\ FreeAreWaiting /\ Cardinality(inUse) = num
  BY DEF TableInv
<1>2. Distance = Dist(getId, putId) /\ Distance \in Nat /\ getId \in Int
  BY <1>1, Numbers, SMT DEF Distance, Dist, FreeAreWaiting, TypeOK, Counters
<1>3. \A k \in 1..Distance : /\ k - 1 \in Nat /\ k - 1 < Distance
                             /\ getId + k - 1 = getId + (k - 1)
  BY <1>2, SMT
<1>4. \A k \in 1..Distance : waiting[k] = idQueue[Place(getId, k - 1)]
  BY <1>3 DEF Place
<1>5. DOMAIN waiting = 1..Distance
  OBVIOUS
<1> HIDE DEF waiting
<1>6. /\ \A k \in Nat : k < Distance => idQueue[Place(getId, k)] \in Ids \ inUse
      /\ \A j, k \in Nat : j < k /\ k < Distance => idQueue[Place(getId, j)] # idQueue[Place(getId, k)]
      /\ \A n \in Ids \ inUse : \E k \in Nat : k < Distance /\ idQueue[Place(getId, k)] = n
  BY <1>1, <1>2 DEF FreeAreWaiting, Waits
<1>7. IsInjective(waiting)
  <2> SUFFICES ASSUME NEW j \in 1..Distance, NEW k \in 1..Distance, waiting[j] = waiting[k]
               PROVE  j = k
    BY <1>5 DEF IsInjective
  <2>1. ~(j - 1 < k - 1) /\ ~(k - 1 < j - 1)
    BY <1>3, <1>4, <1>6
  <2> QED
    BY <1>2, <2>1, SMT
<1>8. \A k \in 1..Distance : waiting[k] \in Ids \ inUse
  BY <1>3, <1>4, <1>6
<1>9. \A n \in Ids \ inUse : \E k \in 1..Distance : waiting[k] = n
  <2> SUFFICES ASSUME NEW n \in Ids \ inUse PROVE \E k \in 1..Distance : waiting[k] = n
    OBVIOUS
  <2>1. PICK k \in Nat : k < Distance /\ idQueue[Place(getId, k)] = n
    BY <1>6
  <2>2. k + 1 \in 1..Distance /\ (k + 1) - 1 = k
    BY <1>2, <2>1, SMT
  <2> QED
    BY <1>4, <2>1, <2>2
<1>10. ToSet(waiting) = Ids \ inUse
  BY <1>5, <1>8, <1>9 DEF ToSet
<1> QED
  BY <1>1, <1>7, <1>10 DEF IdsAreTheirs, Indexed, waiting

(* Everybody has an identifier of their own by which they are found, and   *)
(* all the others wait once each, over any number of laps of the queue.    *)
THEOREM IdsStayTheirs ==
  ASSUME Sizes
  PROVE  TableSpec => []IdsAreTheirs
<1>1. TableInit => TableInv
  BY TableInvInit
<1>2. TableInv /\ [TableNext]_tableVars => TableInv'
  BY TableStep
<1>3. TableInv => IdsAreTheirs
  BY TableIdentifies
<1> QED
  BY <1>1, <1>2, <1>3, PTL DEF TableSpec
-----------------------------------------------------------------------------
(* Operators.                                                              *)

OperatorsInv ==
  /\ operators \in SUBSET Structs /\ abandoned \in BOOLEAN
  /\ OperatorsAreCounted

LEMMA OperatorsInit ==
  ASSUME Sizes, TableInit
  PROVE  OperatorsInv
BY FS_EmptySet DEF TableInit, OperatorsInv, OperatorsAreCounted

LEMMA FiniteOperators ==
  ASSUME Sizes, OperatorsInv
  PROVE  IsFiniteSet(operators) /\ Cardinality(operators) \in Nat
         /\ (Cardinality(operators) = 0 <=> operators = {})
<1>1. MaxPlayers \in Int /\ 1 \in Int
  BY SMT DEF Sizes
<1>2. IsFiniteSet(Structs)
  BY <1>1, FS_Interval DEF Structs
<1>3. IsFiniteSet(operators)
  BY <1>2, FS_Subset DEF OperatorsInv
<1> QED
  BY <1>3, FS_CardinalityType, FS_EmptySet

LEMMA OperatorsStep ==
  ASSUME Sizes, TableInv, OperatorsInv, [TableNext]_tableVars
  PROVE  OperatorsInv'
<1>0. /\ operators \in SUBSET Structs /\ abandoned \in BOOLEAN
      /\ operators \subseteq Present \ robots
      /\ numOperators = Cardinality(operators)
      /\ gameLock = "operator" => operators # {} \/ abandoned
  BY DEF OperatorsInv, OperatorsAreCounted, Humans
<1>1. ASSUME NEW isRobot \in BOOLEAN, PlayerAdd(isRobot)
      PROVE  OperatorsInv'
  <2>1. players[num + 1] \notin Present /\ Present' = Present \cup {players[num + 1]}
    BY <1>1, AddKeeps
  <2>2. /\ robots' = (IF isRobot THEN robots \cup {players[num + 1]} ELSE robots)
        /\ UNCHANGED <<operators, numOperators, gameLock, abandoned>>
    BY <1>1 DEF PlayerAdd
  <2>3. operators \subseteq Present' \ robots'
    BY <1>0, <2>1, <2>2
  <2> QED
    BY <1>0, <2>2, <2>3 DEF OperatorsInv, OperatorsAreCounted, Humans
<1>2. CASE RobotGoesBack
  <2>1. Present' = Present
    BY <1>2, BackKeeps
  <2> QED
    BY <1>0, <1>2, <2>1 DEF RobotGoesBack, OperatorsInv, OperatorsAreCounted, Humans
<1>3. ASSUME NEW p \in Present, PlayerRemove(p)
      PROVE  OperatorsInv'
  <2>1. Present' = Present \ {p}
    BY <1>3, RemoveKeeps
  <2>2. /\ operators' = operators \ {p} /\ robots' = robots \ {p}
        /\ abandoned' = (abandoned /\ gameLock' # "nobody")
        /\ p \in operators => numOperators' = numOperators - 1 /\ gameLock' = LockAfter(numOperators - 1)
        /\ p \notin operators => numOperators' = numOperators /\ gameLock' = gameLock
    BY <1>3 DEF PlayerRemove
  <2>3. operators' \subseteq Present' \ robots' /\ operators' \in SUBSET Structs
    BY <1>0, <2>1, <2>2
  <2>4. numOperators' = Cardinality(operators')
    <3>1. CASE p \in operators
      BY <1>0, <2>2, <3>1, FiniteOperators, FS_RemoveElement
    <3>2. CASE p \notin operators
      BY <1>0, <2>2, <3>2
    <3> QED
      BY <3>1, <3>2
  <2>5. abandoned' \in BOOLEAN
    BY <2>2
  <2>6. gameLock' = "operator" => operators' # {} \/ abandoned'
    <3> SUFFICES ASSUME gameLock' = "operator" PROVE operators' # {} \/ abandoned'
      OBVIOUS
    <3>1. abandoned => abandoned'
      BY <2>2
    <3>2. CASE p \in operators
      <4>1. numOperators - 1 # 0
        BY <2>2, <3>2 DEF LockAfter
      <4>2. Cardinality(operators') # 0 /\ IsFiniteSet(operators')
        BY <2>2, <2>4, <3>2, <4>1, FiniteOperators, FS_RemoveElement
      <4> QED
        BY <4>2, FS_EmptySet
    <3>3. CASE p \notin operators
      <4>1. gameLock = "operator" /\ operators' = operators
        BY <2>2, <3>3
      <4> QED
        BY <1>0, <3>1, <4>1
    <3> QED
      BY <3>2, <3>3
  <2> QED
    BY <2>3, <2>4, <2>5, <2>6 DEF OperatorsInv, OperatorsAreCounted, Humans
<1>4. CASE Password
  <2>1. PICK p \in Humans, right \in BOOLEAN :
          /\ operators' = IF right THEN operators \cup {p} ELSE operators \ {p}
          /\ numOperators' = numOperators + (IF right /\ p \notin operators THEN 1 ELSE 0)
                                          - (IF ~right /\ p \in operators THEN 1 ELSE 0)
    BY <1>4 DEF Password
  <2>2. /\ abandoned' = (operators' = {} /\ gameLock # "nobody" /\ (abandoned \/ operators # {}))
        /\ UNCHANGED <<table, gameLock>>
    BY <1>4 DEF Password
  <2>3. p \in Structs
    BY Numbers DEF Humans, Present, TableInv
  <2>4. operators' \in SUBSET Structs /\ operators' \subseteq Present \ robots
    BY <1>0, <2>1, <2>3 DEF Humans
  <2>5. numOperators' = Cardinality(operators')
    <3>1. CASE right
      <4>1. Cardinality(operators \cup {p}) =
              IF p \in operators THEN Cardinality(operators) ELSE Cardinality(operators) + 1
        BY FiniteOperators, FS_AddElement
      <4> QED
        BY <1>0, <2>1, <3>1, <4>1, FiniteOperators, SMT
    <3>2. CASE ~right
      <4>1. Cardinality(operators \ {p}) =
              IF p \in operators THEN Cardinality(operators) - 1 ELSE Cardinality(operators)
        BY FiniteOperators, FS_RemoveElement
      <4> QED
        BY <1>0, <2>1, <3>2, <4>1, FiniteOperators, SMT
    <3> QED
      BY <3>1, <3>2
  <2>6. abandoned' \in BOOLEAN
    BY <2>2
  <2>7. gameLock' = "operator" => operators' # {} \/ abandoned'
    BY <1>0, <2>2
  <2>8. Humans' = Present \ robots
    BY <2>2 DEF Humans, Present, table
  <2> QED
    BY <2>4, <2>5, <2>6, <2>7, <2>8 DEF OperatorsInv, OperatorsAreCounted
<1>5. ASSUME NEW to, SetLock(to), to = "operator" => gameLock = "operator" \/ operators # {}
      PROVE  OperatorsInv'
  <2>1. /\ gameLock' = to /\ abandoned' = (abandoned /\ to # "nobody")
        /\ UNCHANGED <<table, operators, numOperators>>
    BY <1>5 DEF SetLock
  <2>2. Humans' = Present \ robots
    BY <2>1 DEF Humans, Present, table
  <2>3. abandoned' \in BOOLEAN /\ (gameLock' = "operator" => operators' # {} \/ abandoned')
    BY <1>0, <1>5, <2>1
  <2> QED
    BY <1>0, <2>1, <2>2, <2>3 DEF OperatorsInv, OperatorsAreCounted
<1>6. CASE LockCommand
  BY <1>5, <1>6 DEF LockCommand
<1>7. CASE LockFromOutside
  BY <1>5, <1>7 DEF LockFromOutside
<1>8. CASE UNCHANGED <<table, operators, numOperators, gameLock, abandoned>>
  BY <1>0, <1>8 DEF OperatorsInv, OperatorsAreCounted, Humans, Present, table
<1> QED
  BY <1>1, <1>2, <1>3, <1>4, <1>6, <1>7, <1>8, StepsOfTheTable DEF tableVars

(* Operators are counted, and a game an operator has locked stays locked   *)
(* only as long as there is one, or after the last has given it up.        *)
THEOREM OperatorsStayCounted ==
  ASSUME Sizes
  PROVE  TableSpec => []OperatorsAreCounted
<1>1. TableInit => TableInv /\ OperatorsInv
  BY TableInvInit, OperatorsInit
<1>2. TableInv /\ OperatorsInv /\ [TableNext]_tableVars => TableInv' /\ OperatorsInv'
  BY TableStep, OperatorsStep
<1>3. OperatorsInv => OperatorsAreCounted
  BY DEF OperatorsInv
<1> QED
  BY <1>1, <1>2, <1>3, PTL DEF TableSpec
-----------------------------------------------------------------------------
WatchInv ==
  /\ playing \in Seq(Slots)
  /\ PointersAreToPlayers
  /\ atWar => robot /\ Here

\* A sequence without what it has at i, its last element moved there.
MovedDown(s, i) == SubSeq([s EXCEPT ![i] = Last(s)], 1, Len(s) - 1)

(* The swap keeps everything but what it overwrites.                       *)
LEMMA SwapKeepsTheOthers ==
  ASSUME NEW S, NEW s \in Seq(S), NEW i \in 1..Len(s)
  PROVE  /\ MovedDown(s, i) \in Seq(S)
         /\ ToSet(s) \ {s[i]} \subseteq ToSet(MovedDown(s, i))
<1> DEFINE t == [s EXCEPT ![i] = Last(s)]
           n == Len(s) - 1
<1>1. Len(s) \in Nat /\ Len(s) > 0 /\ n \in 0..Len(s)
  BY SMT
<1>2. Last(s) = s[Len(s)] /\ Last(s) \in S
  BY <1>1, SMT DEF Last
<1>3. t \in Seq(S) /\ Len(t) = Len(s)
  BY <1>2, SMT
<1>4. \A j \in 1..Len(s) : t[j] = IF j = i THEN s[Len(s)] ELSE s[j]
  BY <1>2, SMT
<1> HIDE DEF t
<1>5. /\ MovedDown(s, i) \in Seq(S)
      /\ Len(MovedDown(s, i)) = n
      /\ \A j \in 1..n : MovedDown(s, i)[j] = t[j]
  BY <1>1, <1>3, SMT DEF MovedDown, t
<1>6. ASSUME NEW j \in 1..Len(s), s[j] # s[i]
      PROVE  \E k \in 1..n : MovedDown(s, i)[k] = s[j]
  <2>1. j # i
    BY <1>6
  <2>2. CASE j = Len(s)
    <3>1. i \in 1..n /\ MovedDown(s, i)[i] = s[j]
      BY <1>1, <1>4, <1>5, <2>1, <2>2, SMT
    <3> QED
      BY <3>1
  <2>3. CASE j # Len(s)
    <3>1. j \in 1..n /\ MovedDown(s, i)[j] = s[j]
      BY <1>1, <1>4, <1>5, <2>1, <2>3, SMT
    <3> QED
      BY <3>1
  <2> QED
    BY <2>2, <2>3
<1>7. DOMAIN s = 1..Len(s) /\ DOMAIN MovedDown(s, i) = 1..n
  BY <1>1, <1>5, SMT
<1>8. ToSet(s) = {s[j] : j \in 1..Len(s)}
  BY <1>7 DEF ToSet
<1>9. ToSet(MovedDown(s, i)) = {MovedDown(s, i)[k] : k \in 1..n}
  BY <1>7 DEF ToSet
<1> QED
  BY <1>5, <1>6, <1>8, <1>9

(* Whoever leaves, everybody else stays.                                   *)
LEMMA OthersStay ==
  ASSUME playing \in Seq(Slots), NEW p \in Players
  PROVE  /\ SwappedOut(p) \in Seq(Slots)
         /\ Players \ {p} \subseteq ToSet(SwappedOut(p))
<1> DEFINE i == CHOOSE j \in DOMAIN playing : playing[j] = p
<1>1. DOMAIN playing = 1..Len(playing)
  BY SMT
<1>2. \E j \in DOMAIN playing : playing[j] = p
  BY DEF Players, ToSet
<1>3. i \in 1..Len(playing) /\ playing[i] = p
  BY <1>1, <1>2
<1>4. SwappedOut(p) = MovedDown(playing, i)
  BY DEF SwappedOut, MovedDown
<1> HIDE DEF i
<1> QED
  BY <1>3, <1>4, SwapKeepsTheOthers DEF Players

(* Whoever joins, everybody stays.                                         *)
LEMMA EverybodyStays ==
  ASSUME playing \in Seq(Slots), NEW p \in Slots
  PROVE  /\ Append(playing, p) \in Seq(Slots)
         /\ Players \subseteq ToSet(Append(playing, p))
<1>1. /\ Append(playing, p) \in Seq(Slots)
      /\ DOMAIN playing = 1..Len(playing)
      /\ DOMAIN Append(playing, p) = 1..(Len(playing) + 1)
      /\ Len(playing) \in Nat
  BY SMT
<1>2. \A j \in DOMAIN playing : j \in DOMAIN Append(playing, p) /\ Append(playing, p)[j] = playing[j]
  BY <1>1, SMT
<1> QED
  BY <1>1, <1>2 DEF Players, ToSet
-----------------------------------------------------------------------------
LEMMA WatchInvInit == WatchInit => WatchInv
BY SMT DEF WatchInit, WatchInv, PointersAreToPlayers, None

(* A lock is set on a player only, and otherwise let go.                   *)
LEMMA NewLock ==
  ASSUME WatchInv, NEW l,
         \/ l \in Closest \cup NextClosest \cup NextOne \cup CompassOrPause
         \/ l \in {Unchanged} \cup {On(p) : p \in Foes},
         Becomes(l)
  PROVE  locked' => lock' \in Players
<1>1. \/ l = Unchanged \/ l = Off
      \/ \E p \in Others : l = On(p)
      \/ locked /\ l = On(lock)
  BY DEF Closest, NextClosest, NextOne, CompassOrPause, Foes
<1>2. locked => lock \in Players
  BY DEF WatchInv, PointersAreToPlayers
<1>3. CASE l = Unchanged
  BY <1>2, <1>3 DEF Becomes, Unchanged
<1>4. CASE l = Off
  BY <1>4 DEF Becomes, Off
<1>5. ASSUME NEW p \in Others, l = On(p) PROVE lock' \in Players
  BY <1>5 DEF Becomes, On, Others
<1>6. CASE locked /\ l = On(lock)
  BY <1>2, <1>6 DEF Becomes, On
<1> QED
  BY <1>1, <1>3, <1>4, <1>5, <1>6

(* A step that changes only the lock keeps the invariant if the lock is    *)
(* all right.                                                              *)
LEMMA OnlyTheLock ==
  ASSUME WatchInv, UNCHANGED <<playing, robot, bank, atWar, enemy, pusher>>, locked' => lock' \in Players
  PROVE  WatchInv'
BY DEF WatchInv, PointersAreToPlayers, Players, Others, Here

LEMMA WatchInvStep ==
  ASSUME WatchInv, [WatchNext]_watchVars
  PROVE  WatchInv'
<1> USE DEF pointers
<1>0. playing \in Seq(Slots) /\ PointersAreToPlayers /\ (atWar => robot /\ Here)
  BY DEF WatchInv
<1>1. CASE Join
  <2>1. PICK p \in Slots \ Players :
          playing' = Append(playing, p) /\ UNCHANGED pointers /\ (p = Watcher \/ robot' = robot)
    BY <1>1 DEF Join
  <2>2. playing' \in Seq(Slots) /\ Players \subseteq Players'
    BY <1>0, <2>1, EverybodyStays DEF Players
  <2> QED
    BY <1>0, <2>1, <2>2 DEF WatchInv, PointersAreToPlayers, Others, Here
<1>2. CASE WatcherLeaves
  <2>1. playing' \in Seq(Slots)
    BY <1>0, <1>2, OthersStay DEF WatcherLeaves, Here
  <2> QED
    BY <1>2, <2>1 DEF WatcherLeaves, WatchInv, PointersAreToPlayers
<1>3. CASE OtherLeaves
  <2>1. PICK p \in Others :
          /\ playing' = SwappedOut(p)
          /\ locked' = (locked /\ ~LocksOff(p))
          /\ atWar' = (atWar /\ ~WarsEnd(p))
          /\ bank' = Forgotten(bank, p) /\ pusher' = Forgotten(pusher, p)
          /\ UNCHANGED <<robot, lock, reprogram, enemy>>
    BY <1>3 DEF OtherLeaves
  <2>2. p \in Players
    BY DEF Others
  <2>3. playing' \in Seq(Slots) /\ Players \ {p} \subseteq Players'
    BY <1>0, <2>1, <2>2, OthersStay DEF Players
  <2>4. locked' => lock' \in Players'
    BY <1>0, <2>1, <2>3 DEF LocksOff, PointersAreToPlayers
  <2>5. bank' \in Players' \cup {None}
    BY <1>0, <2>1, <2>3 DEF Forgotten, PointersAreToPlayers
  <2>6. atWar' => enemy' \in Others'
    BY <1>0, <2>1, <2>3 DEF WarsEnd, PointersAreToPlayers, Others
  <2>7. pusher' \in Others' \cup {None}
    BY <1>0, <2>1, <2>3 DEF Forgotten, PointersAreToPlayers, Others
  <2>8. atWar' => robot' /\ Here'
    BY <1>0, <2>1, <2>3 DEF Here, Others
  <2> QED
    BY <2>3, <2>4, <2>5, <2>6, <2>7, <2>8 DEF WatchInv, PointersAreToPlayers
<1>4. CASE StateChanges
  BY <1>0, <1>4 DEF StateChanges, WatchInv, PointersAreToPlayers, Players, Others, Here
<1>5. CASE LockKey
  BY <1>5, NewLock, OnlyTheLock DEF LockKey, Becomes
<1>6. CASE ReprogramKey
  BY <1>0, <1>6, OnlyTheLock DEF ReprogramKey, PointersAreToPlayers
<1>7. CASE LoadLockKey
  BY <1>0, <1>7 DEF LoadLockKey, WatchInv, PointersAreToPlayers, Players, Others, Here
<1>8. CASE RobotPlay
  <2>1. PICK l \in {Unchanged} \cup {On(p) : p \in Foes} :
          Becomes(l) \/ Becomes(<<FALSE, Head(playing)>>)
    BY <1>8 DEF RobotPlay
  <2>2. CASE Becomes(l)
    BY <2>2, NewLock, OnlyTheLock DEF Becomes
  <2>3. CASE Becomes(<<FALSE, Head(playing)>>)
    BY <2>3, OnlyTheLock DEF Becomes
  <2> QED
    BY <2>1, <2>2, <2>3
<1>9. CASE RobotWar
  <2>1. UNCHANGED <<playing, robot, locked, lock, bank, pusher>> /\ robot /\ Here
    BY <1>9 DEF RobotWar, War
  <2>2. (\E p \in Others : atWar' = TRUE /\ enemy' = p) \/ atWar' = FALSE
    BY <1>9 DEF RobotWar, War
  <2>3. atWar' => enemy' \in Others
    BY <2>2
  <2> QED
    BY <1>0, <2>1, <2>3 DEF WatchInv, PointersAreToPlayers, Players, Others, Here
<1>10. CASE RecordShove
  BY <1>0, <1>10 DEF RecordShove, WatchInv, PointersAreToPlayers, Players, Others, Here
<1>11. CASE UNCHANGED watchVars
  BY <1>0, <1>11 DEF watchVars, WatchInv, PointersAreToPlayers, Players, Others, Here
<1> QED
  BY <1>1, <1>2, <1>3, <1>4, <1>5, <1>6, <1>7, <1>8, <1>9, <1>10, <1>11 DEF WatchNext

(* The locks, the bank, the wars and the shoves of a player lead to        *)
(* players who are there, whatever becomes of those.                       *)
THEOREM PointersStayGood == WatchSpec => []PointersAreToPlayers
<1>1. WatchInv => PointersAreToPlayers
  BY DEF WatchInv
<1> QED
  BY <1>1, WatchInvInit, WatchInvStep, PTL DEF WatchSpec
-----------------------------------------------------------------------------
(***************************************************************************)
(* The ranking.  Until a player loses his node while he plays, every node  *)
(* that is in use belongs to one name, and to a player only if he plays    *)
(* (NodesAreTheirs); and every score that is due is in a node, and in the  *)
(* file if it was due when that was written (Remembers).                   *)
(***************************************************************************)

RankNode == [name : Names \cup {NoName}, score : Int, pl : Names \cup {NoOne}, timestamp : Nat]

\* The node remembers that n left with this score.
Recalls(node, n, score) == node.name = n /\ node.score = score /\ node.pl = NoOne

RankTyped ==
  /\ clock \in Nat
  /\ nodes \in [Nodes -> RankNode] /\ order \in [Nodes -> Nodes] /\ file \in Seq(RankNode)
  /\ Playing \subseteq Names /\ DOMAIN scoreOf = Playing
  /\ \A n \in Playing : scoreOf[n] \in Int
  /\ due \in [Names -> Int] /\ promised \in [Names -> Int]

NodesAreTheirs ==
  /\ \A i, j \in Nodes : nodes[i].name = nodes[j].name /\ nodes[i].name # NoName => i = j
  /\ \A i \in Nodes : nodes[i].pl # NoOne => nodes[i].pl = nodes[i].name /\ nodes[i].name \in Playing
  /\ \A n \in Playing : /\ rankOf[n] \in Nodes
                        /\ nodes[rankOf[n]].name = n /\ nodes[rankOf[n]].pl = n

FileIsGood ==
  /\ Len(file) <= MaxScores
  /\ \A k \in 1..Len(file) : file[k].name \in Names /\ file[k].pl = NoOne
  /\ \A j, k \in 1..Len(file) : file[j].name = file[k].name => j = k

Remembers ==
  /\ \A n \in Names \ Playing : due[n] # Never => \E i \in Nodes : Recalls(nodes[i], n, due[n])
  /\ \A n \in Names : promised[n] # Never => \E k \in 1..Len(file) : Recalls(file[k], n, promised[n])

RankBooks == RankTyped /\ NodesAreTheirs /\ FileIsGood /\ Remembers
RankInv   == ~spoiled => RankBooks

LEMMA RankFacts ==
  /\ MaxScores \in Nat /\ MaxScores >= 1 /\ NoOne \notin Names /\ NoName \notin Names
  /\ NoNode \notin Nodes /\ Nodes \in SUBSET Nat /\ 0 \in Nodes /\ Never \in Int
  /\ \A i : i \in Nodes <=> i \in Nat /\ i < MaxScores
BY RankAssumption DEF Nodes, NoNode, Never

(* The node that a new name gets is one of the table.                      *)
LEMMA NodeForIsThere ==
  ASSUME RankBooks
  PROVE  NodeFor \in Nodes /\ (Unused # {} => NodeFor \in Unused)
<1>1. CASE Unused # {}
  <2>1. Unused \in SUBSET Nat /\ Unused \subseteq Nodes
    BY RankFacts DEF Unused
  <2>2. \E i \in Unused : \A j \in Unused : i <= j
    BY <1>1, <2>1, LeastNumber
  <2>3. FirstUnused \in Unused
    BY <2>2 DEF FirstUnused
  <2> QED
    BY <1>1, <2>1, <2>3 DEF NodeFor
<1>2. CASE Unused = {}
  <2> DEFINE time(i) == nodes[order[i]].timestamp
             T == {time(i) : i \in BottomHalf}
             Best(i) == \A j \in BottomHalf : time(i) < time(j) \/ (time(i) = time(j) /\ i <= j)
  <2>1. BottomHalf \subseteq Nodes /\ BottomHalf \in SUBSET Nat
    BY RankFacts DEF BottomHalf
  <2>2. MaxScores - 1 \in BottomHalf
    <3>1. MaxScores - 1 >= MaxScores \div 2
      BY RankFacts, SMT
    <3> QED
      BY <3>1, RankFacts DEF BottomHalf
  <2>3. \A i \in BottomHalf : time(i) \in Nat
    BY <2>1 DEF RankBooks, RankTyped, RankNode
  <2>4. T \in SUBSET Nat /\ T # {}
    BY <2>2, <2>3
  <2>5. PICK t \in T : \A u \in T : t <= u
    <3> HIDE DEF T
    <3> QED
      BY <2>4, LeastNumber
  <2> DEFINE F == {i \in BottomHalf : time(i) = t}
  <2>6. F \in SUBSET Nat /\ F # {}
    BY <2>1, <2>5
  <2>7. PICK i \in F : \A j \in F : i <= j
    <3> HIDE DEF F
    <3> QED
      BY <2>6, LeastNumber
  <2>8. Best(i)
    <3> SUFFICES ASSUME NEW j \in BottomHalf
                 PROVE  time(i) < time(j) \/ (time(i) = time(j) /\ i <= j)
      OBVIOUS
    <3>1. time(i) = t /\ t <= time(j) /\ time(j) \in Nat /\ t \in Nat
      BY <2>3, <2>4, <2>5, <2>7
    <3>2. CASE time(j) = t
      <4>1. j \in F
        BY <3>2
      <4> QED
        BY <2>7, <3>1, <3>2, <4>1
    <3>3. CASE time(j) # t
      <4> HIDE DEF time
      <4> QED
        BY <3>1, <3>3
    <3> QED
      BY <3>2, <3>3
  <2> DEFINE least == CHOOSE k \in BottomHalf : Best(k)
  <2>9. least \in BottomHalf
    <3>1. i \in BottomHalf
      BY <2>7
    <3> HIDE DEF Best
    <3> QED
      BY <2>8, <3>1
  <2>10. LeastRecent = order[least]
    BY DEF LeastRecent
  <2> HIDE DEF least
  <2>11. order[least] \in Nodes
    BY <2>1, <2>9 DEF RankBooks, RankTyped
  <2> QED
    BY <1>2, <2>10, <2>11 DEF NodeFor
<1> QED
  BY <1>1, <1>2

LEMMA SavedIs ==
  ASSUME NEW node \in RankNode, NEW score
  PROVE  Saved(node, score)
           = [name |-> node.name, score |-> score, pl |-> NoOne, timestamp |-> clock']
<1>1. node = [name |-> node.name, score |-> node.score, pl |-> node.pl, timestamp |-> node.timestamp]
  BY DEF RankNode
<1>2. [[[node EXCEPT !.score = score] EXCEPT !.pl = NoOne] EXCEPT !.timestamp = clock']
        = [name |-> node.name, score |-> score, pl |-> NoOne, timestamp |-> clock']
  <2> DEFINE a == [node EXCEPT !.score = score]
             b == [a EXCEPT !.pl = NoOne]
  <2>1. a = [name |-> node.name, score |-> score, pl |-> node.pl, timestamp |-> node.timestamp]
    BY <1>1
  <2> HIDE DEF a
  <2>2. b = [name |-> node.name, score |-> score, pl |-> NoOne, timestamp |-> node.timestamp]
    BY <2>1
  <2> HIDE DEF b
  <2>3. [b EXCEPT !.timestamp = clock']
          = [name |-> node.name, score |-> score, pl |-> NoOne, timestamp |-> clock']
    BY <2>2
  <2> QED
    BY <2>3 DEF a, b
<1> QED
  BY <1>2 DEF Saved

(* A player who comes back gets his node, since nobody else has it.        *)
LEMMA RememberedKeeps ==
  ASSUME RankBooks, NEW n \in Names \ Playing, Remembered(n), TimePasses, UNCHANGED <<order, file>>
  PROVE  RankBooks'
<1>1. PICK i \in Nodes :
        /\ nodes[i].name = n
        /\ IF nodes[i].pl = NoOne
           THEN /\ nodes' = [nodes EXCEPT ![i].pl = n]
                /\ rankOf' = With(rankOf, n, i)
                /\ scoreOf' = With(scoreOf, n, nodes[i].score)
           ELSE /\ rankOf' = With(rankOf, n, NoNode)
                /\ scoreOf' = With(scoreOf, n, 0)
                /\ UNCHANGED nodes
        /\ UNCHANGED history
  BY DEF Remembered
<1>2. nodes[i].pl = NoOne
  BY <1>1 DEF RankBooks, NodesAreTheirs
<1>3. /\ nodes' = [nodes EXCEPT ![i].pl = n]
      /\ rankOf' = With(rankOf, n, i) /\ scoreOf' = With(scoreOf, n, nodes[i].score)
      /\ UNCHANGED <<due, promised>>
  BY <1>1, <1>2 DEF history
<1>4. nodes \in [Nodes -> RankNode] /\ n \in Names
  BY DEF RankBooks, RankTyped
<1>5. \A j \in Nodes : /\ nodes'[j].name = nodes[j].name /\ nodes'[j].score = nodes[j].score
                       /\ nodes'[j].pl = IF j = i THEN n ELSE nodes[j].pl
  BY <1>3, <1>4 DEF RankNode
<1>6. nodes' \in [Nodes -> RankNode]
  BY <1>3, <1>4 DEF RankNode
<1>7. /\ Playing' = Playing \cup {n} /\ DOMAIN scoreOf' = DOMAIN scoreOf \cup {n}
      /\ \A m \in Playing \cup {n} : rankOf'[m] = IF m = n THEN i ELSE rankOf[m]
  BY <1>3 DEF Playing, With
<1>8. \A m \in DOMAIN scoreOf \cup {n} : scoreOf'[m] = IF m = n THEN nodes[i].score ELSE scoreOf[m]
  BY <1>3 DEF With
<1>9. RankTyped'
  <2>1. clock' \in Nat
    BY DEF RankBooks, RankTyped, TimePasses
  <2>2. nodes[i].score \in Int
    BY <1>4 DEF RankNode
  <2> QED
    BY <1>3, <1>4, <1>6, <1>7, <1>8, <2>1, <2>2 DEF RankBooks, RankTyped
<1>10. NodesAreTheirs'
  BY <1>1, <1>2, <1>5, <1>7, RankFacts DEF RankBooks, NodesAreTheirs
<1>11. FileIsGood'
  BY DEF RankBooks, FileIsGood
<1>12. Remembers'
  <2>1. ASSUME NEW m \in Names \ Playing', due'[m] # Never
        PROVE  \E j \in Nodes : Recalls(nodes'[j], m, due'[m])
    <3>1. m \in Names \ Playing /\ m # n /\ due[m] # Never
      BY <1>3, <1>7, <2>1
    <3>2. PICK j \in Nodes : Recalls(nodes[j], m, due[m])
      BY <3>1 DEF RankBooks, Remembers
    <3>3. j # i
      BY <1>1, <3>1, <3>2 DEF Recalls
    <3> QED
      BY <1>3, <1>5, <3>2, <3>3 DEF Recalls
  <2> QED
    BY <1>3, <2>1 DEF RankBooks, Remembers
<1> QED
  BY <1>9, <1>10, <1>11, <1>12 DEF RankBooks

(* A new name gets a node that is free, or that nobody plays with.         *)
LEMMA RegisteredKeeps ==
  ASSUME RankBooks, NEW n \in Names \ Playing, Registered(n), TimePasses, UNCHANGED <<order, file>>,
         nodes[NodeFor].pl = NoOne
  PROVE  RankBooks'
<1> DEFINE i == NodeFor
<1>1. i \in Nodes /\ (i \in Unused <=> nodes[i].name = NoName)
  BY NodeForIsThere DEF Unused
<1>2. /\ \A j \in Nodes : nodes[j].name # n
      /\ nodes' = [nodes EXCEPT ![i] = [name |-> n, score |-> 0, pl |-> n, timestamp |-> clock']]
      /\ rankOf' = With(rankOf, n, i) /\ scoreOf' = With(scoreOf, n, 0)
      /\ due' = [due EXCEPT ![n] = Never,
                            ![IF i \in Unused THEN n ELSE nodes[i].name] = Never]
      /\ UNCHANGED promised
  BY DEF Registered
<1>3. nodes[i].pl = NoOne
  OBVIOUS
<1> HIDE DEF i
<1>4. nodes \in [Nodes -> RankNode] /\ due \in [Names -> Int] /\ n \in Names
  BY DEF RankBooks, RankTyped
<1>5. clock' \in Nat
  BY DEF RankBooks, RankTyped, TimePasses
<1>6. /\ \A j \in Nodes : j # i => nodes'[j] = nodes[j]
      /\ nodes'[i].name = n /\ nodes'[i].pl = n
  BY <1>1, <1>2, <1>4
<1>7. nodes' \in [Nodes -> RankNode]
  <2>1. [name |-> n, score |-> 0, pl |-> n, timestamp |-> clock'] \in RankNode
    BY <1>4, <1>5 DEF RankNode
  <2> QED
    BY <1>2, <1>4, <2>1
<1>8. /\ Playing' = Playing \cup {n} /\ DOMAIN scoreOf' = DOMAIN scoreOf \cup {n}
      /\ \A m \in Playing \cup {n} : rankOf'[m] = IF m = n THEN i ELSE rankOf[m]
  BY <1>2 DEF Playing, With
<1>9. \A m \in DOMAIN scoreOf \cup {n} : scoreOf'[m] = IF m = n THEN 0 ELSE scoreOf[m]
  BY <1>2 DEF With
<1>10. /\ due' \in [Names -> Int]
       /\ \A m \in Names : due'[m] # Never =>
            due'[m] = due[m] /\ m # n /\ m # IF i \in Unused THEN n ELSE nodes[i].name
  <2> DEFINE other == IF i \in Unused THEN n ELSE nodes[i].name
  <2>1. due' = [[due EXCEPT ![n] = Never] EXCEPT ![other] = Never]
    BY <1>2
  <2>2. Never \in Int
    BY RankFacts
  <2> HIDE DEF other
  <2>3. /\ due' \in [Names -> Int]
        /\ \A m \in Names : due'[m] = IF m = other \/ m = n THEN Never ELSE due[m]
    BY <1>4, <2>1, <2>2
  <2> QED
    BY <2>3 DEF other
<1>11. RankTyped'
  BY <1>2, <1>4, <1>5, <1>7, <1>8, <1>9, <1>10 DEF RankBooks, RankTyped
<1>12. NodesAreTheirs'
  <2>1. \A m \in Playing : rankOf[m] # i
    BY <1>3, RankFacts DEF RankBooks, RankTyped, NodesAreTheirs
  <2>2. \A j, k \in Nodes : nodes'[j].name = nodes'[k].name /\ nodes'[j].name # NoName => j = k
    BY <1>2, <1>6 DEF RankBooks, NodesAreTheirs
  <2>3. \A j \in Nodes : nodes'[j].pl # NoOne => nodes'[j].pl = nodes'[j].name /\ nodes'[j].name \in Playing'
    BY <1>6, <1>8 DEF RankBooks, NodesAreTheirs
  <2>4. \A m \in Playing' : /\ rankOf'[m] \in Nodes
                            /\ nodes'[rankOf'[m]].name = m /\ nodes'[rankOf'[m]].pl = m
    BY <1>1, <1>6, <1>8, <2>1 DEF RankBooks, NodesAreTheirs
  <2> QED
    BY <2>2, <2>3, <2>4 DEF NodesAreTheirs
<1>13. FileIsGood'
  BY DEF RankBooks, FileIsGood
<1>14. Remembers'
  <2>1. ASSUME NEW m \in Names \ Playing', due'[m] # Never
        PROVE  \E j \in Nodes : Recalls(nodes'[j], m, due'[m])
    <3>1. /\ m \in Names \ Playing /\ due'[m] = due[m]
          /\ m # n /\ m # IF i \in Unused THEN n ELSE nodes[i].name
      BY <1>8, <1>10, <2>1
    <3>2. PICK j \in Nodes : Recalls(nodes[j], m, due[m])
      BY <2>1, <3>1 DEF RankBooks, Remembers
    <3>3. j # i
      BY <1>1, <3>1, <3>2, RankFacts DEF Recalls
    <3>4. Recalls(nodes'[j], m, due'[m])
      BY <1>6, <3>1, <3>2, <3>3
    <3> QED
      BY <3>4
  <2> QED
    BY <1>2, <2>1 DEF RankBooks, Remembers
<1> QED
  BY <1>11, <1>12, <1>13, <1>14 DEF RankBooks

LEMMA ScoreKeeps ==
  ASSUME RankBooks, Score
  PROVE  RankBooks'
<1>1. PICK n \in Playing, score \in Scores :
        /\ scoreOf' = [scoreOf EXCEPT ![n] = score]
        /\ nodes' = IF rankOf[n] = NoNode THEN nodes
                    ELSE [nodes EXCEPT ![rankOf[n]].score = @ + score - scoreOf[n]]
  BY DEF Score
<1> DEFINE i == rankOf[n]
           s == nodes[i].score + score - scoreOf[n]
<1>2. i \in Nodes /\ nodes[i].pl = n /\ n \in Names
  BY DEF RankBooks, RankTyped, NodesAreTheirs
<1>3. nodes' = [nodes EXCEPT ![i].score = s]
  BY <1>1, <1>2, RankFacts
<1>4. nodes \in [Nodes -> RankNode] /\ s \in Int /\ score \in Int
  <2>1. nodes \in [Nodes -> RankNode] /\ score \in Int /\ scoreOf[n] \in Int
    BY RankAssumption DEF RankBooks, RankTyped
  <2>2. nodes[i].score \in Int
    BY <1>2, <2>1 DEF RankNode
  <2> QED
    BY <2>1, <2>2
<1> HIDE DEF i, s
<1>5. /\ nodes' \in [Nodes -> RankNode]
      /\ \A j \in Nodes : /\ nodes'[j].name = nodes[j].name /\ nodes'[j].pl = nodes[j].pl
                          /\ j # i => nodes'[j] = nodes[j]
  <2> DEFINE node == [nodes[i] EXCEPT !.score = s]
  <2>1. node \in RankNode /\ node.name = nodes[i].name /\ node.pl = nodes[i].pl
    BY <1>2, <1>4 DEF RankNode
  <2>2. nodes' = [nodes EXCEPT ![i] = node]
    BY <1>3
  <2> HIDE DEF node
  <2> QED
    BY <1>2, <1>4, <2>1, <2>2
<1>6. UNCHANGED <<clock, order, rankOf, file, due, promised>> /\ Playing' = Playing
  BY DEF Score, history, Playing
<1>7. DOMAIN scoreOf' = DOMAIN scoreOf /\ \A m \in Playing : scoreOf'[m] \in Int
  BY <1>1, <1>4 DEF RankBooks, RankTyped
<1>8. RankTyped'
  BY <1>5, <1>6, <1>7 DEF RankBooks, RankTyped
<1>9. NodesAreTheirs'
  BY <1>5, <1>6 DEF RankBooks, NodesAreTheirs
<1>10. FileIsGood'
  BY <1>6 DEF RankBooks, FileIsGood
<1>11. Remembers'
  <2>1. ASSUME NEW m \in Names \ Playing, due[m] # Never
        PROVE  \E j \in Nodes : Recalls(nodes'[j], m, due[m])
    <3>1. PICK j \in Nodes : Recalls(nodes[j], m, due[m])
      BY <2>1 DEF RankBooks, Remembers
    <3>2. j # i
      BY <1>2, <3>1, RankFacts DEF Recalls
    <3> QED
      BY <1>5, <3>1, <3>2
  <2> QED
    BY <1>6, <2>1 DEF RankBooks, Remembers
<1> QED
  BY <1>8, <1>9, <1>10, <1>11 DEF RankBooks

LEMMA ResetAllKeeps ==
  ASSUME RankBooks, ResetAll
  PROVE  RankBooks'
<1>1. /\ UNCHANGED <<clock, nodes, order, rankOf, file, due, promised>> /\ Playing' = Playing
      /\ scoreOf' = [n \in Playing |-> 0]
  BY DEF ResetAll, history, Playing
<1>2. RankTyped' /\ NodesAreTheirs'
  BY <1>1 DEF RankBooks, RankTyped, NodesAreTheirs
<1>3. FileIsGood' /\ Remembers'
  BY <1>1 DEF RankBooks, FileIsGood, Remembers
<1> QED
  BY <1>2, <1>3 DEF RankBooks

(* Who leaves has his score saved in his node.                             *)
LEMMA LeaveKeeps ==
  ASSUME RankBooks, Leave
  PROVE  RankBooks'
<1>1. PICK n \in Playing :
        /\ TimePasses
        /\ nodes' = IF rankOf[n] = NoNode THEN nodes
                    ELSE [nodes EXCEPT ![rankOf[n]] = Saved(@, scoreOf[n])]
        /\ rankOf' = Without(rankOf, n) /\ scoreOf' = Without(scoreOf, n)
        /\ due' = [due EXCEPT ![n] = scoreOf[n]]
        /\ UNCHANGED <<order, file, promised>>
  BY DEF Leave
<1> DEFINE i == rankOf[n]
           node == Saved(nodes[i], scoreOf[n])
<1>2. i \in Nodes /\ nodes[i].name = n /\ nodes[i].pl = n /\ n \in Names /\ scoreOf[n] \in Int
  BY DEF RankBooks, RankTyped, NodesAreTheirs
<1>3. nodes' = [nodes EXCEPT ![i] = node]
  BY <1>1, <1>2, RankFacts
<1>4. nodes \in [Nodes -> RankNode] /\ due \in [Names -> Int] /\ clock' \in Nat
  BY <1>1 DEF RankBooks, RankTyped, TimePasses
<1>5. node \in RankNode /\ node.name = n /\ node.pl = NoOne /\ node.score = scoreOf[n]
  <2>1. nodes[i] \in RankNode
    BY <1>2, <1>4
  <2> HIDE DEF i
  <2>2. Saved(nodes[i], scoreOf[n])
          = [name |-> nodes[i].name, score |-> scoreOf[n], pl |-> NoOne, timestamp |-> clock']
    BY <2>1, SavedIs
  <2>3. nodes[i].name \in Names \cup {NoName}
    BY <2>1 DEF RankNode
  <2> QED
    BY <1>2, <1>4, <2>2, <2>3 DEF RankNode, i
<1> HIDE DEF i, node
<1>6. /\ nodes' \in [Nodes -> RankNode]
      /\ \A j \in Nodes : nodes'[j] = IF j = i THEN node ELSE nodes[j]
  BY <1>2, <1>3, <1>4, <1>5
<1>7. /\ Playing' = Playing \ {n} /\ DOMAIN scoreOf' = DOMAIN scoreOf \ {n}
      /\ \A m \in Playing \ {n} : rankOf'[m] = rankOf[m]
      /\ \A m \in DOMAIN scoreOf \ {n} : scoreOf'[m] = scoreOf[m]
  BY <1>1 DEF Playing, Without
<1>8. due' \in [Names -> Int] /\ \A m \in Names : due'[m] = IF m = n THEN scoreOf[n] ELSE due[m]
  BY <1>1, <1>2, <1>4
<1>9. RankTyped'
  BY <1>1, <1>4, <1>6, <1>7, <1>8 DEF RankBooks, RankTyped
<1>10. NodesAreTheirs'
  <2>1. \A j, k \in Nodes : nodes'[j].name = nodes'[k].name /\ nodes'[j].name # NoName => j = k
    BY <1>2, <1>5, <1>6 DEF RankBooks, NodesAreTheirs
  <2>2. \A j \in Nodes : nodes'[j].pl # NoOne => nodes'[j].pl = nodes'[j].name /\ nodes'[j].name \in Playing'
    <3> SUFFICES ASSUME NEW j \in Nodes, nodes'[j].pl # NoOne
                 PROVE  nodes'[j].pl = nodes'[j].name /\ nodes'[j].name \in Playing'
      OBVIOUS
    <3>1. j # i /\ nodes'[j] = nodes[j]
      BY <1>5, <1>6
    <3>2. nodes[j].pl = nodes[j].name /\ nodes[j].name \in Playing
      BY <3>1 DEF RankBooks, NodesAreTheirs
    <3>3. nodes[j].name # n
      BY <1>2, <3>1, RankFacts DEF RankBooks, NodesAreTheirs
    <3> QED
      BY <1>7, <3>1, <3>2, <3>3
  <2>3. \A m \in Playing' : /\ rankOf'[m] \in Nodes
                            /\ nodes'[rankOf'[m]].name = m /\ nodes'[rankOf'[m]].pl = m
    <3> SUFFICES ASSUME NEW m \in Playing \ {n}
                 PROVE  /\ rankOf[m] \in Nodes
                        /\ nodes'[rankOf[m]].name = m /\ nodes'[rankOf[m]].pl = m
      BY <1>7
    <3>1. rankOf[m] \in Nodes /\ nodes[rankOf[m]].name = m /\ nodes[rankOf[m]].pl = m
      BY DEF RankBooks, NodesAreTheirs
    <3> QED
      BY <1>2, <1>6, <3>1
  <2> QED
    BY <2>1, <2>2, <2>3 DEF NodesAreTheirs
<1>11. FileIsGood'
  BY <1>1 DEF RankBooks, FileIsGood
<1>12. Remembers'
  <2>1. ASSUME NEW m \in Names \ Playing', due'[m] # Never
        PROVE  \E j \in Nodes : Recalls(nodes'[j], m, due'[m])
    <3>1. CASE m = n
      <4>1. Recalls(nodes'[i], m, due'[m])
        BY <1>2, <1>5, <1>6, <1>8, <3>1 DEF Recalls
      <4> QED
        BY <1>2, <4>1
    <3>2. CASE m # n
      <4>1. m \in Names \ Playing /\ due'[m] = due[m]
        BY <1>7, <1>8, <3>2
      <4>2. PICK j \in Nodes : Recalls(nodes[j], m, due[m])
        BY <2>1, <4>1 DEF RankBooks, Remembers
      <4>3. j # i
        BY <1>2, <3>2, <4>2 DEF Recalls
      <4> QED
        BY <1>6, <4>1, <4>2, <4>3
    <3> QED
      BY <3>1, <3>2
  <2> QED
    BY <1>1, <2>1 DEF RankBooks, Remembers
<1> QED
  BY <1>9, <1>10, <1>11, <1>12 DEF RankBooks

(* The nodes in use come first in the order, and there are m of them.      *)
LEMMA SortedFirst ==
  ASSUME NEW o \in Sortings, NEW m, m = Cardinality(Nodes \ Unused)
  PROVE  /\ m \in 0..MaxScores
         /\ \A k \in Nodes : k < m => o[k] \in Nodes \ Unused
         /\ \A i \in Nodes \ Unused : \E k \in Nodes : k < m /\ o[k] = i
<1>1. /\ o \in [Nodes -> Nodes] /\ \A i, j \in Nodes : i # j => o[i] # o[j]
      /\ \A i, j \in Nodes : o[i] \in Unused /\ i < j => o[j] \in Unused
  BY DEF Sortings
<1>2. IsFiniteSet(Nodes) /\ Cardinality(Nodes) = MaxScores /\ Unused \subseteq Nodes
  BY RankFacts, FS_Interval DEF Nodes, Unused
<1>3. o \in Injection(Nodes, Nodes)
  BY <1>1 DEF Injection, IsInjective
<1>4. \A i \in Nodes : \E k \in Nodes : o[k] = i
  <2>1. o \in Surjection(Nodes, Nodes)
    BY <1>2, <1>3, FS_Injection
  <2> QED
    BY <2>1 DEF Surjection
<1> DEFINE T == {i \in Nodes : o[i] \in Unused} \cup {MaxScores}
<1>5. T \in SUBSET Nat /\ T # {} /\ MaxScores \in T
  BY RankFacts
<1>6. PICK c \in T : \A i \in T : c <= i
  <2> HIDE DEF T
  <2> QED
    BY <1>5, LeastNumber
<1>7. c \in 0..MaxScores
  BY <1>5, <1>6, RankFacts
<1>8. \A k \in Nodes : o[k] \in Nodes \ Unused <=> k < c
  <2> SUFFICES ASSUME NEW k \in Nodes PROVE o[k] \in Nodes \ Unused <=> k < c
    OBVIOUS
  <2>1. k \in Nat /\ k < MaxScores /\ o[k] \in Nodes
    BY <1>1, RankFacts
  <2>2. CASE k < c
    <3>1. k \notin T
      BY <1>6, <1>7, <2>1, <2>2
    <3> QED
      BY <2>1, <2>2, <3>1
  <2>3. CASE ~(k < c)
    <3>1. c # MaxScores /\ c \in Nodes /\ o[c] \in Unused
      BY <1>6, <1>7, <2>1, <2>3
    <3>2. CASE c = k
      BY <2>3, <3>1, <3>2
    <3>3. CASE c # k
      <4>1. c < k
        BY <1>7, <2>1, <2>3, <3>3
      <4>2. o[k] \in Unused
        BY <1>1, <3>1, <4>1
      <4> QED
        BY <2>3, <4>2
    <3> QED
      BY <3>2, <3>3
  <2> QED
    BY <2>2, <2>3
<1> HIDE DEF T
<1> DEFINE S == 0..(c - 1)
           g == [k \in S |-> o[k]]
<1>9. S \subseteq Nodes /\ \A k \in Nodes : k < c <=> k \in S
  BY <1>7, RankFacts DEF Nodes
<1>10. g \in Bijection(S, Nodes \ Unused)
  <2>1. g \in [S -> Nodes \ Unused] /\ \A x, y \in S : x # y => g[x] # g[y]
    BY <1>1, <1>8, <1>9
  <2>2. \A i \in Nodes \ Unused : \E k \in S : g[k] = i
    <3> SUFFICES ASSUME NEW i \in Nodes \ Unused PROVE \E k \in S : g[k] = i
      OBVIOUS
    <3>1. PICK k \in Nodes : o[k] = i
      BY <1>4
    <3>2. k \in S
      BY <1>8, <1>9, <3>1
    <3> QED
      BY <3>1, <3>2
  <2> HIDE DEF g, S
  <2> QED
    BY <2>1, <2>2 DEF Bijection, Injection, Surjection, IsInjective
<1>11. IsFiniteSet(S) /\ Cardinality(S) = c
  BY <1>7, FS_Interval
<1> HIDE DEF g, S
<1>12. Cardinality(Nodes \ Unused) = c
  <2>1. ExistsBijection(S, Nodes \ Unused)
    BY <1>10 DEF ExistsBijection
  <2> QED
    BY <1>11, <2>1, FS_Bijection
<1>13. m = c
  BY <1>12
<1>14. \A i \in Nodes \ Unused : \E k \in Nodes : k < c /\ o[k] = i
  BY <1>4, <1>8
<1> QED
  BY <1>7, <1>8, <1>13, <1>14

(* The file has what is due, unless writing it fails: then the old one has *)
(* what was due when that was written.                                     *)
LEMMA WriteKeeps ==
  ASSUME RankBooks, Write
  PROVE  RankBooks'
<1>1. /\ order' \in Sortings /\ Written(order')
      /\ UNCHANGED <<clock, nodes, rankOf, scoreOf, due>> /\ Playing' = Playing
  BY DEF Write, Playing
<1>2. order' \in [Nodes -> Nodes]
  BY <1>1 DEF Sortings
<1>3. NodesAreTheirs'
  BY <1>1 DEF RankBooks, NodesAreTheirs
<1>4. CASE UNCHANGED <<file, promised>>
  <2>1. RankTyped' /\ FileIsGood' /\ Remembers'
    BY <1>1, <1>2, <1>4 DEF RankBooks, RankTyped, FileIsGood, Remembers
  <2> QED
    BY <1>3, <2>1 DEF RankBooks
<1>5. CASE /\ file' = Snapshot(order')
           /\ promised' = [n \in Names |-> IF n \in Playing THEN Never ELSE due[n]]
  <2> DEFINE m == Cardinality(Nodes \ Unused)
             o == order'
  <2>1. /\ m \in 0..MaxScores
        /\ \A k \in Nodes : k < m => o[k] \in Nodes \ Unused
        /\ \A i \in Nodes \ Unused : \E k \in Nodes : k < m /\ o[k] = i
    BY <1>1, SortedFirst
  <2>2. file' = [k \in 1..m |-> [nodes[o[k - 1]] EXCEPT !.pl = NoOne]]
    BY <1>5 DEF Snapshot
  <2> HIDE DEF m, o
  <2>3. nodes \in [Nodes -> RankNode]
    BY DEF RankBooks, RankTyped
  <2>4. ASSUME NEW k \in 1..m
        PROVE  /\ k - 1 \in Nodes /\ o[k - 1] \in Nodes \ Unused
               /\ file'[k] \in RankNode /\ file'[k].name \in Names /\ file'[k].pl = NoOne
               /\ file'[k].name = nodes[o[k - 1]].name /\ file'[k].score = nodes[o[k - 1]].score
    <3>1. k - 1 \in Nodes /\ k - 1 < m
      BY <2>1, RankFacts
    <3>2. o[k - 1] \in Nodes \ Unused
      BY <2>1, <3>1
    <3>3. nodes[o[k - 1]] \in RankNode /\ nodes[o[k - 1]].name # NoName
      BY <2>3, <3>2 DEF Unused
    <3>4. file'[k] = [nodes[o[k - 1]] EXCEPT !.pl = NoOne]
      BY <2>2
    <3> QED
      BY <3>1, <3>2, <3>3, <3>4 DEF RankNode
  <2>5. file' \in Seq(RankNode) /\ Len(file') = m
    BY <2>1, <2>2, <2>4
  <2>6. FileIsGood'
    <3>1. ASSUME NEW j \in 1..m, NEW k \in 1..m, file'[j].name = file'[k].name PROVE j = k
      <4>1. /\ o[j - 1] \in Nodes \ Unused /\ o[k - 1] \in Nodes \ Unused
            /\ nodes[o[j - 1]].name = nodes[o[k - 1]].name
            /\ j - 1 \in Nodes /\ k - 1 \in Nodes
        BY <2>4, <3>1
      <4>2. o[j - 1] = o[k - 1]
        BY <4>1 DEF RankBooks, NodesAreTheirs, Unused
      <4>3. j - 1 = k - 1
        BY <1>1, <4>1, <4>2 DEF Sortings, o
      <4> QED
        BY <2>1, <4>3
    <3> QED
      BY <2>1, <2>4, <2>5, <3>1 DEF FileIsGood
  <2>7. Remembers'
    <3>1. ASSUME NEW n \in Names, promised'[n] # Never
          PROVE  \E k \in 1..Len(file') : Recalls(file'[k], n, promised'[n])
      <4>1. n \in Names \ Playing /\ promised'[n] = due[n]
        BY <1>5, <3>1
      <4>2. PICK i \in Nodes : Recalls(nodes[i], n, due[n])
        BY <3>1, <4>1 DEF RankBooks, Remembers
      <4>3. i \in Nodes \ Unused
        BY <4>1, <4>2, RankFacts DEF Recalls, Unused
      <4>4. PICK j \in Nodes : j < m /\ o[j] = i
        BY <2>1, <4>3
      <4>5. j + 1 \in 1..m /\ (j + 1) - 1 = j
        BY <2>1, <4>4, RankFacts
      <4>6. Recalls(file'[j + 1], n, promised'[n])
        BY <2>4, <4>1, <4>2, <4>4, <4>5 DEF Recalls
      <4> QED
        BY <2>5, <4>5, <4>6
    <3>2. \A n \in Names \ Playing' : due'[n] # Never => \E i \in Nodes : Recalls(nodes'[i], n, due'[n])
      BY <1>1 DEF RankBooks, Remembers
    <3> QED
      BY <3>1, <3>2 DEF Remembers
  <2>8. promised' \in [Names -> Int]
    BY <1>5, RankFacts DEF RankBooks, RankTyped
  <2>9. RankTyped'
    BY <1>1, <1>2, <2>5, <2>8 DEF RankBooks, RankTyped
  <2> QED
    BY <1>3, <2>6, <2>7, <2>9 DEF RankBooks
<1> QED
  BY <1>1, <1>4, <1>5 DEF Written, AfterFailure

(* The server comes up again with what the file has.                       *)
LEMMA RestartKeeps ==
  ASSUME RankBooks, Restart
  PROVE  RankBooks'
<1>1. /\ nodes' = [i \in Nodes |-> Loaded(i)] /\ order' = [i \in Nodes |-> 0]
      /\ rankOf' = <<>> /\ scoreOf' = <<>> /\ due' = promised
      /\ UNCHANGED <<clock, file, promised>>
  BY DEF Restart
<1>2. Playing' = {} /\ DOMAIN scoreOf' = {}
  BY <1>1 DEF Playing
<1>3. file \in Seq(RankNode) /\ Len(file) <= MaxScores /\ Len(file) \in Nat
  BY DEF RankBooks, RankTyped, FileIsGood
<1>4. Empty \in RankNode /\ Empty.name = NoName /\ Empty.pl = NoOne
  BY DEF Empty, RankNode
<1>5. ASSUME NEW i \in Nodes
      PROVE  /\ nodes'[i] \in RankNode /\ nodes'[i].pl = NoOne
             /\ i < Len(file) => nodes'[i] = file[i + 1] /\ i + 1 \in 1..Len(file)
             /\ ~(i < Len(file)) => nodes'[i].name = NoName
  <2>1. nodes'[i] = Loaded(i) /\ i \in Nat
    BY <1>1, RankFacts
  <2>2. CASE i < Len(file)
    <3>1. i + 1 \in 1..Len(file) /\ nodes'[i] = file[i + 1]
      BY <1>3, <2>1, <2>2 DEF Loaded
    <3> QED
      BY <1>3, <2>2, <3>1 DEF RankBooks, FileIsGood
  <2>3. CASE ~(i < Len(file))
    BY <1>4, <2>1, <2>3 DEF Loaded
  <2> QED
    BY <2>2, <2>3
<1>6. nodes' \in [Nodes -> RankNode] /\ order' \in [Nodes -> Nodes]
  BY <1>1, <1>5, RankFacts
<1>7. RankTyped'
  BY <1>1, <1>2, <1>6 DEF RankBooks, RankTyped
<1>8. NodesAreTheirs'
  <2>1. ASSUME NEW i \in Nodes, NEW j \in Nodes, nodes'[i].name = nodes'[j].name, nodes'[i].name # NoName
        PROVE  i = j
    <3>1. i < Len(file) /\ j < Len(file)
      BY <1>5, <2>1
    <3>2. /\ i + 1 \in 1..Len(file) /\ j + 1 \in 1..Len(file)
          /\ file[i + 1].name = file[j + 1].name
      BY <1>5, <2>1, <3>1
    <3>3. i + 1 = j + 1
      BY <3>2 DEF RankBooks, FileIsGood
    <3> QED
      BY <3>3, RankFacts
  <2> QED
    BY <1>2, <1>5, <2>1 DEF NodesAreTheirs
<1>9. FileIsGood'
  BY <1>1 DEF RankBooks, FileIsGood
<1>10. Remembers'
  <2>1. ASSUME NEW n \in Names, promised[n] # Never
        PROVE  \E i \in Nodes : Recalls(nodes'[i], n, promised[n])
    <3>1. PICK k \in 1..Len(file) : Recalls(file[k], n, promised[n])
      BY <2>1 DEF RankBooks, Remembers
    <3>2. k - 1 \in Nodes /\ k - 1 < Len(file) /\ (k - 1) + 1 = k
      BY <1>3, RankFacts
    <3>3. nodes'[k - 1] = file[k]
      BY <1>5, <3>2
    <3> QED
      BY <3>1, <3>2, <3>3
  <2> QED
    BY <1>1, <2>1 DEF RankBooks, Remembers
<1> QED
  BY <1>7, <1>8, <1>9, <1>10 DEF RankBooks

LEMMA RankInvInit ==
  ASSUME RankInit
  PROVE  RankInv
<1>1. Empty \in RankNode /\ Empty.name = NoName /\ Empty.pl = NoOne
  BY DEF Empty, RankNode
<1>2. /\ nodes = [i \in Nodes |-> Empty] /\ Playing = {} /\ DOMAIN scoreOf = {}
      /\ file = <<>> /\ Len(file) = 0
      /\ \A n \in Names : due[n] = Never /\ promised[n] = Never
  BY DEF RankInit, Playing
<1>3. RankTyped
  BY <1>1, <1>2, RankFacts DEF RankInit, RankTyped
<1>4. NodesAreTheirs /\ FileIsGood /\ Remembers
  BY <1>1, <1>2, RankFacts DEF NodesAreTheirs, FileIsGood, Remembers
<1> QED
  BY <1>3, <1>4 DEF RankInv, RankBooks

LEMMA RankInvStep ==
  ASSUME RankInv, [RankNext]_rankVars
  PROVE  RankInv'
<1> SUFFICES ASSUME ~spoiled' PROVE RankBooks'
  BY DEF RankInv
<1>1. CASE Login
  <2>1. PICK n \in Names \ Playing :
          /\ TimePasses /\ (Remembered(n) \/ Registered(n)) /\ UNCHANGED <<order, file>>
    BY <1>1 DEF Login
  <2>2. CASE Remembered(n)
    <3>1. ~spoiled
      BY <2>2 DEF Remembered, history
    <3> QED
      BY <2>1, <2>2, <3>1, RememberedKeeps DEF RankInv
  <2>3. CASE Registered(n)
    <3>1. ~spoiled /\ nodes[NodeFor].pl = NoOne
      BY <2>3 DEF Registered
    <3> QED
      BY <2>1, <2>3, <3>1, RegisteredKeeps DEF RankInv
  <2> QED
    BY <2>1, <2>2, <2>3
<1>2. CASE Score
  <2>1. ~spoiled
    BY <1>2 DEF Score, history
  <2> QED
    BY <1>2, <2>1, ScoreKeeps DEF RankInv
<1>3. CASE ResetAll
  BY <1>3, ResetAllKeeps DEF RankInv, ResetAll, history
<1>4. CASE Leave
  <2>1. ~spoiled
    BY <1>4 DEF Leave
  <2> QED
    BY <1>4, <2>1, LeaveKeeps DEF RankInv
<1>5. CASE Write
  BY <1>5, WriteKeeps DEF RankInv, Write
<1>6. CASE Restart
  BY <1>6, RestartKeeps DEF RankInv, Restart
<1>7. CASE UNCHANGED rankVars
  <2>1. RankBooks
    BY <1>7 DEF rankVars, history, RankInv
  <2> QED
    BY <1>7, <2>1 DEF rankVars, history, RankBooks, RankTyped, NodesAreTheirs, FileIsGood, Remembers, Playing
<1> QED
  BY <1>1, <1>2, <1>3, <1>4, <1>5, <1>6, <1>7 DEF RankNext

(* For a table of any size and any number of players: whoever leaves is    *)
(* remembered with the score he left with, through a crash if the file was *)
(* written since, and whoever plays has a node, until a player loses his   *)
(* node while he plays (rank.c:815).                                       *)
THEOREM RankIsAlwaysKept == RankSpec => []RankIsKept
<1>1. RankInv => RankIsKept
  <2> SUFFICES ASSUME RankBooks PROVE RankIsKept
    BY DEF RankInv, RankIsKept
  <2>1. \A n \in Playing : rankOf[n] # NoNode
    BY RankFacts DEF RankBooks, NodesAreTheirs
  <2>2. ASSUME NEW n \in Names \ Playing, due[n] # Never
        PROVE  \E i \in Nodes : nodes[i] = [name |-> n, score |-> due[n], pl |-> NoOne,
                                            timestamp |-> nodes[i].timestamp]
    <3>1. PICK i \in Nodes : Recalls(nodes[i], n, due[n])
      BY <2>2 DEF RankBooks, Remembers
    <3>2. nodes[i] \in RankNode
      BY DEF RankBooks, RankTyped
    <3> QED
      BY <3>1, <3>2 DEF Recalls, RankNode
  <2> QED
    BY <2>1, <2>2 DEF RankIsKept
<1> QED
  BY <1>1, RankInvInit, RankInvStep, PTL DEF RankSpec
=============================================================================
