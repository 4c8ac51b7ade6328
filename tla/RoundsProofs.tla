---------------------------- MODULE RoundsProofs ----------------------------
(***************************************************************************)
(* The rounds keep their books for any number of players, teams and places *)
(* for pausers: Players[] and NumPaused are right in the middle of every   *)
(* loop, nobody stays killed, and the verdict on a round is right.         *)
(*                                                                         *)
(* Sound is the invariant of the game; SoundBut leaves out the players     *)
(* whom a handler is about to place, since Players_swap_teams and the      *)
(* login change teams before they compute states. The hard part is what    *)
(* the loops meet when pausing somebody kicks others: Descended says that  *)
(* players move down in Players[] only, so that whoever has been killed is *)
(* still ahead of the loop that goes down (KilledUpTo). The loop of        *)
(* Players_kick_paused itself is a recursive function; LeastNumber gives   *)
(* the induction over it.                                                  *)
(***************************************************************************)
EXTENDS Rounds, Counting
-----------------------------------------------------------------------------
(* Numbers and sequences.                                                  *)

(* The last entry takes the place of the one that goes, and everything     *)
(* else stays where it is.                                                 *)
LEMMA EntryRemoved ==
  ASSUME NEW S, NEW seq \in Seq(S), NEW j \in 1..Len(seq),
         \A a, b \in 1..Len(seq) : seq[a] = seq[b] => a = b
  PROVE  LET r == SwapRemove(seq, seq[j]) IN
         /\ r \in Seq(S) /\ Len(r) = Len(seq) - 1
         /\ \A k \in 1..Len(r) : r[k] = IF k = j THEN seq[Len(seq)] ELSE seq[k]
         /\ \A a, b \in 1..Len(r) : r[a] = r[b] => a = b
         /\ ToSet(r) = ToSet(seq) \ {seq[j]}
<1> DEFINE n == Len(seq)
           s == [k \in 1..n |-> IF seq[k] = seq[j] THEN seq[n] ELSE seq[k]]
           r == SubSeq(s, 1, n - 1)
<1>1. n \in Nat /\ n >= 1 /\ j \in 1..n
  BY SMT
<1>2. s \in Seq(S) /\ Len(s) = n
  BY <1>1, SMT
<1>3. r \in Seq(S) /\ Len(r) = n - 1 /\ \A k \in 1..(n - 1) : r[k] = s[k]
  BY <1>1, <1>2, SMT
<1>4. \A k \in 1..(n - 1) : r[k] = IF k = j THEN seq[n] ELSE seq[k]
  BY <1>1, <1>3
<1> HIDE DEF r, s
<1>5. \A a, b \in 1..Len(r) : r[a] = r[b] => a = b
  BY <1>1, <1>3, <1>4, SMT
<1>6. ToSet(r) = ToSet(seq) \ {seq[j]}
  <2>1. ASSUME NEW k \in 1..Len(r) PROVE r[k] \in ToSet(seq) /\ r[k] # seq[j]
    BY <1>1, <1>3, <1>4, SMT DEF ToSet
  <2>2. ASSUME NEW k \in 1..n, k # j PROVE \E m \in 1..Len(r) : r[m] = seq[k]
    <3>1. CASE k = n
      BY <1>1, <1>3, <1>4, <2>2, <3>1, SMT
    <3>2. CASE k # n
      BY <1>1, <1>3, <1>4, <2>2, <3>2, SMT
    <3> QED
      BY <3>1, <3>2
  <2>3. DOMAIN r = 1..Len(r) /\ DOMAIN seq = 1..n
    BY <1>3
  <2>4. ASSUME NEW x \in ToSet(r) PROVE x \in ToSet(seq) \ {seq[j]}
    BY <2>1, <2>3 DEF ToSet
  <2>5. ASSUME NEW x \in ToSet(seq) \ {seq[j]} PROVE x \in ToSet(r)
    <3>1. PICK k \in 1..n : seq[k] = x
      BY <2>3 DEF ToSet
    <3>2. PICK m \in 1..Len(r) : r[m] = seq[k]
      BY <2>2, <3>1
    <3> QED
      BY <2>3, <3>1, <3>2 DEF ToSet
  <2> QED
    BY <2>4, <2>5
<1>7. SwapRemove(seq, seq[j]) = r
  BY DEF SwapRemove, r, s
<1> QED
  BY <1>3, <1>4, <1>5, <1>6, <1>7
-----------------------------------------------------------------------------
(* The game.                                                               *)

PlStates == Active \cup {"UNDEFINED", "PAUSED"}
AnyTeam  == Teams \cup {PauseTeam, NoTeam}

IsGame(g) ==
  g \in [order : Seq(Ids), team : [Ids -> AnyTeam], pl_state : [Ids -> PlStates],
         life : {g.life}, slain : {g.slain}, fuse : {g.fuse}, NumPaused : Int]

Once(g) == \A j, k \in DOMAIN g.order : g.order[j] = g.order[k] => j = k

\* What is true of everybody but those whom a handler is about to place.
SoundBut(g, some) ==
  /\ IsGame(g) /\ Once(g)
  /\ some \subseteq ToSet(g.order)
  /\ \A p \in Ids \ some : p \in ToSet(g.order) <=> g.pl_state[p] # "UNDEFINED"
  /\ \A p \in ToSet(g.order) \ some : g.team[p] = PauseTeam <=> g.pl_state[p] = "PAUSED"

Sound(g) == SoundBut(g, {})

Paused(g)  == Those(g, {"PAUSED"})
Counted(g) == g.NumPaused = Cardinality(Paused(g))

\* Players may have moved down only, and those of them who have not been
\* treated are as they were.
Descended(g, h, some) ==
  /\ \A j \in DOMAIN h.order : \E k \in DOMAIN g.order : j <= k /\ h.order[j] = g.order[k]
  /\ \A q \in ToSet(h.order) \ some : h.pl_state[q] = g.pl_state[q]

LEMMA Members ==
  ASSUME NEW g, IsGame(g)
  PROVE  /\ g.order \in Seq(Ids) /\ Len(g.order) \in Nat /\ DOMAIN g.order = 1..Len(g.order)
         /\ ToSet(g.order) \subseteq Ids
         /\ \A k \in 1..Len(g.order) : g.order[k] \in Ids /\ g.order[k] \in ToSet(g.order)
         /\ IsFiniteSet(ToSet(g.order))
         /\ \A states : IsFiniteSet(Those(g, states)) /\ Cardinality(Those(g, states)) \in Nat
<1> DEFINE s == g.order
<1>1. s \in Seq(Ids)
  BY DEF IsGame
<1> HIDE DEF s
<1>2. Len(s) \in Nat /\ DOMAIN s = 1..Len(s) /\ s \in [1..Len(s) -> Ids]
  BY <1>1, SMT
<1>3. \A k \in 1..Len(s) : s[k] \in Ids /\ s[k] \in ToSet(s)
  BY <1>2 DEF ToSet
<1>4. ToSet(s) \subseteq Ids
  BY <1>2 DEF ToSet
<1>5. IsFiniteSet(ToSet(s))
  <2>1. s \in Surjection(1..Len(s), ToSet(s))
    BY <1>2 DEF Surjection, ToSet
  <2>2. IsFiniteSet(1..Len(s))
    BY <1>2, FS_Interval
  <2> QED
    BY <2>1, <2>2, FS_Surjection
<1>6. \A states : IsFiniteSet(Those(g, states)) /\ Cardinality(Those(g, states)) \in Nat
  <2> TAKE states
  <2>1. Those(g, states) \in SUBSET ToSet(s)
    BY DEF Those, s
  <2>2. IsFiniteSet(Those(g, states))
    BY <1>5, <2>1, FS_Subset
  <2> QED
    BY <2>2, FS_CardinalityType
<1> QED
  BY <1>1, <1>2, <1>3, <1>4, <1>5, <1>6 DEF s

(* NumPaused follows when one player changes states.                       *)
LEMMA OneMore ==
  ASSUME NEW g, NEW h, IsGame(g), IsGame(h), h.order = g.order, NEW p \in ToSet(g.order),
         \A q \in Ids : q # p => h.pl_state[q] = g.pl_state[q]
  PROVE  Cardinality(Paused(h)) = Cardinality(Paused(g))
           + (IF h.pl_state[p] = "PAUSED" THEN 1 ELSE 0)
           - (IF g.pl_state[p] = "PAUSED" THEN 1 ELSE 0)
<1>1. IsFiniteSet(Paused(g)) /\ Cardinality(Paused(g)) \in Nat /\ ToSet(g.order) \subseteq Ids
  BY Members DEF Paused
<1>2. /\ Cardinality(Paused(g) \cup {p})
           = IF p \in Paused(g) THEN Cardinality(Paused(g)) ELSE Cardinality(Paused(g)) + 1
      /\ Cardinality(Paused(g) \ {p})
           = IF p \in Paused(g) THEN Cardinality(Paused(g)) - 1 ELSE Cardinality(Paused(g))
  BY <1>1, FS_AddElement, FS_RemoveElement
<1>3. p \in Paused(g) <=> g.pl_state[p] = "PAUSED"
  BY DEF Paused, Those
<1>4. CASE h.pl_state[p] = "PAUSED"
  <2>1. Paused(h) = Paused(g) \cup {p}
    BY <1>1, <1>4 DEF Paused, Those
  <2> QED
    BY <1>1, <1>2, <1>3, <1>4, <2>1
<1>5. CASE h.pl_state[p] # "PAUSED"
  <2>1. Paused(h) = Paused(g) \ {p}
    BY <1>1, <1>5 DEF Paused, Those
  <2> QED
    BY <1>1, <1>2, <1>3, <1>5, <2>1
<1> QED
  BY <1>4, <1>5

(* Whoever plays may change states, but for pausing and leaving.           *)
LEMMA StateKeeps ==
  ASSUME NEW g, NEW h, Sound(g), Counted(g), IsGame(h), NEW p \in ToSet(g.order),
         h.order = g.order, h.team = g.team, h.NumPaused = g.NumPaused,
         \A q \in Ids : q # p => h.pl_state[q] = g.pl_state[q],
         g.pl_state[p] # "PAUSED", h.pl_state[p] \notin {"PAUSED", "UNDEFINED"}
  PROVE  Sound(h) /\ Counted(h) /\ Descended(g, h, {p})
<1>1. IsGame(g) /\ ToSet(g.order) \subseteq Ids /\ DOMAIN g.order \subseteq Int
      /\ Cardinality(Paused(g)) \in Nat
  BY Members DEF Sound, SoundBut, Paused
<1>2. Sound(h)
  BY <1>1 DEF Sound, SoundBut, Once
<1>3. Counted(h)
  BY <1>1, OneMore DEF Counted
<1>4. Descended(g, h, {p})
  BY <1>1 DEF Descended
<1> QED
  BY <1>2, <1>3, <1>4

LEMMA EntryStateIs ==
  ASSUME NEW g, NEW away, NEW p, NEW t
  PROVE  /\ EntryState(g, away, p, t) \in {"PAUSED", "WAITING", "APPEARING", "ALIVE"}
         /\ EntryState(g, away, p, t) = "PAUSED" <=> t = PauseTeam
BY DEF EntryState

\* p has been put into team t, with a state that fits.
Placed(g, h, p, t) ==
  /\ h.order = g.order /\ h.NumPaused = g.NumPaused
  /\ h.team = [g.team EXCEPT ![p] = t]
  /\ \A q \in Ids : q # p => h.pl_state[q] = g.pl_state[q]
  /\ h.pl_state[p] \in {"PAUSED", "WAITING", "APPEARING", "ALIVE"}
  /\ h.pl_state[p] = "PAUSED" <=> t = PauseTeam

(* Move places a player: he needs not to be sound before.                  *)
LEMMA MoveKeeps ==
  ASSUME NEW g, NEW some, SoundBut(g, some), NEW p \in ToSet(g.order), NEW t \in AnyTeam
  PROVE  SoundBut(Move(g, p, t), some \ {p}) /\ Placed(g, Move(g, p, t), p, t)
<1> DEFINE g1 == [g EXCEPT !.team[p] = t]
           s  == EntryState(g1, treasures.missing, p, t)
           h  == [g1 EXCEPT !.pl_state[p] = s]
<1>1. IsGame(g) /\ ToSet(g.order) \subseteq Ids
  BY Members DEF SoundBut
<1>2. s \in {"PAUSED", "WAITING", "APPEARING", "ALIVE"} /\ (s = "PAUSED" <=> t = PauseTeam)
  BY EntryStateIs
<1>3. Move(g, p, t) = h
  BY DEF Move
<1> HIDE DEF s
<1>4. /\ h.order = g.order /\ h.NumPaused = g.NumPaused
      /\ h.team = [g.team EXCEPT ![p] = t]
      /\ h.pl_state = [g.pl_state EXCEPT ![p] = s]
      /\ IsGame(h)
  BY <1>1, <1>2 DEF IsGame, PlStates, Active, Playing, Out
<1> HIDE DEF h
<1>5. /\ \A q \in Ids : q # p => h.pl_state[q] = g.pl_state[q] /\ h.team[q] = g.team[q]
      /\ h.pl_state[p] = s /\ h.team[p] = t
  BY <1>1, <1>4 DEF IsGame
<1>6. SoundBut(h, some \ {p})
  BY <1>1, <1>2, <1>4, <1>5 DEF SoundBut, Once
<1>7. Placed(g, h, p, t)
  BY <1>2, <1>4, <1>5 DEF Placed
<1> QED
  BY <1>3, <1>6, <1>7
-----------------------------------------------------------------------------
(* Leaving, kicking and pausing.                                           *)

\* p has left, and the last player has taken the place.
Departed(g, h, p) ==
  /\ \E j \in 1..Len(g.order) :
       /\ p = g.order[j] /\ Len(h.order) = Len(g.order) - 1
       /\ \A k \in 1..Len(h.order) :
            h.order[k] = IF k = j THEN g.order[Len(g.order)] ELSE g.order[k]
  /\ ToSet(h.order) = ToSet(g.order) \ {p}
  /\ \A q \in Ids : q # p => h.pl_state[q] = g.pl_state[q]
  /\ h.pl_state[p] = "UNDEFINED"

LEMMA DepartKeeps ==
  ASSUME NEW g, Sound(g), Counted(g), NEW p \in ToSet(g.order)
  PROVE  LET h == Depart(g, p) IN
         Sound(h) /\ Counted(h) /\ Descended(g, h, {}) /\ Departed(g, h, p)
<1> DEFINE h == Depart(g, p)
           r == SwapRemove(g.order, p)
           n == IF g.pl_state[p] = "PAUSED" THEN g.NumPaused - 1 ELSE g.NumPaused
<1>1. /\ IsGame(g) /\ g.order \in Seq(Ids) /\ Len(g.order) \in Nat
      /\ DOMAIN g.order = 1..Len(g.order) /\ ToSet(g.order) \subseteq Ids
      /\ Once(g)
  BY Members DEF Sound, SoundBut
<1>2. PICK j \in 1..Len(g.order) : p = g.order[j]
  BY <1>1 DEF ToSet
<1>3. /\ r \in Seq(Ids) /\ Len(r) = Len(g.order) - 1
      /\ \A k \in 1..Len(r) : r[k] = IF k = j THEN g.order[Len(g.order)] ELSE g.order[k]
      /\ \A a, b \in 1..Len(r) : r[a] = r[b] => a = b
      /\ ToSet(r) = ToSet(g.order) \ {p}
  <2> DEFINE s == g.order
  <2>1. /\ s \in Seq(Ids) /\ j \in 1..Len(s) /\ p = s[j]
        /\ \A a, b \in 1..Len(s) : s[a] = s[b] => a = b
    BY <1>1, <1>2 DEF Once
  <2> HIDE DEF s
  <2>2. LET q == SwapRemove(s, s[j]) IN
        /\ q \in Seq(Ids) /\ Len(q) = Len(s) - 1
        /\ \A k \in 1..Len(q) : q[k] = IF k = j THEN s[Len(s)] ELSE s[k]
        /\ \A a, b \in 1..Len(q) : q[a] = q[b] => a = b
        /\ ToSet(q) = ToSet(s) \ {s[j]}
    BY <2>1, EntryRemoved
  <2> QED
    BY <2>1, <2>2 DEF s
<1>4. /\ h.order = r /\ h.NumPaused = n
      /\ h.team = [g.team EXCEPT ![p] = NoTeam]
      /\ h.pl_state = [g.pl_state EXCEPT ![p] = "UNDEFINED"]
      /\ IsGame(h)
  <2>1. r = SwapRemove(g.order, p)
    OBVIOUS
  <2> HIDE DEF r
  <2>2. /\ h.order = r /\ h.NumPaused = n
        /\ h.team = [g.team EXCEPT ![p] = NoTeam]
        /\ h.pl_state = [g.pl_state EXCEPT ![p] = "UNDEFINED"]
    BY <1>1, <2>1 DEF IsGame, Depart
  <2>3. n \in Int /\ NoTeam \in AnyTeam /\ "UNDEFINED" \in PlStates
    BY <1>1 DEF IsGame, AnyTeam, PlStates
  <2>4. IsGame(h)
    BY <1>1, <1>3, <2>1, <2>3 DEF IsGame, Depart
  <2> QED
    BY <2>2, <2>4
<1> HIDE DEF r
<1> HIDE DEF h
<1>5. /\ \A q \in Ids : q # p => h.pl_state[q] = g.pl_state[q] /\ h.team[q] = g.team[q]
      /\ h.pl_state[p] = "UNDEFINED"
  BY <1>1, <1>4 DEF IsGame
<1>6. DOMAIN r = 1..Len(r)
  BY <1>3
<1>7. Sound(h)
  BY <1>1, <1>3, <1>4, <1>5, <1>6 DEF Sound, SoundBut, Once
<1>8. Counted(h)
  <2>1. IsFiniteSet(Paused(g)) /\ Cardinality(Paused(g)) \in Nat
    BY <1>1, Members DEF Paused
  <2>2. Paused(h) = Paused(g) \ {p}
    BY <1>1, <1>3, <1>4, <1>5 DEF Paused, Those
  <2>3. p \in Paused(g) <=> g.pl_state[p] = "PAUSED"
    BY DEF Paused, Those
  <2>4. Cardinality(Paused(g) \ {p})
          = IF p \in Paused(g) THEN Cardinality(Paused(g)) - 1 ELSE Cardinality(Paused(g))
    BY <2>1, FS_RemoveElement
  <2> QED
    BY <1>4, <2>2, <2>3, <2>4 DEF Counted
<1>9. Descended(g, h, {})
  <2>1. ASSUME NEW k \in 1..Len(r) PROVE \E m \in 1..Len(g.order) : k <= m /\ r[k] = g.order[m]
    <3>1. CASE k = j
      BY <1>1, <1>3, <3>1
    <3>2. CASE k # j
      BY <1>1, <1>3, <3>2
    <3> QED
      BY <3>1, <3>2
  <2>2. \A q \in ToSet(r) : h.pl_state[q] = g.pl_state[q]
    BY <1>1, <1>3, <1>5
  <2> QED
    BY <1>1, <1>4, <1>6, <2>1, <2>2 DEF Descended
<1>10. \A k \in 1..Len(h.order) :
         h.order[k] = IF k = j THEN g.order[Len(g.order)] ELSE g.order[k]
  BY <1>3, <1>4
<1>11. Departed(g, h, p)
  BY <1>2, <1>3, <1>4, <1>5, <1>10 DEF Departed
<1> QED
  BY <1>7, <1>8, <1>9, <1>11 DEF h

LEMMA DescendedAgain ==
  ASSUME NEW g, NEW h, NEW f, IsGame(g), IsGame(h), IsGame(f),
         NEW some, NEW others, Descended(g, h, some), Descended(h, f, others)
  PROVE  Descended(g, f, some \cup others)
<1>1. /\ DOMAIN g.order \subseteq Int /\ DOMAIN h.order \subseteq Int /\ DOMAIN f.order \subseteq Int
  BY Members
<1>2. ASSUME NEW j \in DOMAIN f.order
      PROVE \E k \in DOMAIN g.order : j <= k /\ f.order[j] = g.order[k]
  <2>1. PICK m \in DOMAIN h.order : j <= m /\ f.order[j] = h.order[m]
    BY DEF Descended
  <2>2. PICK k \in DOMAIN g.order : m <= k /\ h.order[m] = g.order[k]
    BY DEF Descended
  <2> QED
    BY <1>1, <2>1, <2>2
<1>3. ToSet(f.order) \subseteq ToSet(h.order)
  BY DEF Descended, ToSet
<1>4. \A q \in ToSet(f.order) \ (some \cup others) : f.pl_state[q] = g.pl_state[q]
  BY <1>3 DEF Descended
<1> QED
  BY <1>2, <1>4 DEF Descended

(* The loop of KickPaused, unrolled.                                       *)
LEMMA KickedOneByOne ==
  ASSUME NEW g, Len(g.order) \in Nat
  PROVE  \E after : /\ KickPaused(g) = after[Len(g.order)]
                    /\ after[0] = g
                    /\ \A k \in 1..Len(g.order) :
                         after[k] = Kicked(after[k - 1], g.order[Len(g.order) + 1 - k])
<1> DEFINE n == Len(g.order)
           Loop(f, m) == f = [k \in 0..m |-> IF k = 0 THEN g
                                             ELSE Kicked(f[k - 1], g.order[n + 1 - k])]
           Runs == {m \in 0..n : \E f : Loop(f, m)}
<1>1. 0 \in Runs
  <2> DEFINE f == [k \in 0..0 |-> g]
  <2>1. Loop(f, 0)
    OBVIOUS
  <2> HIDE DEF Loop, f
  <2> QED
    BY <2>1
<1>2. ASSUME NEW m \in 1..n, m - 1 \in Runs PROVE m \in Runs
  <2>1. PICK f : Loop(f, m - 1)
    BY <1>2
  <2> DEFINE f1 == [k \in 0..m |-> IF k = m THEN Kicked(f[m - 1], g.order[n + 1 - m]) ELSE f[k]]
  <2>2. \A k \in 0..(m - 1) : f[k] = IF k = 0 THEN g ELSE Kicked(f[k - 1], g.order[n + 1 - k])
    BY <2>1
  <2>3. ASSUME NEW k \in 0..m
        PROVE  f1[k] = IF k = 0 THEN g ELSE Kicked(f1[k - 1], g.order[n + 1 - k])
    <3>1. CASE k = m
      <4>1. f1[k - 1] = f[m - 1] /\ k # 0
        BY <3>1
      <4> QED
        BY <3>1, <4>1
    <3>2. CASE k # m
      <4>1. k \in 0..(m - 1) /\ f1[k] = f[k]
        BY <3>2
      <4>2. k # 0 => f1[k - 1] = f[k - 1]
        BY <3>2
      <4> QED
        BY <2>2, <4>1, <4>2
    <3> QED
      BY <3>1, <3>2
  <2>4. Loop(f1, m)
    <3> DEFINE f2 == [k \in 0..m |-> IF k = 0 THEN g ELSE Kicked(f1[k - 1], g.order[n + 1 - k])]
    <3>1. f1 = [k \in 0..m |-> f1[k]]
      OBVIOUS
    <3>2. \A k \in 0..m : f1[k] = f2[k]
      BY <2>3
    <3> HIDE DEF f1
    <3>3. f1 = f2
      BY <3>1, <3>2
    <3> QED
      BY <3>3
  <2> HIDE DEF Loop, f1
  <2> QED
    BY <2>4
<1>3. PICK f : Loop(f, n)
  <2> HIDE DEF Runs
  <2>1. \A k \in 0..n : k \in Runs
    BY <1>1, <1>2, UpTo
  <2> QED
    BY <2>1 DEF Runs
<1> DEFINE after == CHOOSE h : Loop(h, n)
<1>4. Loop(after, n)
  BY <1>3
<1>5. KickPaused(g) = after[n]
  BY DEF KickPaused
<1>6. \A k \in 0..n : after[k] = IF k = 0 THEN g ELSE Kicked(after[k - 1], g.order[n + 1 - k])
  <2> HIDE DEF after
  <2> QED
    BY <1>4
<1> HIDE DEF after
<1>7. after[0] = g /\ \A k \in 1..n : after[k] = Kicked(after[k - 1], g.order[n + 1 - k])
  BY <1>6
<1> QED
  BY <1>5, <1>7

\* What the loop of KickPaused has done to g when it has looked at the last k
\* players.
KickedSoFar(g, k, h) ==
  /\ Sound(h) /\ Counted(h) /\ Descended(g, h, {})
  /\ Len(g.order) - k <= Len(h.order)
  /\ \A m \in 1..(Len(g.order) - k) : h.order[m] = g.order[m]
  /\ \A m \in 1..Len(h.order) : m > Len(g.order) - k => h.pl_state[h.order[m]] # "PAUSED"
  /\ \A q \in ToSet(g.order) : g.pl_state[q] # "PAUSED" => q \in ToSet(h.order)

LEMMA KickedKeeps ==
  ASSUME NEW g, Sound(g), NEW k \in 1..Len(g.order), NEW f, KickedSoFar(g, k - 1, f)
  PROVE  KickedSoFar(g, k, Kicked(f, g.order[Len(g.order) + 1 - k]))
<1> DEFINE n == Len(g.order)
           j == n + 1 - k
           p == g.order[j]
<1>1. /\ IsGame(g) /\ IsGame(f) /\ Once(f) /\ Sound(f) /\ Counted(f) /\ Descended(g, f, {})
      /\ n \in Nat /\ Len(f.order) \in Nat
      /\ DOMAIN g.order = 1..n /\ DOMAIN f.order = 1..Len(f.order)
      /\ \A m \in 1..Len(f.order) : f.order[m] \in Ids /\ f.order[m] \in ToSet(f.order)
      /\ ToSet(g.order) \subseteq Ids
  BY Members DEF KickedSoFar, Sound, SoundBut
<1>2. /\ n - (k - 1) <= Len(f.order)
      /\ \A m \in 1..(n - (k - 1)) : f.order[m] = g.order[m]
      /\ \A m \in 1..Len(f.order) : m > n - (k - 1) => f.pl_state[f.order[m]] # "PAUSED"
      /\ \A q \in ToSet(g.order) : g.pl_state[q] # "PAUSED" => q \in ToSet(f.order)
  BY DEF KickedSoFar
<1> HIDE DEF n
<1>3. j \in 1..Len(f.order) /\ f.order[j] = p /\ p \in ToSet(f.order) /\ k \in Int
  BY <1>1, <1>2 DEF n
<1>4. CASE f.pl_state[p] # "PAUSED"
  <2>1. Kicked(f, p) = f
    BY <1>4 DEF Kicked
  <2>2. n - k <= Len(f.order) /\ \A m \in 1..(n - k) : f.order[m] = g.order[m]
    BY <1>1, <1>2, <1>3
  <2>3. \A m \in 1..Len(f.order) : m > n - k => f.pl_state[f.order[m]] # "PAUSED"
    BY <1>1, <1>2, <1>3, <1>4
  <2> QED
    BY <1>1, <1>2, <2>1, <2>2, <2>3 DEF KickedSoFar, n
<1>5. CASE f.pl_state[p] = "PAUSED"
  <2> DEFINE h == Depart(f, p)
  <2>1. Kicked(f, p) = h
    BY <1>5 DEF Kicked
  <2>2. /\ Sound(h) /\ Counted(h) /\ Descended(f, h, {})
        /\ \E i1 \in 1..Len(f.order) :
             /\ p = f.order[i1] /\ Len(h.order) = Len(f.order) - 1
             /\ \A m \in 1..Len(h.order) :
                  h.order[m] = IF m = i1 THEN f.order[Len(f.order)] ELSE f.order[m]
        /\ ToSet(h.order) = ToSet(f.order) \ {p}
        /\ \A q \in Ids : q # p => h.pl_state[q] = f.pl_state[q]
    <3>1. Sound(h) /\ Counted(h) /\ Descended(f, h, {}) /\ Departed(f, h, p)
      BY <1>1, <1>3, DepartKeeps
    <3> QED
      BY <3>1 DEF Departed
  <2> HIDE DEF h
  <2>3. /\ Len(h.order) = Len(f.order) - 1
        /\ \A m \in 1..Len(h.order) :
             h.order[m] = IF m = j THEN f.order[Len(f.order)] ELSE f.order[m]
    BY <1>1, <1>3, <2>2 DEF Once
  <2>4. IsGame(h) /\ DOMAIN h.order = 1..Len(h.order)
        /\ \A m \in 1..Len(h.order) : h.order[m] \in ToSet(h.order)
    BY <2>2, Members DEF Sound, SoundBut
  <2>5. Descended(g, h, {})
    BY <1>1, <2>2, <2>4, DescendedAgain
  <2>6. n - k <= Len(h.order) /\ \A m \in 1..(n - k) : h.order[m] = g.order[m]
    BY <1>1, <1>2, <1>3, <2>3
  <2>7. ASSUME NEW m \in 1..Len(h.order), m > n - k PROVE h.pl_state[h.order[m]] # "PAUSED"
    <3>1. h.order[m] \in Ids /\ h.order[m] # p
      BY <1>1, <2>2, <2>4, Members
    <3>2. CASE m = j
      <4>1. Len(f.order) \in 1..Len(f.order) /\ Len(f.order) > n - (k - 1)
        BY <1>1, <1>3, <2>3, <3>2
      <4>2. /\ h.order[m] = f.order[Len(f.order)]
            /\ h.pl_state[h.order[m]] = f.pl_state[f.order[Len(f.order)]]
        BY <2>2, <2>3, <3>1, <3>2
      <4> QED
        BY <1>2, <4>1, <4>2
    <3>3. CASE m # j
      <4>1. m \in 1..Len(f.order) /\ m > n - (k - 1)
        BY <1>1, <1>3, <2>3, <2>7, <3>3
      <4>2. h.order[m] = f.order[m] /\ h.pl_state[h.order[m]] = f.pl_state[f.order[m]]
        BY <2>2, <2>3, <3>1, <3>3
      <4> QED
        BY <1>2, <4>1, <4>2
    <3> QED
      BY <3>2, <3>3
  <2>8. \A q \in ToSet(g.order) : g.pl_state[q] # "PAUSED" => q \in ToSet(h.order)
    <3>1. f.pl_state[p] = g.pl_state[p]
      BY <1>1, <1>3 DEF Descended
    <3> QED
      BY <1>2, <1>5, <2>2, <3>1
  <2> QED
    BY <2>1, <2>2, <2>5, <2>6, <2>7, <2>8 DEF KickedSoFar, n
<1> QED
  BY <1>4, <1>5 DEF n

LEMMA KickPausedKeeps ==
  ASSUME NEW g, Sound(g), Counted(g)
  PROVE  LET h == KickPaused(g) IN
         /\ Sound(h) /\ Counted(h) /\ Descended(g, h, {})
         /\ Paused(h) = {}
         /\ \A q \in ToSet(g.order) : g.pl_state[q] # "PAUSED" => q \in ToSet(h.order)
<1> DEFINE n == Len(g.order)
<1>1. IsGame(g) /\ n \in Nat /\ DOMAIN g.order = 1..n
  BY Members DEF Sound, SoundBut
<1> HIDE DEF n
<1>2. PICK after : /\ KickPaused(g) = after[n]
                   /\ after[0] = g
                   /\ \A k \in 1..n : after[k] = Kicked(after[k - 1], g.order[n + 1 - k])
  BY <1>1, KickedOneByOne DEF n
<1> DEFINE S == {k \in 0..n : KickedSoFar(g, k, after[k])}
<1>3. 0 \in S
  <2>1. Descended(g, g, {})
    BY <1>1 DEF Descended
  <2> QED
    BY <1>1, <1>2, <2>1 DEF KickedSoFar, n
<1>4. ASSUME NEW k \in 1..n, k - 1 \in S PROVE k \in S
  BY <1>1, <1>2, <1>4, KickedKeeps DEF n
<1>5. \A k \in 0..n : k \in S
  <2> HIDE DEF S
  <2> QED
    BY <1>1, <1>3, <1>4, UpTo
<1> DEFINE h == after[n]
<1>6. KickedSoFar(g, n, h)
  BY <1>1, <1>5
<1> HIDE DEF h
<1>7. Paused(h) = {}
  <2>1. DOMAIN h.order = 1..Len(h.order)
    BY <1>6, Members DEF KickedSoFar, Sound, SoundBut
  <2>2. \A m \in 1..Len(h.order) : h.pl_state[h.order[m]] # "PAUSED"
    BY <1>1, <1>6 DEF KickedSoFar, n
  <2> QED
    BY <2>1, <2>2 DEF Paused, Those, ToSet
<1> QED
  BY <1>2, <1>6, <1>7 DEF KickedSoFar, h

LEMMA PauseForcedKeeps ==
  ASSUME NEW g, Sound(g), Counted(g), NEW p \in ToSet(g.order), g.pl_state[p] # "PAUSED"
  PROVE  LET h == PauseForced(g, p) IN
         /\ Sound(h) /\ Counted(h) /\ Descended(g, h, {p})
         /\ h.pl_state[p] = "PAUSED"
<1> DEFINE g1 == IF g.NumPaused >= MaxPaused THEN KickPaused(g) ELSE g
           g2 == Move(g1, p, PauseTeam)
           h  == [g2 EXCEPT !.slain[p] = FALSE, !.life[p] = Lives, !.NumPaused = @ + 1]
<1>0. IsGame(g) /\ DOMAIN g.order \subseteq Int
  BY Members DEF Sound, SoundBut
<1>1. /\ Sound(g1) /\ Counted(g1) /\ Descended(g, g1, {}) /\ p \in ToSet(g1.order)
      /\ g1.pl_state[p] # "PAUSED"
  <2>1. CASE g.NumPaused >= MaxPaused
    BY <2>1, KickPausedKeeps DEF Descended
  <2>2. CASE ~(g.NumPaused >= MaxPaused)
    BY <1>0, <2>2 DEF Descended
  <2> QED
    BY <2>1, <2>2
<1> HIDE DEF g1
<1>2. /\ IsGame(g1) /\ ToSet(g1.order) \subseteq Ids /\ DOMAIN g1.order \subseteq Int
      /\ Cardinality(Paused(g1)) \in Nat
  BY <1>1, Members DEF Sound, SoundBut, Paused
<1>3. /\ Sound(g2) /\ g2.order = g1.order /\ g2.NumPaused = g1.NumPaused
      /\ \A q \in Ids : q # p => g2.pl_state[q] = g1.pl_state[q]
      /\ g2.pl_state[p] = "PAUSED"
  <2>1. PauseTeam \in AnyTeam /\ {} \ {p} = {}
    BY DEF AnyTeam
  <2> QED
    <3>1. SoundBut(g2, {} \ {p}) /\ Placed(g1, g2, p, PauseTeam)
      BY <1>1, <2>1, MoveKeeps DEF Sound
    <3> QED
      BY <2>1, <3>1 DEF Sound, Placed
<1> HIDE DEF g2
<1>4. /\ h.order = g2.order /\ h.team = g2.team /\ h.pl_state = g2.pl_state
      /\ h.NumPaused = g2.NumPaused + 1 /\ IsGame(h) /\ IsGame(g2)
  <2>1. IsGame(g2)
    BY <1>3 DEF Sound, SoundBut
  <2>2. /\ h.order = g2.order /\ h.team = g2.team /\ h.pl_state = g2.pl_state
        /\ h.NumPaused = g2.NumPaused + 1
    BY <2>1 DEF IsGame
  <2>3. IsGame(h)
    <3> DEFINE s == [g2.slain EXCEPT ![p] = FALSE]
               l == [g2.life EXCEPT ![p] = Lives]
    <3>1. h = [g2 EXCEPT !.slain = s, !.life = l, !.NumPaused = @ + 1]
      OBVIOUS
    <3> HIDE DEF h, s, l
    <3>2. h.life = l /\ h.slain = s /\ h.fuse = g2.fuse
      BY <2>1, <3>1 DEF IsGame
    <3>3. /\ g2.order \in Seq(Ids) /\ g2.team \in [Ids -> AnyTeam]
          /\ g2.pl_state \in [Ids -> PlStates] /\ g2.NumPaused + 1 \in Int
      BY <2>1 DEF IsGame
    <3>4. h \in [order : Seq(Ids), team : [Ids -> AnyTeam], pl_state : [Ids -> PlStates],
                 life : {l}, slain : {s}, fuse : {g2.fuse}, NumPaused : Int]
      BY <2>1, <3>1, <3>3 DEF IsGame
    <3> QED
      BY <3>2, <3>4 DEF IsGame
  <2> QED
    BY <2>1, <2>2, <2>3
<1>5. PauseForced(g, p) = h
  BY DEF PauseForced, g1, g2
<1> HIDE DEF h
<1>6. Sound(h)
  BY <1>3, <1>4 DEF Sound, SoundBut, Once
<1>7. Counted(h)
  BY <1>1, <1>2, <1>3, <1>4, OneMore DEF Counted
<1>8. Descended(g1, h, {p})
  BY <1>2, <1>3, <1>4 DEF Descended
<1>9. Descended(g, h, {p})
  <2>1. {} \cup {p} = {p}
    OBVIOUS
  <2> QED
    BY <1>0, <1>1, <1>2, <1>4, <1>8, <2>1, DescendedAgain
<1> QED
  BY <1>3, <1>4, <1>5, <1>6, <1>7, <1>9
-----------------------------------------------------------------------------
(* The invariant, and the actions one by one.                              *)

NoneKilled(g)    == \A p \in ToSet(g.order) : g.pl_state[p] # "KILLED"
KilledUpTo(g, n) == \A k \in DOMAIN g.order : g.pl_state[g.order[k]] = "KILLED" => k <= n

IInv ==
  /\ Sound(game) /\ Counted(game)
  /\ i \in Nat
  /\ pc \in {"update", "reset", "command_reset"} => i >= 1
  /\ pc \notin {"collide", "killed"} => NoneKilled(game)
  /\ pc = "killed" => KilledUpTo(game, i)

\* What an action on the players leaves alone if it kills nobody.
Kept == Sound(game') /\ Counted(game') /\ (NoneKilled(game) => NoneKilled(game'))

LEMMA GameOfIInv ==
  ASSUME IInv
  PROVE  /\ Sound(game) /\ SoundBut(game, {}) /\ Counted(game) /\ IsGame(game) /\ Once(game)
         /\ ToSet(game.order) \subseteq Ids
         /\ DOMAIN game.order = 1..Len(game.order) /\ Len(game.order) \in Nat
         /\ \A k \in 1..Len(game.order) : game.order[k] \in ToSet(game.order)
         /\ \A p \in ToSet(game.order) : game.pl_state[p] # "UNDEFINED"
         /\ Cardinality(Paused(game)) \in Nat
<1>1. Sound(game) /\ Counted(game) /\ SoundBut(game, {}) /\ IsGame(game) /\ Once(game)
  BY DEF IInv, Sound, SoundBut
<1>2. /\ ToSet(game.order) \subseteq Ids
      /\ DOMAIN game.order = 1..Len(game.order) /\ Len(game.order) \in Nat
      /\ \A k \in 1..Len(game.order) : game.order[k] \in ToSet(game.order)
      /\ Cardinality(Paused(game)) \in Nat
  BY <1>1, Members DEF Paused
<1> QED
  BY <1>1, <1>2 DEF SoundBut

LEMMA Quiet ==
  ASSUME NEW g, NEW h, NEW some, Descended(g, h, some),
         \A q \in some \cap ToSet(h.order) : h.pl_state[q] # "KILLED", NoneKilled(g)
  PROVE  NoneKilled(h)
<1>1. ToSet(h.order) \subseteq ToSet(g.order)
  BY DEF Descended, ToSet
<1> QED
  BY <1>1 DEF Descended, NoneKilled

LEMMA Recounted ==
  ASSUME NEW g, Sound(g), NEW n \in Int
  PROVE  LET h == [g EXCEPT !.NumPaused = n] IN
         /\ Sound(h) /\ h.order = g.order /\ h.pl_state = g.pl_state /\ h.NumPaused = n
<1> DEFINE h == [g EXCEPT !.NumPaused = n]
<1>1. IsGame(g)
  BY DEF Sound, SoundBut
<1>2. /\ h.order = g.order /\ h.pl_state = g.pl_state /\ h.NumPaused = n /\ h.team = g.team
      /\ IsGame(h)
  BY <1>1 DEF IsGame
<1> HIDE DEF h
<1>3. Sound(h)
  BY <1>2 DEF Sound, SoundBut, Once
<1> QED
  BY <1>2, <1>3 DEF h

LEMMA JoinKeeps ==
  ASSUME IInv, NEW p \in Ids, NEW t \in Teams, Join(p, t)
  PROVE  Kept
<1> DEFINE g1 == [game EXCEPT !.order = Append(@, p), !.life[p] = Lives]
           l  == [game.life EXCEPT ![p] = Lives]
           h  == Move(g1, p, t)
<1>1. /\ p \notin ToSet(game.order) /\ game' = h /\ t \in AnyTeam /\ t # PauseTeam
  BY RulesAssumption DEF Join, AnyTeam, RulesAssumption
<1>2. /\ IsGame(game) /\ Once(game) /\ game.order \in Seq(Ids) /\ Len(game.order) \in Nat
      /\ DOMAIN game.order = 1..Len(game.order) /\ Counted(game) /\ SoundBut(game, {})
      /\ ToSet(game.order) \subseteq Ids
  BY GameOfIInv, Members
<1>3. /\ g1.order = Append(game.order, p) /\ g1.team = game.team /\ g1.pl_state = game.pl_state
      /\ g1.NumPaused = game.NumPaused /\ IsGame(g1)
  <2>1. g1 = [game EXCEPT !.order = Append(@, p), !.life = l]
    OBVIOUS
  <2> HIDE DEF g1, l
  <2>2. Append(game.order, p) \in Seq(Ids)
    BY <1>2
  <2>3. /\ g1.order = Append(game.order, p) /\ g1.team = game.team /\ g1.pl_state = game.pl_state
        /\ g1.NumPaused = game.NumPaused /\ g1.life = l /\ g1.slain = game.slain /\ g1.fuse = game.fuse
    BY <1>2, <2>1 DEF IsGame
  <2>4. g1 \in [order : Seq(Ids), team : [Ids -> AnyTeam], pl_state : [Ids -> PlStates],
                life : {l}, slain : {game.slain}, fuse : {game.fuse}, NumPaused : Int]
    BY <1>2, <2>1, <2>2 DEF IsGame
  <2> QED
    BY <2>3, <2>4 DEF IsGame
<1> HIDE DEF g1
<1> DEFINE s == game.order
           r == g1.order
<1>4. /\ Len(r) = Len(s) + 1 /\ DOMAIN r = 1..Len(r)
      /\ \A k \in 1..Len(r) : r[k] = IF k = Len(r) THEN p ELSE s[k]
  BY <1>2, <1>3
<1>5. ToSet(r) = ToSet(s) \cup {p}
  <2>1. \A x \in ToSet(r) : x \in ToSet(s) \cup {p}
    BY <1>2, <1>4 DEF ToSet
  <2>2. p \in ToSet(r)
    BY <1>2, <1>4 DEF ToSet
  <2>3. ASSUME NEW x \in ToSet(s) PROVE x \in ToSet(r)
    <3>1. PICK k \in 1..Len(s) : s[k] = x
      BY <1>2 DEF ToSet
    <3>2. k \in 1..Len(r) /\ r[k] = x
      BY <1>2, <1>4, <3>1
    <3> QED
      BY <1>4, <3>2 DEF ToSet
  <2> QED
    BY <2>1, <2>2, <2>3
<1>6. Once(g1)
  <2>1. \A k \in 1..Len(s) : s[k] # p
    BY <1>1, <1>2 DEF ToSet
  <2> QED
    BY <1>2, <1>4, <2>1 DEF Once
<1>7. SoundBut(g1, {p})
  BY <1>2, <1>3, <1>5, <1>6 DEF SoundBut
<1>8. game.pl_state[p] = "UNDEFINED"
  BY <1>1, <1>2 DEF SoundBut
<1>9. p \in ToSet(g1.order)
  BY <1>5
<1>10. Sound(h) /\ Placed(g1, h, p, t)
  <2>1. {p} \ {p} = {}
    OBVIOUS
  <2>2. SoundBut(h, {p} \ {p}) /\ Placed(g1, h, p, t)
    BY <1>1, <1>7, <1>9, MoveKeeps
  <2> QED
    BY <2>1, <2>2 DEF Sound
<1> HIDE DEF h
<1>11. Counted(h)
  <2>1. Paused(h) = Paused(game)
    BY <1>1, <1>2, <1>3, <1>5, <1>8, <1>10 DEF Paused, Those, Placed
  <2> QED
    BY <1>2, <1>3, <1>10, <2>1 DEF Counted, Placed
<1>12. NoneKilled(game) => NoneKilled(h)
  BY <1>2, <1>3, <1>5, <1>10 DEF NoneKilled, Placed
<1> QED
  BY <1>1, <1>10, <1>11, <1>12 DEF Kept

LEMMA LeaveKeeps ==
  ASSUME IInv, NEW p \in Ids, Leave(p)
  PROVE  Kept
<1>1. p \in ToSet(game.order) /\ game' = Depart(game, p)
  BY DEF Leave
<1>2. Sound(game') /\ Counted(game') /\ Descended(game, game', {})
  BY <1>1, GameOfIInv, DepartKeeps
<1> QED
  BY <1>2, Quiet DEF Kept

LEMMA PauseKeeps ==
  ASSUME IInv, NEW p \in Ids, PauseSelf(p) \/ PauseCommand(p)
  PROVE  Kept
<1>1. p \in ToSet(game.order) /\ game.pl_state[p] # "PAUSED" /\ game' = PauseForced(game, p)
  BY DEF PauseSelf, PauseCommand, Those, Active, Playing, Out
<1>2. Sound(game') /\ Counted(game') /\ Descended(game, game', {p}) /\ game'.pl_state[p] = "PAUSED"
  BY <1>1, GameOfIInv, PauseForcedKeeps
<1> QED
  BY <1>2, Quiet DEF Kept

LEMMA UnpauseKeeps ==
  ASSUME IInv, NEW p \in Ids, NEW t \in Teams, Unpause(p, t)
  PROVE  Kept
<1> DEFINE h == Move(game, p, t)
<1>1. /\ p \in ToSet(game.order) /\ game.pl_state[p] = "PAUSED"
      /\ game' = [h EXCEPT !.NumPaused = h.NumPaused - 1]
      /\ t \in AnyTeam /\ t # PauseTeam /\ {} \ {p} = {}
  BY RulesAssumption DEF Unpause, Those, AnyTeam, RulesAssumption
<1>2. SoundBut(h, {} \ {p}) /\ Placed(game, h, p, t)
  BY <1>1, GameOfIInv, MoveKeeps
<1> HIDE DEF h
<1>3. Sound(h) /\ IsGame(h) /\ h.NumPaused - 1 \in Int
  BY <1>1, <1>2 DEF Sound, SoundBut, IsGame
<1>4. /\ Sound(game') /\ game'.order = h.order /\ game'.pl_state = h.pl_state
      /\ game'.NumPaused = h.NumPaused - 1
  BY <1>1, <1>3, Recounted
<1>5. Counted(game')
  <2>1. Cardinality(Paused(h)) = Cardinality(Paused(game)) + 0 - 1
    BY <1>1, <1>2, <1>3, GameOfIInv, OneMore DEF Placed
  <2>2. Paused(game') = Paused(h)
    BY <1>4 DEF Paused, Those
  <2> QED
    BY <1>2, <1>4, <2>1, <2>2, GameOfIInv DEF Counted, Placed
<1>6. NoneKilled(game) => NoneKilled(game')
  BY <1>2, <1>4, GameOfIInv DEF NoneKilled, Placed
<1> QED
  BY <1>4, <1>5, <1>6 DEF Kept

LEMMA SwapTeamKeeps ==
  ASSUME IInv, NEW p \in Ids, NEW t \in Teams, SwapTeam(p, t)
  PROVE  Kept
<1>1. /\ p \in ToSet(game.order) /\ game.pl_state[p] # "PAUSED" /\ game' = Move(game, p, t)
      /\ t \in AnyTeam /\ t # PauseTeam /\ {} \ {p} = {}
  BY RulesAssumption DEF SwapTeam, Those, Active, Playing, Out, AnyTeam, RulesAssumption
<1>2. SoundBut(game', {} \ {p}) /\ Placed(game, game', p, t)
  BY <1>1, GameOfIInv, MoveKeeps
<1>3. Sound(game') /\ IsGame(game')
  BY <1>1, <1>2 DEF Sound, SoundBut
<1>4. Counted(game')
  <2>1. Cardinality(Paused(game')) = Cardinality(Paused(game)) + 0 - 0
    BY <1>1, <1>2, <1>3, GameOfIInv, OneMore DEF Placed
  <2> QED
    BY <1>2, <2>1, GameOfIInv DEF Counted, Placed
<1>5. NoneKilled(game) => NoneKilled(game')
  BY <1>2, GameOfIInv DEF NoneKilled, Placed
<1> QED
  BY <1>3, <1>4, <1>5 DEF Kept

LEMMA TradeKeeps ==
  ASSUME IInv, NEW p \in Ids, NEW q \in Ids, Trade(p, q)
  PROVE  Kept
<1> DEFINE a  == game.team[p]
           b  == game.team[q]
           g1 == [game EXCEPT !.team[p] = b, !.team[q] = a]
           g2 == Move(g1, p, b)
           g3 == Move(g2, q, a)
<1>1. /\ p \in ToSet(game.order) /\ q \in ToSet(game.order) /\ p # q /\ a # b
      /\ game.pl_state[p] # "PAUSED" /\ game' = g3
  BY DEF Trade, Those, Active, Playing, Out
<1>2. /\ IsGame(game) /\ a \in AnyTeam /\ b \in AnyTeam
      /\ a # PauseTeam /\ (b = PauseTeam <=> game.pl_state[q] = "PAUSED")
  BY <1>1, GameOfIInv DEF IsGame, SoundBut
<1>3. /\ g1.order = game.order /\ g1.NumPaused = game.NumPaused /\ g1.pl_state = game.pl_state
      /\ g1.team = [game.team EXCEPT ![p] = b, ![q] = a] /\ IsGame(g1)
  <2> HIDE DEF a, b
  <2> QED
    BY <1>2 DEF IsGame
<1> HIDE DEF g1, a, b
<1>4. SoundBut(g1, {p, q})
  <2>1. \A r \in Ids : r \notin {p, q} => g1.team[r] = game.team[r]
    BY <1>2, <1>3 DEF IsGame
  <2> QED
    BY <1>1, <1>3, <2>1, GameOfIInv DEF SoundBut, Once
<1>5. SoundBut(g2, {p, q} \ {p}) /\ Placed(g1, g2, p, b)
  BY <1>1, <1>2, <1>3, <1>4, MoveKeeps
<1> HIDE DEF g2
<1>6. q \in ToSet(g2.order) /\ IsGame(g2) /\ g2.order = game.order
  BY <1>1, <1>3, <1>5 DEF Placed, SoundBut
<1>7. SoundBut(g3, ({p, q} \ {p}) \ {q}) /\ Placed(g2, g3, q, a)
  BY <1>2, <1>5, <1>6, MoveKeeps
<1> HIDE DEF g3
<1>8. Sound(g3) /\ IsGame(g3)
  <2>1. ({p, q} \ {p}) \ {q} = {}
    OBVIOUS
  <2> QED
    BY <1>7, <2>1 DEF Sound, SoundBut
<1>9. Counted(g3)
  <2>1. Paused(g1) = Paused(game)
    BY <1>3 DEF Paused, Those
  <2>2. Cardinality(Paused(g2)) = Cardinality(Paused(g1))
          + (IF g2.pl_state[p] = "PAUSED" THEN 1 ELSE 0)
          - (IF g1.pl_state[p] = "PAUSED" THEN 1 ELSE 0)
    BY <1>1, <1>3, <1>5, <1>6, OneMore DEF Placed
  <2>3. Cardinality(Paused(g3)) = Cardinality(Paused(g2))
          + (IF g3.pl_state[q] = "PAUSED" THEN 1 ELSE 0)
          - (IF g2.pl_state[q] = "PAUSED" THEN 1 ELSE 0)
    BY <1>6, <1>7, <1>8, OneMore DEF Placed
  <2>4. /\ g2.pl_state[p] = "PAUSED" <=> b = PauseTeam
        /\ g3.pl_state[q] # "PAUSED"
        /\ g2.pl_state[q] = g1.pl_state[q]
    BY <1>1, <1>2, <1>5, <1>7 DEF Placed
  <2>5. g3.NumPaused = game.NumPaused
    BY <1>3, <1>5, <1>7 DEF Placed
  <2> QED
    BY <1>1, <1>2, <1>3, <2>1, <2>2, <2>3, <2>4, <2>5, GameOfIInv DEF Counted
<1>10. NoneKilled(game) => NoneKilled(g3)
  BY <1>3, <1>5, <1>6, <1>7, GameOfIInv DEF NoneKilled, Placed
<1> QED
  BY <1>1, <1>8, <1>9, <1>10 DEF Kept

LEMMA SelfDestructKeyKeeps ==
  ASSUME IInv, NEW p \in Ids, SelfDestructKey(p)
  PROVE  Kept
<1> DEFINE f == [game.fuse EXCEPT ![p] = ~@]
<1>1. game' = [game EXCEPT !.fuse = f]
  BY DEF SelfDestructKey
<1> HIDE DEF f
<1>2. /\ game'.order = game.order /\ game'.team = game.team /\ game'.pl_state = game.pl_state
      /\ game'.NumPaused = game.NumPaused /\ IsGame(game')
  BY <1>1, GameOfIInv DEF IsGame
<1>3. Sound(game')
  BY <1>2, GameOfIInv DEF Sound, SoundBut, Once
<1>4. Counted(game') /\ (NoneKilled(game) => NoneKilled(game'))
  BY <1>2, GameOfIInv DEF Counted, Paused, Those, NoneKilled
<1> QED
  BY <1>3, <1>4 DEF Kept

\* The player at p has changed states, but neither come, left nor paused.
Treated(g, h, p) ==
  /\ IsGame(h) /\ h.order = g.order /\ h.team = g.team /\ h.NumPaused = g.NumPaused
  /\ \A q \in Ids : q # p => h.pl_state[q] = g.pl_state[q]
  /\ h.pl_state[p] \notin {"PAUSED", "UNDEFINED"}

LEMMA StateSet ==
  ASSUME NEW g, Sound(g), NEW p \in ToSet(g.order), NEW s \in Active
  PROVE  LET h == [g EXCEPT !.pl_state[p] = s] IN Treated(g, h, p) /\ h.pl_state[p] = s
<1> DEFINE h == [g EXCEPT !.pl_state[p] = s]
<1>1. IsGame(g) /\ p \in Ids /\ s \in PlStates /\ s \notin {"PAUSED", "UNDEFINED"}
  BY Members DEF Sound, SoundBut, PlStates, Active, Playing, Out
<1>2. /\ h.order = g.order /\ h.team = g.team /\ h.NumPaused = g.NumPaused
      /\ h.pl_state = [g.pl_state EXCEPT ![p] = s] /\ IsGame(h)
  BY <1>1 DEF IsGame
<1> HIDE DEF h
<1>3. /\ h.pl_state[p] = s
      /\ \A q \in Ids : q # p => h.pl_state[q] = g.pl_state[q]
  BY <1>1, <1>2 DEF IsGame
<1>4. Treated(g, h, p)
  BY <1>1, <1>2, <1>3 DEF Treated
<1> QED
  BY <1>3, <1>4 DEF h

LEMMA DestroyedTreats ==
  ASSUME NEW g, Sound(g), NEW p \in ToSet(g.order)
  PROVE  /\ Treated(g, Destroyed(g, p), p)
         /\ Destroyed(g, p).pl_state[p] \in {"DEAD", "APPEARING"}
<1>1. CASE g.life[p] = 0
  <2>1. Destroyed(g, p) = [g EXCEPT !.pl_state[p] = "DEAD"] /\ "DEAD" \in Active
    BY <1>1 DEF Destroyed, Active, Out
  <2> QED
    BY <2>1, StateSet
<1>2. CASE g.life[p] # 0
  <2> DEFINE g1 == [g EXCEPT !.pl_state[p] = "APPEARING"]
             l  == [g.life EXCEPT ![p] = @ - 1]
             h  == [g1 EXCEPT !.life = l]
  <2>1. Treated(g, g1, p) /\ g1.pl_state[p] = "APPEARING"
    BY StateSet DEF Active, Playing
  <2>2. Destroyed(g, p) = h
    BY <1>2 DEF Destroyed
  <2> HIDE DEF g1, l
  <2>3. /\ h.order = g1.order /\ h.team = g1.team /\ h.NumPaused = g1.NumPaused
        /\ h.pl_state = g1.pl_state /\ IsGame(h)
    BY <2>1 DEF Treated, IsGame
  <2> QED
    BY <2>1, <2>2, <2>3 DEF Treated
<1> QED
  BY <1>1, <1>2

LEMMA UpdatePlayerKeeps ==
  ASSUME IInv, UpdatePlayer
  PROVE  Kept
<1> DEFINE p == Nth(game)
           moved == {game, [game EXCEPT !.pl_state[p] = IF @ = "APPEARING" THEN "ALIVE" ELSE @]}
           out(m) == [m EXCEPT !.fuse[p] = FALSE]
<1>1. p \in ToSet(game.order) /\ game' \in Updated(game, p) /\ p \in Ids
  BY GameOfIInv DEF UpdatePlayer, IInv, Nth
<1> HIDE DEF p
<1>2. CASE game.pl_state[p] = "PAUSED"
  BY <1>1, <1>2, GameOfIInv DEF Updated, Kept
<1>3. CASE game.pl_state[p] # "PAUSED"
  <2>1. game.pl_state[p] \in Active
    BY <1>1, <1>3, GameOfIInv DEF IsGame, PlStates
  <2>2. ASSUME NEW m \in moved
        PROVE  /\ Treated(game, m, p) /\ Sound(m) /\ Counted(m)
               /\ NoneKilled(game) => m.pl_state[p] # "KILLED"
    <3> DEFINE s == IF game.pl_state[p] = "APPEARING" THEN "ALIVE" ELSE game.pl_state[p]
    <3>1. CASE m = game
      BY <1>1, <1>3, <3>1, GameOfIInv DEF Treated, NoneKilled
    <3>2. CASE m = [game EXCEPT !.pl_state[p] = s]
      <4>1. s \in Active /\ (NoneKilled(game) => s # "KILLED")
        BY <1>1, <2>1 DEF Active, Playing, NoneKilled
      <4> HIDE DEF s
      <4>2. Treated(game, m, p) /\ m.pl_state[p] = s
        BY <1>1, <3>2, <4>1, GameOfIInv, StateSet
      <4>3. Sound(m) /\ Counted(m)
        BY <1>1, <1>3, <4>2, GameOfIInv, StateKeeps DEF Treated
      <4> QED
        BY <4>1, <4>2, <4>3
    <3> QED
      BY <3>1, <3>2
  <2>3. ASSUME NEW m \in moved
        PROVE  LET h == Destroyed(out(m), p) IN
               Treated(game, h, p) /\ h.pl_state[p] # "KILLED"
    <3> DEFINE f  == [m.fuse EXCEPT ![p] = FALSE]
               g1 == [m EXCEPT !.fuse = f]
               h  == Destroyed(g1, p)
    <3>1. out(m) = g1
      OBVIOUS
    <3> HIDE DEF f
    <3>2. /\ Treated(game, m, p) /\ Sound(m) /\ Counted(m) /\ IsGame(m)
      BY <2>2 DEF Treated
    <3>3. /\ g1.order = m.order /\ g1.team = m.team /\ g1.pl_state = m.pl_state
          /\ g1.NumPaused = m.NumPaused /\ IsGame(g1)
      BY <3>2 DEF IsGame
    <3> HIDE DEF g1
    <3>4. Sound(g1) /\ p \in ToSet(g1.order)
      BY <1>1, <3>2, <3>3 DEF Sound, SoundBut, Once, Treated
    <3>5. Treated(g1, h, p) /\ h.pl_state[p] \in {"DEAD", "APPEARING"}
      BY <3>4, DestroyedTreats
    <3> HIDE DEF h
    <3>6. Treated(game, h, p) /\ h.pl_state[p] # "KILLED"
      BY <3>2, <3>3, <3>5 DEF Treated
    <3> QED
      BY <3>1, <3>6 DEF h
  <2>4. Updated(game, p) \subseteq moved \cup {Destroyed(out(m), p) : m \in moved}
    BY <1>3 DEF Updated
  <2>5. Treated(game, game', p) /\ (NoneKilled(game) => game'.pl_state[p] # "KILLED")
    <3> HIDE DEF moved, out
    <3> QED
      BY <1>1, <2>2, <2>3, <2>4
  <2>6. Sound(game') /\ Counted(game') /\ Descended(game, game', {p})
    BY <1>1, <1>3, <2>5, GameOfIInv, StateKeeps DEF Treated
  <2> QED
    BY <2>5, <2>6, Quiet DEF Kept
<1> QED
  BY <1>2, <1>3

LEMMA HitKeeps ==
  ASSUME IInv, NEW p \in Ids, NEW byOthers \in BOOLEAN, Hit(p, byOthers)
  PROVE  Sound(game') /\ Counted(game')
<1> DEFINE g1 == [game EXCEPT !.pl_state[p] = "KILLED"]
           s  == [game.slain EXCEPT ![p] = @ \/ byOthers]
           h  == [g1 EXCEPT !.slain = s]
<1>1. p \in ToSet(game.order) /\ game.pl_state[p] = "ALIVE" /\ game' = h
  BY DEF Hit, Those
<1>2. Treated(game, g1, p)
  BY <1>1, GameOfIInv, StateSet DEF Active
<1> HIDE DEF g1, s
<1>3. Treated(game, h, p)
  <2>1. /\ h.order = g1.order /\ h.team = g1.team /\ h.NumPaused = g1.NumPaused
        /\ h.pl_state = g1.pl_state /\ IsGame(h)
    BY <1>2 DEF Treated, IsGame
  <2> QED
    BY <1>2, <2>1 DEF Treated
<1> QED
  BY <1>1, <1>3, GameOfIInv, StateKeeps DEF Treated

LEMMA AfterKillKeeps ==
  ASSUME IInv, AfterKill
  PROVE  Sound(game') /\ Counted(game') /\ i' \in Nat /\ KilledUpTo(game', i')
<1> DEFINE p == Nth(game)
           g1 == Destroyed(game, p)
<1>1. pc = "killed" /\ i \in Nat /\ i > 0 /\ i' = i - 1 /\ KilledUpTo(game, i)
  BY DEF AfterKill, IInv
<1>2. CASE ~(i <= Len(game.order) /\ p \in Those(game, {"KILLED"}))
  <2>1. game' = game
    BY <1>2 DEF AfterKill
  <2>2. ASSUME NEW k \in 1..Len(game.order), game.pl_state[game.order[k]] = "KILLED"
        PROVE  k <= i - 1
    <3>1. k <= i
      BY <1>1, <2>2, GameOfIInv DEF KilledUpTo
    <3>2. k # i
      BY <1>2, <2>2, GameOfIInv DEF Those, Nth
    <3> QED
      BY <1>1, <3>1, <3>2
  <2> QED
    BY <1>1, <2>1, <2>2, GameOfIInv DEF KilledUpTo
<1>3. CASE i <= Len(game.order) /\ p \in Those(game, {"KILLED"})
  <2>1. /\ p \in ToSet(game.order) /\ game.pl_state[p] = "KILLED" /\ i \in 1..Len(game.order)
        /\ p = game.order[i]
    BY <1>1, <1>3 DEF Those, Nth
  <2>2. game' = g1 \/ game' = PauseForced(g1, p)
    BY <1>3 DEF AfterKill
  <2>3. Treated(game, g1, p) /\ g1.pl_state[p] \in {"DEAD", "APPEARING"}
    BY <2>1, GameOfIInv, DestroyedTreats
  <2> HIDE DEF g1, p
  <2>4. Sound(g1) /\ Counted(g1) /\ Descended(game, g1, {p}) /\ p \in ToSet(g1.order) /\ IsGame(g1)
    BY <2>1, <2>3, GameOfIInv, StateKeeps DEF Treated
  <2>5. /\ Sound(game') /\ Counted(game') /\ Descended(game, game', {p})
        /\ game'.pl_state[p] # "KILLED"
    <3>1. CASE game' = g1
      BY <2>3, <2>4, <3>1
    <3>2. CASE game' = PauseForced(g1, p)
      <4>1. /\ Sound(game') /\ Counted(game') /\ Descended(g1, game', {p})
            /\ game'.pl_state[p] = "PAUSED"
        BY <2>3, <2>4, <3>2, PauseForcedKeeps
      <4>2. {p} \cup {p} = {p} /\ IsGame(game')
        BY <4>1 DEF Sound, SoundBut
      <4>3. Descended(game, game', {p})
        BY <2>4, <4>1, <4>2, GameOfIInv, DescendedAgain
      <4> QED
        BY <4>1, <4>3
    <3> QED
      BY <2>2, <3>1, <3>2
  <2>6. IsGame(game') /\ DOMAIN game'.order \subseteq Int
        /\ \A j \in DOMAIN game'.order : game'.order[j] \in ToSet(game'.order)
    BY <2>5, Members DEF Sound, SoundBut
  <2>7. ASSUME NEW j \in DOMAIN game'.order, game'.pl_state[game'.order[j]] = "KILLED"
        PROVE  j <= i - 1
    <3>1. PICK k \in DOMAIN game.order : j <= k /\ game'.order[j] = game.order[k]
      BY <2>5 DEF Descended
    <3>2. game.order[k] # p
      BY <2>5, <2>7, <3>1
    <3>3. game.pl_state[game.order[k]] = "KILLED"
      BY <2>5, <2>6, <2>7, <3>1, <3>2 DEF Descended
    <3>4. k <= i /\ k # i
      BY <1>1, <2>1, <3>2, <3>3 DEF KilledUpTo
    <3> QED
      BY <1>1, <2>6, <3>1, <3>4, GameOfIInv
  <2> QED
    BY <1>1, <2>5, <2>7 DEF KilledUpTo
<1> QED
  BY <1>2, <1>3

LEMMA ResetPlayerKeeps ==
  ASSUME IInv, ResetPlayer
  PROVE  Kept
<1> DEFINE p == Nth(game)
<1>1. p \in ToSet(game.order)
  BY GameOfIInv DEF ResetPlayer, IInv, Nth
<1> HIDE DEF p
<1>2. CASE p \in Those(game, Playing) /\ game' = PauseForced(game, p)
  <2>1. game.pl_state[p] # "PAUSED"
    BY <1>2 DEF Those, Playing
  <2>2. Sound(game') /\ Counted(game') /\ Descended(game, game', {p}) /\ game'.pl_state[p] = "PAUSED"
    BY <1>1, <1>2, <2>1, GameOfIInv, PauseForcedKeeps
  <2> QED
    BY <2>2, Quiet DEF Kept
<1>3. CASE p \in Those(game, Playing \cup Out) /\ game' = Renewed(game, p)
  <2> DEFINE g1 == [game EXCEPT !.pl_state[p] = "APPEARING"]
             l  == [game.life EXCEPT ![p] = Lives]
             s  == [game.slain EXCEPT ![p] = FALSE]
             h  == [g1 EXCEPT !.life = l, !.slain = s]
  <2>1. Treated(game, g1, p) /\ g1.pl_state[p] = "APPEARING"
    <3>1. "APPEARING" \in Active
      BY DEF Active, Playing
    <3> QED
      BY <1>1, <3>1, GameOfIInv, StateSet
  <2>2. game' = h
    BY <1>3 DEF Renewed
  <2> HIDE DEF g1, l, s
  <2>3. /\ h.order = g1.order /\ h.team = g1.team /\ h.NumPaused = g1.NumPaused
        /\ h.pl_state = g1.pl_state /\ IsGame(h)
    BY <2>1 DEF Treated, IsGame
  <2>4. Treated(game, game', p) /\ game'.pl_state[p] = "APPEARING" /\ game.pl_state[p] # "PAUSED"
    BY <1>3, <2>1, <2>2, <2>3 DEF Treated, Those, Playing, Out
  <2>5. Sound(game') /\ Counted(game') /\ Descended(game, game', {p})
    BY <1>1, <2>4, GameOfIInv, StateKeeps DEF Treated
  <2> QED
    BY <2>4, <2>5, Quiet DEF Kept
<1>4. CASE UNCHANGED game
  BY <1>4, GameOfIInv DEF Kept
<1> QED
  BY <1>2, <1>3, <1>4 DEF ResetPlayer, p
-----------------------------------------------------------------------------
(* The theorems.                                                           *)

LEMMA InitHolds == Init => IInv
<1> SUFFICES ASSUME Init PROVE IInv
  OBVIOUS
<1>1. /\ game.order = <<>> /\ game.NumPaused = 0 /\ IsGame(game)
      /\ \A p \in Ids : game.pl_state[p] = "UNDEFINED"
  BY DEF Init, IsGame, AnyTeam, PlStates
<1>2. ToSet(game.order) = {} /\ DOMAIN game.order = {}
  BY <1>1 DEF ToSet
<1>3. Sound(game)
  BY <1>1, <1>2 DEF Sound, SoundBut, Once
<1>4. Counted(game)
  <2>1. Paused(game) = {}
    BY <1>2 DEF Paused, Those
  <2> QED
    BY <1>1, <2>1, FS_EmptySet DEF Counted
<1> QED
  BY <1>2, <1>3, <1>4 DEF Init, IInv, NoneKilled

LEMMA InputKeeps ==
  ASSUME IInv, Input
  PROVE  IInv'
<1>1. CASE Kept /\ pc = "input" /\ UNCHANGED <<pc, i>>
  BY <1>1 DEF Kept, IInv
<1>2. ASSUME NEW p \in Ids, NEW t \in Teams, Join(p, t) \/ Unpause(p, t) \/ SwapTeam(p, t)
      PROVE  IInv'
  <2>1. Kept
    BY <1>2, JoinKeeps, UnpauseKeeps, SwapTeamKeeps
  <2> QED
    BY <1>1, <1>2, <2>1 DEF Join, Unpause, SwapTeam, Stay
<1>3. ASSUME NEW p \in Ids,
             Leave(p) \/ PauseSelf(p) \/ PauseCommand(p) \/ SelfDestructKey(p)
      PROVE  IInv'
  <2>1. Kept
    BY <1>3, LeaveKeeps, PauseKeeps, SelfDestructKeyKeeps
  <2> QED
    BY <1>1, <1>3, <2>1 DEF Leave, PauseSelf, PauseCommand, SelfDestructKey, Stay
<1>4. ASSUME NEW p \in Ids, NEW q \in Ids, Trade(p, q) PROVE IInv'
  <2>1. Kept
    BY <1>4, TradeKeeps
  <2> QED
    BY <1>1, <1>4, <2>1 DEF Trade, Stay
<1>5. CASE CommandReset
  BY <1>5 DEF CommandReset, IInv
<1> QED
  BY <1>2, <1>3, <1>4, <1>5 DEF Input

LEMMA ChanceKeeps ==
  ASSUME IInv, Chance
  PROVE  IInv'
<1>1. ASSUME NEW t \in TreasureTeams, BallComesHome(t) \/ BallIsTaken(t) PROVE IInv'
  BY <1>1 DEF BallComesHome, BallIsTaken, Stay, IInv
<1>2. ASSUME NEW t \in TreasureTeams, NEW winner \in TreasureTeams, BallIsCashed(t, winner)
      PROVE  IInv'
  BY <1>2 DEF BallIsCashed, Stay, IInv
<1>3. ASSUME NEW p \in Ids, NEW byOthers \in BOOLEAN, Hit(p, byOthers) PROVE IInv'
  BY <1>3, HitKeeps DEF Hit, Stay, IInv
<1> QED
  BY <1>1, <1>2, <1>3 DEF Chance

LEMMA FrameKeeps ==
  ASSUME IInv, Frame
  PROVE  IInv'
<1>1. CASE BeginFrame
  BY <1>1 DEF BeginFrame, IInv
<1>2. CASE UpdatePlayer
  BY <1>2, UpdatePlayerKeeps DEF UpdatePlayer, IInv, Kept
<1>3. CASE UpdateEnds
  BY <1>3 DEF UpdateEnds, IInv
<1>4. CASE CollideEnds
  <2>1. i' \in Nat /\ KilledUpTo(game, i')
    BY <1>4, GameOfIInv DEF CollideEnds, LastIndex, KilledUpTo
  <2> QED
    BY <1>4, <2>1 DEF CollideEnds, IInv, KilledUpTo
<1>5. CASE AfterKill
  BY <1>5, AfterKillKeeps DEF AfterKill, IInv
<1>6. CASE AfterKillEnds
  <2>1. NoneKilled(game)
    BY <1>6, GameOfIInv DEF AfterKillEnds, IInv, KilledUpTo, NoneKilled, ToSet
  <2> QED
    BY <1>6, <2>1 DEF AfterKillEnds, IInv, NoneKilled
<1>7. CASE Status
  BY <1>7 DEF Status, IInv
<1>8. CASE ResetPlayer
  <2>1. Kept /\ UNCHANGED pc /\ pc \in {"reset", "command_reset"} /\ i' = i + 1
    BY <1>8, ResetPlayerKeeps DEF ResetPlayer
  <2> QED
    BY <2>1 DEF IInv, Kept
<1>9. CASE ResetEnds
  BY <1>9 DEF ResetEnds, IInv
<1> QED
  BY <1>1, <1>2, <1>3, <1>4, <1>5, <1>6, <1>7, <1>8, <1>9 DEF Frame

\* The invariant of the rounds holds: the game is sound in the middle of every
\* loop of Main_loop, and whoever has been killed is still ahead of the loop
\* over those who have.
THEOREM InvariantHolds == Spec => []IInv
<1>1. Init => IInv
  BY InitHolds
<1>2. IInv /\ [Next]_vars => IInv'
  <2> SUFFICES ASSUME IInv, [Next]_vars PROVE IInv'
    OBVIOUS
  <2>1. CASE Next
    BY <2>1, InputKeeps, ChanceKeeps, FrameKeeps DEF Next
  <2>2. CASE UNCHANGED vars
    BY <2>2 DEF vars, IInv
  <2> QED
    BY <2>1, <2>2
<1> QED
  BY <1>1, <1>2, PTL DEF Spec

\* Players[] names each player once and nobody else, for any number of players,
\* whoever is removed by whichever loop over it (player.c:570).
THEOREM ArrayStaysTheRoster == Spec => []ArrayIsRoster
<1>1. IInv => ArrayIsRoster
  BY DEF IInv, Sound, SoundBut, Once, ArrayIsRoster
<1> QED
  BY <1>1, InvariantHolds, PTL

\* NumPaused counts the members of the pause team (player.c:1022), with any
\* number of places for pausers.
THEOREM PausersStayCounted == Spec => []PausersCounted
<1>1. IInv => PausersCounted
  BY DEF IInv, Sound, SoundBut, Counted, Paused, PausersCounted
<1> QED
  BY <1>1, InvariantHolds, PTL

\* Nobody is left KILLED by the loop over those who have been killed
\* (server.c:391), though pausing one of them removes others from Players[].
THEOREM TheKilledAreTreated == Spec => []NobodyStaysKilled
<1>1. IInv => NobodyStaysKilled
  BY DEF IInv, NoneKilled, Those, NobodyStaysKilled
<1> QED
  BY <1>1, InvariantHolds, PTL

(* A verdict that lets the round go on finds two teams playing, or nobody  *)
(* out of it.                                                              *)
LEMMA VerdictIsRight ==
  ASSUME IInv, Status, pc' = "input"
  PROVE  Those(game, Out) = {} \/ Cardinality(AliveTeams(game)) > 1
<1> DEFINE alive == AliveTeams(game)
<1> SUFFICES ASSUME Those(game, Out) # {}, ~(Cardinality(alive) > 1) PROVE FALSE
  OBVIOUS
<1>1. ~RoundIsOver(game, treasures) /\ NoneKilled(game)
  BY DEF Status, IInv
<1>2. IsFiniteSet(alive) /\ Cardinality(alive) \in Nat
  <2> DEFINE some == Those(game, Playing)
  <2>1. IsFiniteSet(some) /\ some \subseteq Ids
    BY GameOfIInv, Members DEF Those
  <2>2. [p \in some |-> game.team[p]] \in Surjection(some, alive)
    <3>1. alive = {game.team[p] : p \in some}
      BY DEF AliveTeams, TeamsOf
    <3> HIDE DEF alive, some
    <3> QED
      BY <3>1 DEF Surjection
  <2>3. IsFiniteSet(alive)
    <3> HIDE DEF alive, some
    <3> QED
      BY <2>1, <2>2, FS_Surjection
  <2> QED
    BY <2>3, FS_CardinalityType
<1>3. DeadTeams(game) = {} /\ ~Deserted(game)
  BY <1>1, <1>2 DEF RoundIsOver
<1>4. TeamsOf(game, Those(game, Out)) \subseteq alive
  BY <1>3 DEF DeadTeams
<1>5. Cardinality(alive) = 1
  <2>1. alive # {}
    BY <1>4 DEF TeamsOf
  <2> QED
    BY <1>2, <2>1, FS_EmptySet
<1>6. OnAliveTeam(game)
  <2>1. Those(game, Active) = Those(game, Playing) \cup Those(game, Out)
    BY <1>1 DEF Those, Active, NoneKilled
  <2> QED
    BY <1>4, <2>1 DEF OnAliveTeam, TeamsOf, AliveTeams
<1> QED
  BY <1>3, <1>5, <1>6 DEF Deserted

\* A frame does not end with a player out of a round that has nobody to fight
\* it (update.c:468), for any number of teams and treasures.
THEOREM RoundsAreFought == Spec => NoRoundWithoutFight
<1>1. IInv /\ [Next]_vars
        => [pc = "status" /\ pc' = "input"
              => Those(game', Out) = {} \/ Cardinality(AliveTeams(game')) > 1]_vars
  <2> SUFFICES ASSUME IInv, [Next]_vars, pc = "status", pc' = "input"
               PROVE  Those(game', Out) = {} \/ Cardinality(AliveTeams(game')) > 1
    OBVIOUS
  <2>1. Status
    BY DEF Next, Input, Chance, Frame, Join, Leave, PauseSelf, PauseCommand, Unpause, SwapTeam,
           Trade, SelfDestructKey, CommandReset, BallComesHome, BallIsCashed, Hit, BallIsTaken,
           BeginFrame, UpdatePlayer, UpdateEnds, CollideEnds, AfterKill, AfterKillEnds,
           ResetPlayer, ResetEnds, vars
  <2>2. game' = game
    BY <2>1 DEF Status
  <2> QED
    BY <2>1, <2>2, VerdictIsRight
<1> QED
  BY <1>1, InvariantHolds, PTL DEF Spec, NoRoundWithoutFight
=============================================================================
