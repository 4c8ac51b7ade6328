---------------------------- MODULE RosterProofs ----------------------------
(***************************************************************************)
(* The counters, the home bases and the swap queue stay right for every    *)
(* number of players, teams and bases, and every way the handlers follow   *)
(* one another.                                                            *)
(*                                                                         *)
(* The roster is one record and a handler is a composition of helpers, so  *)
(* the proof goes along the helpers.  Enlisted, Discharged, Settled,       *)
(* Exchanged and Departed say field by field what a helper leaves behind.  *)
(* Sound is the invariant of a roster: none of the properties is inductive *)
(* alone.  That a player who changes teams finds a base needs that members *)
(* are counted right and that every member lives in a base of the team     *)
(* (RoomIsABase); that pausers are counted needs that they are the members *)
(* of the pause team; that a trade leaves the counts of robots alone needs *)
(* that only clients wait in the swap queue.                               *)
(***************************************************************************)
EXTENDS Roster, FiniteSetTheorems, TLAPS

\* The roster with its types, the counters being integers.
States == {"UNDEFINED", "ACTIVE", "PAUSED"}
Faults == {"none", "robot_kick", "robot_add", "login", "pause_base"}

Rosters == [players    : SUBSET Everyone,
            team       : [Everyone -> Teams \cup {NoTeam}],
            home       : [Everyone -> Bases \cup {NoBase}],
            pl_state   : [Everyone -> States],
            NumMembers : [Teams -> Int],
            TeamRobots : [Teams -> Int],
            NumPaused  : Int,
            Swapper    : [Teams -> Everyone \cup {Nobody}],
            fault      : Faults]

-----------------------------------------------------------------------------
(* What the helpers leave behind.                                          *)

Enlisted(s, r, p, t) ==
  /\ s \in Rosters
  /\ s.players = r.players /\ s.home = r.home /\ s.pl_state = r.pl_state
  /\ s.NumPaused = r.NumPaused /\ s.Swapper = r.Swapper /\ s.fault = r.fault
  /\ s.team = [r.team EXCEPT ![p] = t]
  /\ s.NumMembers = [r.NumMembers EXCEPT ![t] = r.NumMembers[t] + 1]
  /\ s.TeamRobots = [r.TeamRobots EXCEPT ![t] = IF p \in Robots THEN r.TeamRobots[t] + 1 ELSE r.TeamRobots[t]]

(* Player_add_to_team.                                                     *)
LEMMA EnlistFields ==
  ASSUME NEW r \in Rosters, NEW p \in Everyone, NEW t \in Teams
  PROVE  Enlisted(Enlist(r, p, t), r, p, t)
<1> DEFINE T == [r.team EXCEPT ![p] = t]
           M == [r.NumMembers EXCEPT ![t] = r.NumMembers[t] + 1]
           R == [r.TeamRobots EXCEPT ![t] = IF p \in Robots THEN r.TeamRobots[t] + 1 ELSE r.TeamRobots[t]]
<1>1. T \in [Everyone -> Teams \cup {NoTeam}] /\ M \in [Teams -> Int] /\ R \in [Teams -> Int]
  BY DEF Rosters
<1>2. Enlist(r, p, t) = [r EXCEPT !.team = T, !.NumMembers = M, !.TeamRobots = R]
  BY DEF Enlist, Rosters
<1> HIDE DEF T, M, R
<1>3. [r EXCEPT !.team = T, !.NumMembers = M, !.TeamRobots = R] \in Rosters
  BY <1>1 DEF Rosters
<1> DEFINE s == [r EXCEPT !.team = T, !.NumMembers = M, !.TeamRobots = R]
<1>4. s.players = r.players /\ s.home = r.home /\ s.pl_state = r.pl_state
  BY DEF Rosters
<1>5. s.NumPaused = r.NumPaused /\ s.Swapper = r.Swapper /\ s.fault = r.fault
  BY DEF Rosters
<1>6. s.team = T /\ s.NumMembers = M /\ s.TeamRobots = R
  BY DEF Rosters
<1> HIDE DEF s
<1>7. s = Enlist(r, p, t) /\ s \in Rosters
  BY <1>2, <1>3 DEF s
<1> QED
  BY <1>4, <1>5, <1>6, <1>7 DEF Enlisted, T, M, R

Discharged(s, r, p, t) ==
  /\ s \in Rosters
  /\ s.players = r.players /\ s.home = r.home /\ s.pl_state = r.pl_state
  /\ s.NumPaused = r.NumPaused /\ s.Swapper = r.Swapper /\ s.fault = r.fault
  /\ s.team = [r.team EXCEPT ![p] = NoTeam]
  /\ s.NumMembers = [r.NumMembers EXCEPT ![t] = r.NumMembers[t] - 1]
  /\ s.TeamRobots = [r.TeamRobots EXCEPT ![t] = IF p \in Robots THEN r.TeamRobots[t] - 1 ELSE r.TeamRobots[t]]

(* Player_remove_from_team.                                                *)
LEMMA DischargeFields ==
  ASSUME NEW r \in Rosters, NEW p \in Everyone, r.team[p] \in Teams
  PROVE  Discharged(Discharge(r, p), r, p, r.team[p])
<1> DEFINE t == r.team[p]
           T == [r.team EXCEPT ![p] = NoTeam]
           M == [r.NumMembers EXCEPT ![t] = r.NumMembers[t] - 1]
           R == [r.TeamRobots EXCEPT ![t] = IF p \in Robots THEN r.TeamRobots[t] - 1 ELSE r.TeamRobots[t]]
<1>1. T \in [Everyone -> Teams \cup {NoTeam}] /\ M \in [Teams -> Int] /\ R \in [Teams -> Int]
  BY DEF Rosters
<1>2. Discharge(r, p) = [r EXCEPT !.team = T, !.NumMembers = M, !.TeamRobots = R]
  BY DEF Discharge, Rosters
<1> HIDE DEF T, M, R
<1>3. [r EXCEPT !.team = T, !.NumMembers = M, !.TeamRobots = R] \in Rosters
  BY <1>1 DEF Rosters
<1> DEFINE s == [r EXCEPT !.team = T, !.NumMembers = M, !.TeamRobots = R]
<1>4. s.players = r.players /\ s.home = r.home /\ s.pl_state = r.pl_state
  BY DEF Rosters
<1>5. s.NumPaused = r.NumPaused /\ s.Swapper = r.Swapper /\ s.fault = r.fault
  BY DEF Rosters
<1>6. s.team = T /\ s.NumMembers = M /\ s.TeamRobots = R
  BY DEF Rosters
<1> HIDE DEF s
<1>7. s = Discharge(r, p) /\ s \in Rosters
  BY <1>2, <1>3 DEF s
<1> QED
  BY <1>4, <1>5, <1>6, <1>7 DEF Discharged, T, M, R

Settled(s, r, p, t, b) ==
  /\ s \in Rosters
  /\ s.players = r.players /\ s.team = r.team /\ s.NumMembers = r.NumMembers
  /\ s.TeamRobots = r.TeamRobots
  /\ s.NumPaused = r.NumPaused /\ s.Swapper = r.Swapper /\ s.fault = r.fault
  /\ s.home = [r.home EXCEPT ![p] = b]
  /\ s.pl_state = [r.pl_state EXCEPT ![p] = EntryState(t)]

(* A player whose base is settled takes part.                              *)
LEMMA SettleFields ==
  ASSUME NEW r \in Rosters, NEW p \in Everyone, NEW t \in Teams, NEW b \in Bases \cup {NoBase}
  PROVE  Settled(Settle(r, p, t, b), r, p, t, b)
<1> DEFINE h == [r.home EXCEPT ![p] = b]
           l == [r.pl_state EXCEPT ![p] = EntryState(t)]
<1>1. h \in [Everyone -> Bases \cup {NoBase}] /\ l \in [Everyone -> States]
  BY DEF Rosters, EntryState, States
<1>2. Settle(r, p, t, b) = [r EXCEPT !.home = h, !.pl_state = l]
  BY DEF Settle, Rosters
<1> HIDE DEF h, l
<1> DEFINE s == [r EXCEPT !.home = h, !.pl_state = l]
<1>3. s \in Rosters
  BY <1>1 DEF Rosters
<1>4. s.players = r.players /\ s.team = r.team /\ s.NumMembers = r.NumMembers
  BY DEF Rosters
<1>5. s.NumPaused = r.NumPaused /\ s.Swapper = r.Swapper /\ s.fault = r.fault
  BY DEF Rosters
<1>6. s.home = h /\ s.pl_state = l /\ s.TeamRobots = r.TeamRobots
  BY DEF Rosters
<1> HIDE DEF s
<1>7. s = Settle(r, p, t, b)
  BY <1>2 DEF s
<1> QED
  BY <1>3, <1>4, <1>5, <1>6, <1>7 DEF Settled, h, l

Exchanged(s, r, p, q) ==
  /\ s \in Rosters
  /\ s.players = r.players /\ s.NumMembers = r.NumMembers /\ s.TeamRobots = r.TeamRobots
  /\ s.NumPaused = r.NumPaused /\ s.Swapper = r.Swapper /\ s.fault = r.fault
  /\ s.team = [r.team EXCEPT ![p] = r.team[q], ![q] = r.team[p]]
  /\ s.home = [r.home EXCEPT ![p] = r.home[q], ![q] = r.home[p]]
  /\ s.pl_state = [r.pl_state EXCEPT ![p] = EntryState(r.team[q]), ![q] = EntryState(r.team[p])]

(* Players_swap_teams.                                                     *)
LEMMA ExchangeFields ==
  ASSUME NEW r \in Rosters, NEW p \in Everyone, NEW q \in Everyone
  PROVE  Exchanged(Exchange(r, p, q), r, p, q)
<1> DEFINE T == [r.team EXCEPT ![p] = r.team[q], ![q] = r.team[p]]
           h == [r.home EXCEPT ![p] = r.home[q], ![q] = r.home[p]]
           l == [r.pl_state EXCEPT ![p] = EntryState(r.team[q]), ![q] = EntryState(r.team[p])]
<1>1. /\ T \in [Everyone -> Teams \cup {NoTeam}] /\ h \in [Everyone -> Bases \cup {NoBase}]
      /\ l \in [Everyone -> States]
  BY DEF Rosters, EntryState, States
<1>2. Exchange(r, p, q) = [r EXCEPT !.team = T, !.home = h, !.pl_state = l]
  BY DEF Exchange, Traded, Rosters
<1> HIDE DEF T, h, l
<1> DEFINE s == [r EXCEPT !.team = T, !.home = h, !.pl_state = l]
<1>3. s \in Rosters
  BY <1>1 DEF Rosters
<1>4. s.players = r.players /\ s.NumMembers = r.NumMembers /\ s.TeamRobots = r.TeamRobots
  BY DEF Rosters
<1>5. s.NumPaused = r.NumPaused /\ s.Swapper = r.Swapper /\ s.fault = r.fault
  BY DEF Rosters
<1>6. s.team = T /\ s.home = h /\ s.pl_state = l
  BY DEF Rosters
<1> HIDE DEF s
<1>7. s = Exchange(r, p, q)
  BY <1>2 DEF s
<1> QED
  BY <1>3, <1>4, <1>5, <1>6, <1>7 DEF Exchanged, T, h, l

Departed(s, r, gone) ==
  LET In(t) == {p \in gone : r.team[p] = t} IN
  /\ s \in Rosters
  /\ s.players = r.players \ gone /\ s.fault = r.fault
  /\ s.team = [p \in Everyone |-> IF p \in gone THEN NoTeam ELSE r.team[p]]
  /\ s.home = [p \in Everyone |-> IF p \in gone THEN NoBase ELSE r.home[p]]
  /\ s.pl_state = [p \in Everyone |-> IF p \in gone THEN "UNDEFINED" ELSE r.pl_state[p]]
  /\ s.NumMembers = [t \in Teams |-> r.NumMembers[t] - Cardinality(In(t))]
  /\ s.TeamRobots = [t \in Teams |-> r.TeamRobots[t] - Cardinality(In(t) \cap Robots)]
  /\ s.NumPaused = r.NumPaused - Cardinality({p \in gone : Paused(r, p)})
  /\ s.Swapper = Unqueue(r.Swapper, gone)

(* Player_remove for a set of players.                                     *)
LEMMA DepartFields ==
  ASSUME NEW r \in Rosters, NEW gone \in SUBSET r.players
  PROVE  Departed(Depart(r, gone), r, gone)
<1> DEFINE In(t) == {p \in gone : r.team[p] = t}
           P == r.players \ gone
           T == [p \in Everyone |-> IF p \in gone THEN NoTeam ELSE r.team[p]]
           h == [p \in Everyone |-> IF p \in gone THEN NoBase ELSE r.home[p]]
           l == [p \in Everyone |-> IF p \in gone THEN "UNDEFINED" ELSE r.pl_state[p]]
           M == [t \in Teams |-> r.NumMembers[t] - Cardinality(In(t))]
           R == [t \in Teams |-> r.TeamRobots[t] - Cardinality(In(t) \cap Robots)]
           n == r.NumPaused - Cardinality({p \in gone : Paused(r, p)})
           w == Unqueue(r.Swapper, gone)
           s == [r EXCEPT !.players = P, !.team = T, !.home = h, !.pl_state = l,
                          !.NumMembers = M, !.TeamRobots = R, !.NumPaused = n, !.Swapper = w]
<1>1. IsFiniteSet(gone)
  BY FS_Subset, PlayersAssumption DEF Rosters
<1>2. \A t : Cardinality(In(t)) \in Nat /\ Cardinality(In(t) \cap Robots) \in Nat
  <2> TAKE t
  <2>1. IsFiniteSet(In(t))
    BY <1>1, FS_Subset
  <2>2. IsFiniteSet(In(t) \cap Robots)
    BY <2>1, FS_Intersection
  <2> QED
    BY <2>1, <2>2, FS_CardinalityType
<1>3. Cardinality({p \in gone : Paused(r, p)}) \in Nat
  BY <1>1, FS_Subset, FS_CardinalityType
<1>4. /\ P \in SUBSET Everyone /\ T \in [Everyone -> Teams \cup {NoTeam}]
      /\ h \in [Everyone -> Bases \cup {NoBase}] /\ l \in [Everyone -> States]
  BY DEF Rosters, States
<1>5. M \in [Teams -> Int] /\ R \in [Teams -> Int]
  <2>1. ASSUME NEW t \in Teams
        PROVE  r.NumMembers[t] - Cardinality(In(t)) \in Int
               /\ r.TeamRobots[t] - Cardinality(In(t) \cap Robots) \in Int
    <3>1. r.NumMembers[t] \in Int /\ r.TeamRobots[t] \in Int
      BY DEF Rosters
    <3>2. Cardinality(In(t)) \in Nat /\ Cardinality(In(t) \cap Robots) \in Nat
      BY <1>2
    <3> HIDE DEF In
    <3> QED
      BY <3>1, <3>2
  <2> QED
    BY <2>1
<1>6. n \in Int
  BY <1>3 DEF Rosters
<1>7. w \in [Teams -> Everyone \cup {Nobody}]
  BY DEF Rosters, Unqueue
<1>8. s = Depart(r, gone)
  BY SMT DEF Depart, Rosters
<1> HIDE DEF P, T, h, l, M, R, n, w
<1>9. s \in Rosters
  BY <1>4, <1>5, <1>6, <1>7 DEF Rosters
<1>10. s.players = P /\ s.team = T /\ s.home = h /\ s.pl_state = l /\ s.fault = r.fault
  BY DEF Rosters
<1>11. s.NumMembers = M /\ s.TeamRobots = R /\ s.NumPaused = n /\ s.Swapper = w
  BY DEF Rosters
<1> HIDE DEF s
<1> QED
  BY <1>8, <1>9, <1>10, <1>11 DEF Departed, P, T, h, l, M, R, n, w

-----------------------------------------------------------------------------
(* What makes a roster sound.                                              *)

Members(r, t) == {p \in r.players : r.team[p] = t}

Counted(r) == \A t \in Teams : /\ r.NumMembers[t] = Cardinality(Members(r, t))
                               /\ r.TeamRobots[t] = Cardinality(Members(r, t) \cap Robots)

Placed(r) == \A p \in r.players :
               /\ r.team[p] \in Teams
               /\ r.pl_state[p] = EntryState(r.team[p])
               /\ IF r.team[p] = PauseTeam THEN r.home[p] = NoBase /\ p \in Humans
                  ELSE r.home[p] \in Bases /\ BaseTeam[r.home[p]] = r.team[p]

Exclusive(r) == \A p, q \in r.players :
                  p # q /\ r.home[p] = r.home[q] => r.home[p] = NoBase

Queued(r) == \A t \in Teams : r.Swapper[t] \in (r.players \cap Humans) \cup {Nobody}

Absent(r) == \A p \in Everyone \ r.players : r.team[p] = NoTeam /\ r.pl_state[p] = "UNDEFINED"

Seated(r) == r \in Rosters /\ Counted(r) /\ Placed(r) /\ Exclusive(r) /\ Queued(r) /\ Absent(r)

Sound(r) == Seated(r) /\ r.NumPaused = r.NumMembers[PauseTeam] /\ r.NumPaused <= MaxPaused

\* On the map no home base belongs to the team of the pausers.
PauseApart == \A b \in Bases : BaseTeam[b] # PauseTeam

(* Rosters are finite, and so are teams.                                   *)
LEMMA MembersFinite ==
  ASSUME NEW r \in Rosters, NEW t
  PROVE  /\ IsFiniteSet(Members(r, t)) /\ IsFiniteSet(Members(r, t) \cap Robots)
         /\ Members(r, t) \subseteq Everyone /\ IsFiniteSet(r.players)
         /\ Cardinality(Members(r, t)) \in Nat /\ Cardinality(Members(r, t) \cap Robots) \in Nat
<1>1. r.players \in SUBSET Everyone
  BY DEF Rosters
<1>2. IsFiniteSet(r.players)
  BY <1>1, FS_Subset, PlayersAssumption
<1>3. IsFiniteSet(Members(r, t)) /\ Members(r, t) \subseteq r.players
  BY <1>2, FS_Subset DEF Members
<1>4. IsFiniteSet(Members(r, t) \cap Robots)
  BY <1>3, FS_Intersection
<1> QED
  BY <1>1, <1>2, <1>3, <1>4, FS_CardinalityType

(* A team that has room has a base nobody calls home.                      *)
LEMMA RoomIsABase ==
  ASSUME NEW r, Seated(r), NEW t \in Teams \ {PauseTeam}, HasRoom(r, t)
  PROVE  FreeBases(r, t) # {}
<1> SUFFICES ASSUME FreeBases(r, t) = {} PROVE FALSE
  OBVIOUS
<1> DEFINE M == Members(r, t)
           f == [p \in M |-> r.home[p]]
           B == BasesOf(t)
<1>1. IsFiniteSet(M) /\ Cardinality(M) = r.NumMembers[t] /\ Cardinality(M) \in Nat
  BY MembersFinite DEF Seated, Counted
<1>2. IsFiniteSet(B) /\ Cardinality(B) \in Nat
  BY FS_Subset, FS_CardinalityType, BasesAssumption DEF BasesOf
<1>3. f \in [M -> B]
  BY DEF Seated, Placed, Members, BasesOf
<1>4. ASSUME NEW b \in B PROVE \E p \in M : f[p] = b
  <2>1. PICK p \in r.players : r.home[p] = b
    BY DEF FreeBases
  <2>2. r.team[p] = t
    BY <2>1, BasesAssumption DEF Seated, Placed, BasesOf
  <2> QED
    BY <2>1, <2>2 DEF Members
<1> HIDE DEF M, f, B
<1>5. f \in Surjection(M, B)
  BY <1>3, <1>4 DEF Surjection
<1>6. Cardinality(B) <= Cardinality(M)
  BY <1>1, <1>5, FS_Surjection
<1>7. Cardinality(M) < Cardinality(B)
  BY <1>1 DEF HasRoom, NumBases, M, B
<1> QED
  BY <1>1, <1>2, <1>6, <1>7

(* A newcomer counts as a member of the team.                              *)
LEMMA EnlistCounts ==
  ASSUME NEW r, Seated(r), NEW p \in Everyone \ r.players, NEW t \in Teams, NEW s,
         s.players = r.players \cup {p}, s.team = [r.team EXCEPT ![p] = t],
         s.NumMembers = [r.NumMembers EXCEPT ![t] = r.NumMembers[t] + 1],
         s.TeamRobots = [r.TeamRobots EXCEPT ![t] = IF p \in Robots THEN r.TeamRobots[t] + 1 ELSE r.TeamRobots[t]]
  PROVE  Counted(s)
<1>1. /\ r \in Rosters /\ r.players \subseteq Everyone /\ r.team \in [Everyone -> Teams \cup {NoTeam}]
      /\ r.NumMembers \in [Teams -> Int] /\ r.TeamRobots \in [Teams -> Int]
  BY DEF Seated, Rosters
<1> SUFFICES ASSUME NEW u \in Teams
             PROVE  /\ s.NumMembers[u] = Cardinality(Members(s, u))
                    /\ s.TeamRobots[u] = Cardinality(Members(s, u) \cap Robots)
  BY DEF Counted
<1>2. /\ r.NumMembers[u] = Cardinality(Members(r, u))
      /\ r.TeamRobots[u] = Cardinality(Members(r, u) \cap Robots)
  BY DEF Seated, Counted
<1>3. CASE u # t
  <2>1. Members(s, u) = Members(r, u)
    BY <1>1, <1>3, TeamsAssumption DEF Members, Seated, Absent
  <2> QED
    BY <1>1, <1>2, <1>3, <2>1
<1>4. CASE u = t
  <2>1. Members(s, t) = Members(r, t) \cup {p} /\ p \notin Members(r, t)
    BY <1>1 DEF Members
  <2>2. Cardinality(Members(s, t)) = Cardinality(Members(r, t)) + 1
    BY <1>1, <2>1, MembersFinite, FS_AddElement
  <2>3. Cardinality(Members(s, t) \cap Robots)
           = IF p \in Robots THEN Cardinality(Members(r, t) \cap Robots) + 1
             ELSE Cardinality(Members(r, t) \cap Robots)
    <3>1. p \in Robots => Members(s, t) \cap Robots = (Members(r, t) \cap Robots) \cup {p}
      BY <2>1
    <3>2. p \notin Robots => Members(s, t) \cap Robots = Members(r, t) \cap Robots
      BY <2>1
    <3> QED
      BY <1>1, <2>1, <3>1, <3>2, MembersFinite, FS_AddElement
  <2> QED
    BY <1>1, <1>2, <1>4, <2>2, <2>3
<1> QED
  BY <1>3, <1>4

(* A newcomer takes a free base of a team.                                 *)
Joined(r, p, t, b) == Settle(Enlist([r EXCEPT !.players = @ \cup {p}], p, t), p, t, b)

LEMMA JoinKeeps ==
  ASSUME NEW r, Seated(r), NEW p \in Everyone \ r.players,
         NEW t \in Teams \ {PauseTeam}, NEW b \in FreeBases(r, t)
  PROVE  LET s == Joined(r, p, t, b) IN
         /\ Seated(s) /\ s.players = r.players \cup {p} /\ s.fault = r.fault
         /\ s.NumPaused = r.NumPaused /\ s.NumMembers[PauseTeam] = r.NumMembers[PauseTeam]
<1> DEFINE q == [r EXCEPT !.players = @ \cup {p}]
           s == Joined(r, p, t, b)
<1>1. r \in Rosters /\ b \in Bases /\ BaseTeam[b] = t /\ \A z \in r.players : r.home[z] # b
  BY DEF Seated, FreeBases, BasesOf
<1>2. /\ q \in Rosters /\ q.players = r.players \cup {p} /\ q.team = r.team /\ q.home = r.home
      /\ q.pl_state = r.pl_state /\ q.NumMembers = r.NumMembers /\ q.TeamRobots = r.TeamRobots
      /\ q.NumPaused = r.NumPaused /\ q.Swapper = r.Swapper /\ q.fault = r.fault
  BY <1>1 DEF Rosters
<1> HIDE DEF q
<1>3. /\ s \in Rosters /\ s.players = r.players \cup {p} /\ s.fault = r.fault
      /\ s.NumPaused = r.NumPaused /\ s.Swapper = r.Swapper
      /\ s.team = [r.team EXCEPT ![p] = t] /\ s.home = [r.home EXCEPT ![p] = b]
      /\ s.pl_state = [r.pl_state EXCEPT ![p] = EntryState(t)]
      /\ s.NumMembers = [r.NumMembers EXCEPT ![t] = r.NumMembers[t] + 1]
      /\ s.TeamRobots = [r.TeamRobots EXCEPT ![t] = IF p \in Robots THEN r.TeamRobots[t] + 1 ELSE r.TeamRobots[t]]
  <2> DEFINE e == Enlist(q, p, t)
  <2>1. s = Settle(e, p, t, b)
    BY DEF Joined, q
  <2>2. Enlisted(e, q, p, t)
    BY <1>2, EnlistFields
  <2> HIDE DEF e, s
  <2>3. Settled(s, e, p, t, b)
    BY <1>1, <2>1, <2>2, SettleFields DEF Enlisted
  <2> QED
    BY <1>2, <2>2, <2>3 DEF Enlisted, Settled
<1> HIDE DEF s
<1>4. /\ r.players \subseteq Everyone /\ r.team \in [Everyone -> Teams \cup {NoTeam}]
      /\ r.home \in [Everyone -> Bases \cup {NoBase}] /\ r.pl_state \in [Everyone -> States]
      /\ r.NumMembers \in [Teams -> Int] /\ r.TeamRobots \in [Teams -> Int]
  BY <1>1 DEF Rosters
<1>5. Counted(s)
  BY <1>3, EnlistCounts
<1>6. Placed(s)
  BY <1>1, <1>3, <1>4 DEF Seated, Placed
<1>7. Exclusive(s)
  BY <1>1, <1>3, <1>4 DEF Seated, Exclusive
<1>8. Queued(s)
  BY <1>3 DEF Seated, Queued
<1>9. Absent(s)
  BY <1>3, <1>4 DEF Seated, Absent
<1> QED
  BY <1>3, <1>4, <1>5, <1>6, <1>7, <1>8, <1>9 DEF Seated, s

(* A player moves to another team, to a free base there or to none.        *)
LEMMA MoveKeeps ==
  ASSUME NEW r, Seated(r), NEW p \in r.players, NEW t \in Teams, t # r.team[p],
         NEW b, IF t = PauseTeam THEN b = NoBase /\ p \in Humans ELSE b \in FreeBases(r, t)
  PROVE  LET s == Move(r, p, t, b)
             u == r.team[p]
         IN
         /\ Seated(s) /\ s.players = r.players /\ s.fault = r.fault
         /\ s.NumPaused = r.NumPaused
         /\ s.NumMembers[t] = r.NumMembers[t] + 1 /\ s.NumMembers[u] = r.NumMembers[u] - 1
         /\ \A v \in Teams \ {t, u} : s.NumMembers[v] = r.NumMembers[v]
<1> DEFINE d == Discharge(r, p)
           e == Enlist(d, p, t)
           s == Move(r, p, t, b)
           u == r.team[p]
<1>1. /\ r \in Rosters /\ p \in Everyone /\ u \in Teams /\ b \in Bases \cup {NoBase}
      /\ b # NoBase => BaseTeam[b] = t /\ \A z \in r.players : r.home[z] # b
  BY DEF Seated, FreeBases, BasesOf, Placed, Rosters
<1>2. Discharged(d, r, p, u)
  BY <1>1, DischargeFields
<1> HIDE DEF d
<1>3. Enlisted(e, d, p, t)
  BY <1>1, <1>2, EnlistFields DEF Discharged
<1>4. Settled(s, e, p, t, b)
  <2>1. s = Settle(e, p, t, b)
    BY DEF Move, e, d
  <2> HIDE DEF e, s
  <2> QED
    BY <1>1, <1>3, <2>1, SettleFields DEF Enlisted
<1> HIDE DEF e, s
<1>5. /\ r.players \subseteq Everyone /\ r.team \in [Everyone -> Teams \cup {NoTeam}]
      /\ r.home \in [Everyone -> Bases \cup {NoBase}] /\ r.pl_state \in [Everyone -> States]
      /\ r.NumMembers \in [Teams -> Int] /\ r.TeamRobots \in [Teams -> Int]
  BY <1>1 DEF Rosters
<1>6. /\ s \in Rosters /\ s.players = r.players /\ s.fault = r.fault
      /\ s.NumPaused = r.NumPaused /\ s.Swapper = r.Swapper
  BY <1>2, <1>3, <1>4 DEF Discharged, Enlisted, Settled
<1>7. /\ s.team = [r.team EXCEPT ![p] = t] /\ s.home = [r.home EXCEPT ![p] = b]
      /\ s.pl_state = [r.pl_state EXCEPT ![p] = EntryState(t)]
  BY <1>2, <1>3, <1>4, <1>5 DEF Discharged, Enlisted, Settled
<1>8. /\ s.NumMembers = [r.NumMembers EXCEPT ![u] = r.NumMembers[u] - 1, ![t] = r.NumMembers[t] + 1]
      /\ s.TeamRobots = IF p \in Robots
                        THEN [r.TeamRobots EXCEPT ![u] = r.TeamRobots[u] - 1, ![t] = r.TeamRobots[t] + 1]
                        ELSE r.TeamRobots
  BY <1>1, <1>2, <1>3, <1>4, <1>5 DEF Discharged, Enlisted, Settled
<1> HIDE DEF u
<1>9. Counted(s)
  <2> SUFFICES ASSUME NEW v \in Teams
               PROVE  /\ s.NumMembers[v] = Cardinality(Members(s, v))
                      /\ s.TeamRobots[v] = Cardinality(Members(s, v) \cap Robots)
    BY DEF Counted
  <2>0. /\ r.NumMembers[v] = Cardinality(Members(r, v))
        /\ r.TeamRobots[v] = Cardinality(Members(r, v) \cap Robots)
    BY DEF Seated, Counted
  <2>1. CASE v # t /\ v # u
    <3>1. Members(s, v) = Members(r, v)
      BY <1>5, <1>6, <1>7, <2>1 DEF Members, u
    <3> QED
      BY <1>5, <1>8, <2>0, <2>1, <3>1
  <2>2. CASE v = t
    <3>1. Members(s, t) = Members(r, t) \cup {p} /\ p \notin Members(r, t)
      BY <1>1, <1>5, <1>6, <1>7 DEF Members, u
    <3>2. Cardinality(Members(s, t)) = Cardinality(Members(r, t)) + 1
      BY <1>1, <3>1, MembersFinite, FS_AddElement
    <3>3. Cardinality(Members(s, t) \cap Robots)
             = IF p \in Robots THEN Cardinality(Members(r, t) \cap Robots) + 1
               ELSE Cardinality(Members(r, t) \cap Robots)
      <4>1. p \in Robots => Members(s, t) \cap Robots = (Members(r, t) \cap Robots) \cup {p}
        BY <3>1
      <4>2. p \notin Robots => Members(s, t) \cap Robots = Members(r, t) \cap Robots
        BY <3>1
      <4> QED
        BY <1>1, <3>1, <4>1, <4>2, MembersFinite, FS_AddElement
    <3> QED
      BY <1>5, <1>8, <2>0, <2>2, <3>2, <3>3
  <2>3. CASE v = u
    <3>1. Members(s, u) = Members(r, u) \ {p} /\ p \in Members(r, u)
      BY <1>1, <1>5, <1>6, <1>7 DEF Members, u
    <3>2. Cardinality(Members(s, u)) = Cardinality(Members(r, u)) - 1
      <4>1. IsFiniteSet(Members(r, u))
        BY <1>1, MembersFinite
      <4>2. Cardinality(Members(r, u) \ {p}) = Cardinality(Members(r, u)) - 1
        BY <3>1, <4>1, FS_RemoveElement
      <4> QED
        BY <3>1, <4>2
    <3>3. Cardinality(Members(s, u) \cap Robots)
             = IF p \in Robots THEN Cardinality(Members(r, u) \cap Robots) - 1
               ELSE Cardinality(Members(r, u) \cap Robots)
      <4>1. p \in Robots => Members(s, u) \cap Robots = (Members(r, u) \cap Robots) \ {p}
        BY <3>1
      <4>2. p \notin Robots => Members(s, u) \cap Robots = Members(r, u) \cap Robots
        BY <3>1
      <4> QED
        BY <1>1, <3>1, <4>1, <4>2, MembersFinite, FS_RemoveElement
    <3> QED
      BY <1>5, <1>8, <2>0, <2>3, <3>2, <3>3 DEF u
  <2> QED
    BY <2>1, <2>2, <2>3
<1>10. Placed(s)
  BY <1>1, <1>5, <1>6, <1>7, BasesAssumption DEF Seated, Placed, FreeBases, BasesOf
<1>11. Exclusive(s)
  BY <1>1, <1>5, <1>6, <1>7 DEF Seated, Exclusive
<1>12. Queued(s)
  BY <1>6 DEF Seated, Queued
<1>13. Absent(s)
  BY <1>5, <1>6, <1>7 DEF Seated, Absent
<1>14. /\ s.NumMembers[t] = r.NumMembers[t] + 1 /\ s.NumMembers[u] = r.NumMembers[u] - 1
       /\ \A v \in Teams \ {t, u} : s.NumMembers[v] = r.NumMembers[v]
  BY <1>1, <1>5, <1>8 DEF u
<1> QED
  BY <1>6, <1>9, <1>10, <1>11, <1>12, <1>13, <1>14 DEF Seated, s, u

(* Players leave.                                                          *)
LEMMA DepartKeeps ==
  ASSUME NEW r, Sound(r), NEW gone \in SUBSET r.players
  PROVE  LET s == Depart(r, gone) IN
         Sound(s) /\ s.players = r.players \ gone /\ s.fault = r.fault
<1> DEFINE In(t) == {p \in gone : r.team[p] = t}
           s == Depart(r, gone)
<1>1. r \in Rosters /\ IsFiniteSet(gone)
  BY FS_Subset, PlayersAssumption DEF Rosters, Sound, Seated
<1>2. Departed(s, r, gone)
  BY <1>1, DepartFields
<1> HIDE DEF s
<1>3. /\ r.players \subseteq Everyone /\ r.team \in [Everyone -> Teams \cup {NoTeam}]
      /\ r.home \in [Everyone -> Bases \cup {NoBase}] /\ r.pl_state \in [Everyone -> States]
      /\ r.NumMembers \in [Teams -> Int] /\ r.TeamRobots \in [Teams -> Int]
      /\ r.NumPaused \in Int /\ r.Swapper \in [Teams -> Everyone \cup {Nobody}]
  BY <1>1 DEF Rosters
<1>4. /\ s \in Rosters /\ s.players = r.players \ gone /\ s.fault = r.fault
      /\ s.team = [p \in Everyone |-> IF p \in gone THEN NoTeam ELSE r.team[p]]
      /\ s.home = [p \in Everyone |-> IF p \in gone THEN NoBase ELSE r.home[p]]
      /\ s.pl_state = [p \in Everyone |-> IF p \in gone THEN "UNDEFINED" ELSE r.pl_state[p]]
      /\ s.Swapper = Unqueue(r.Swapper, gone)
      /\ s.NumPaused = r.NumPaused - Cardinality({p \in gone : Paused(r, p)})
  BY <1>2 DEF Departed
<1>5. ASSUME NEW t \in Teams
      PROVE  /\ s.NumMembers[t] = r.NumMembers[t] - Cardinality(In(t))
             /\ s.TeamRobots[t] = r.TeamRobots[t] - Cardinality(In(t) \cap Robots)
  BY <1>2 DEF Departed
<1>6. Counted(s)
  <2> SUFFICES ASSUME NEW t \in Teams
               PROVE  /\ s.NumMembers[t] = Cardinality(Members(s, t))
                      /\ s.TeamRobots[t] = Cardinality(Members(s, t) \cap Robots)
    BY DEF Counted
  <2> DEFINE M == Members(r, t)
             I == In(t)
  <2>1. /\ r.NumMembers[t] = Cardinality(M) /\ r.TeamRobots[t] = Cardinality(M \cap Robots)
        /\ IsFiniteSet(M) /\ IsFiniteSet(M \cap Robots)
    BY <1>1, MembersFinite DEF Sound, Seated, Counted
  <2>2. Members(s, t) = M \ I /\ M \cap I = I
    BY <1>3, <1>4, TeamsAssumption DEF Members
  <2> HIDE DEF M, I
  <2>3. Cardinality(M \ I) = Cardinality(M) - Cardinality(M \cap I)
    BY <2>1, FS_Difference
  <2>4. (M \ I) \cap Robots = (M \cap Robots) \ I /\ (M \cap Robots) \cap I = I \cap Robots
    BY <2>2
  <2>5. Cardinality((M \cap Robots) \ I) = Cardinality(M \cap Robots) - Cardinality((M \cap Robots) \cap I)
    BY <2>1, FS_Difference
  <2>6. s.NumMembers[t] = r.NumMembers[t] - Cardinality(I)
        /\ s.TeamRobots[t] = r.TeamRobots[t] - Cardinality(I \cap Robots)
    BY <1>5 DEF I
  <2> QED
    BY <2>1, <2>2, <2>3, <2>4, <2>5, <2>6
<1>7. Placed(s)
  BY <1>3, <1>4 DEF Sound, Seated, Placed
<1>8. Exclusive(s)
  BY <1>3, <1>4 DEF Sound, Seated, Exclusive
<1>9. Queued(s)
  BY <1>3, <1>4 DEF Sound, Seated, Queued, Unqueue
<1>10. Absent(s)
  BY <1>3, <1>4 DEF Sound, Seated, Absent
<1>11. {p \in gone : Paused(r, p)} = In(PauseTeam)
  BY DEF Sound, Seated, Placed, Paused, EntryState
<1>12. Cardinality(In(PauseTeam)) \in Nat
  BY <1>1, FS_Subset, FS_CardinalityType
<1>13. /\ s.NumPaused = r.NumPaused - Cardinality(In(PauseTeam))
       /\ s.NumMembers[PauseTeam] = r.NumMembers[PauseTeam] - Cardinality(In(PauseTeam))
  BY <1>4, <1>5, <1>11, TeamsAssumption
<1> HIDE DEF In
<1>14. s.NumPaused = s.NumMembers[PauseTeam] /\ s.NumPaused <= MaxPaused
  BY <1>3, <1>12, <1>13, OptionsAssumption DEF Sound
<1> QED
  BY <1>4, <1>6, <1>7, <1>8, <1>9, <1>10, <1>14 DEF Sound, Seated, s

(* Two clients trade places.                                               *)
LEMMA ExchangeKeeps ==
  ASSUME NEW r, Sound(r), NEW p \in r.players \cap Humans, NEW q \in r.players \cap Humans, p # q
  PROVE  LET s == Exchange(r, p, q) IN
         Sound(s) /\ s.players = r.players /\ s.fault = r.fault
<1> DEFINE s == Exchange(r, p, q)
<1>1. r \in Rosters /\ p \in Everyone /\ q \in Everyone /\ p \notin Robots /\ q \notin Robots
  BY PlayersAssumption DEF Sound, Seated, Everyone
<1>2. Exchanged(s, r, p, q)
  BY <1>1, ExchangeFields
<1> HIDE DEF s
<1>3. /\ r.players \subseteq Everyone /\ r.team \in [Everyone -> Teams \cup {NoTeam}]
      /\ r.home \in [Everyone -> Bases \cup {NoBase}] /\ r.pl_state \in [Everyone -> States]
      /\ r.team[p] \in Teams /\ r.team[q] \in Teams
  BY <1>1 DEF Rosters, Sound, Seated, Placed
<1>4. /\ s \in Rosters /\ s.players = r.players /\ s.fault = r.fault
      /\ s.NumMembers = r.NumMembers /\ s.TeamRobots = r.TeamRobots
      /\ s.NumPaused = r.NumPaused /\ s.Swapper = r.Swapper
      /\ s.team = [r.team EXCEPT ![p] = r.team[q], ![q] = r.team[p]]
      /\ s.home = [r.home EXCEPT ![p] = r.home[q], ![q] = r.home[p]]
      /\ s.pl_state = [r.pl_state EXCEPT ![p] = EntryState(r.team[q]), ![q] = EntryState(r.team[p])]
  BY <1>2 DEF Exchanged
<1>5. /\ s.team[p] = r.team[q] /\ s.team[q] = r.team[p] /\ s.home[p] = r.home[q] /\ s.home[q] = r.home[p]
      /\ s.pl_state[p] = EntryState(r.team[q]) /\ s.pl_state[q] = EntryState(r.team[p])
      /\ \A z \in Everyone \ {p, q} : /\ s.team[z] = r.team[z] /\ s.home[z] = r.home[z]
                                      /\ s.pl_state[z] = r.pl_state[z]
  BY <1>1, <1>3, <1>4
<1>6. Counted(s)
  <2> SUFFICES ASSUME NEW t \in Teams
               PROVE  /\ Cardinality(Members(s, t)) = Cardinality(Members(r, t))
                      /\ Members(s, t) \cap Robots = Members(r, t) \cap Robots
    BY <1>4 DEF Counted, Sound, Seated
  <2>1. Members(s, t) \cap Robots = Members(r, t) \cap Robots
    BY <1>1, <1>3, <1>4, <1>5 DEF Members
  <2>2. CASE r.team[p] = t <=> r.team[q] = t
    <3>1. Members(s, t) = Members(r, t)
      BY <1>3, <1>4, <1>5, <2>2 DEF Members
    <3> QED
      BY <2>1, <3>1
  <2>3. CASE r.team[p] = t /\ r.team[q] # t
    <3>1. Members(s, t) = (Members(r, t) \ {p}) \cup {q} /\ p \in Members(r, t) /\ q \notin Members(r, t)
      BY <1>3, <1>4, <1>5, <2>3 DEF Members
    <3>2. /\ IsFiniteSet(Members(r, t) \ {p})
          /\ Cardinality(Members(r, t) \ {p}) = Cardinality(Members(r, t)) - 1
      BY <1>1, <3>1, MembersFinite, FS_RemoveElement
    <3>3. q \notin Members(r, t) \ {p}
      BY <3>1
    <3>4. Cardinality((Members(r, t) \ {p}) \cup {q}) = Cardinality(Members(r, t) \ {p}) + 1
      BY <3>2, <3>3, FS_AddElement
    <3>5. Cardinality(Members(r, t)) \in Nat
      BY <1>1, MembersFinite
    <3> QED
      BY <2>1, <3>1, <3>2, <3>4, <3>5
  <2>4. CASE r.team[q] = t /\ r.team[p] # t
    <3>1. Members(s, t) = (Members(r, t) \ {q}) \cup {p} /\ q \in Members(r, t) /\ p \notin Members(r, t)
      BY <1>3, <1>4, <1>5, <2>4 DEF Members
    <3>2. /\ IsFiniteSet(Members(r, t) \ {q})
          /\ Cardinality(Members(r, t) \ {q}) = Cardinality(Members(r, t)) - 1
      BY <1>1, <3>1, MembersFinite, FS_RemoveElement
    <3>3. p \notin Members(r, t) \ {q}
      BY <3>1
    <3>4. Cardinality((Members(r, t) \ {q}) \cup {p}) = Cardinality(Members(r, t) \ {q}) + 1
      BY <3>2, <3>3, FS_AddElement
    <3>5. Cardinality(Members(r, t)) \in Nat
      BY <1>1, MembersFinite
    <3> QED
      BY <2>1, <3>1, <3>2, <3>4, <3>5
  <2> QED
    BY <2>2, <2>3, <2>4
<1>7. Placed(s)
  <2> SUFFICES ASSUME NEW z \in r.players
               PROVE  /\ s.team[z] \in Teams /\ s.pl_state[z] = EntryState(s.team[z])
                      /\ IF s.team[z] = PauseTeam THEN s.home[z] = NoBase /\ z \in Humans
                         ELSE s.home[z] \in Bases /\ BaseTeam[s.home[z]] = s.team[z]
    BY <1>4 DEF Placed
  <2>1. CASE z = p
    BY <1>5, <2>1 DEF Sound, Seated, Placed
  <2>2. CASE z = q
    BY <1>5, <2>2 DEF Sound, Seated, Placed
  <2>3. CASE z \notin {p, q}
    BY <1>3, <1>5, <2>3 DEF Sound, Seated, Placed
  <2> QED
    BY <2>1, <2>2, <2>3
<1>8. Exclusive(s)
  <2> DEFINE T(z) == IF z = p THEN q ELSE IF z = q THEN p ELSE z
  <2>1. \A z \in r.players : T(z) \in r.players /\ s.home[z] = r.home[T(z)]
    BY <1>3, <1>5
  <2>2. \A y, z \in r.players : y # z => T(y) # T(z)
    OBVIOUS
  <2> HIDE DEF T
  <2> QED
    BY <1>4, <2>1, <2>2 DEF Sound, Seated, Exclusive
<1>9. Queued(s)
  BY <1>4 DEF Sound, Seated, Queued
<1>10. Absent(s)
  BY <1>3, <1>4, <1>5 DEF Sound, Seated, Absent
<1> QED
  BY <1>4, <1>6, <1>7, <1>8, <1>9, <1>10 DEF Sound, Seated, s

-----------------------------------------------------------------------------
(* The other helpers.                                                      *)

(* Fields that no seat depends on may change.                              *)
LEMMA SameSeats ==
  ASSUME NEW r, Seated(r), NEW s \in Rosters, Queued(s),
         s.players = r.players, s.team = r.team, s.home = r.home, s.pl_state = r.pl_state,
         s.NumMembers = r.NumMembers, s.TeamRobots = r.TeamRobots
  PROVE  Seated(s)
<1>1. \A t : Members(s, t) = Members(r, t)
  BY DEF Members
<1>2. Counted(s)
  BY <1>1 DEF Seated, Counted
<1>3. Placed(s) /\ Exclusive(s)
  BY DEF Seated, Placed, Exclusive
<1>4. Absent(s)
  BY DEF Seated, Absent
<1> QED
  BY <1>2, <1>3, <1>4 DEF Seated

(* The swap queues change, and name clients in the game only.              *)
LEMMA SwapperKeeps ==
  ASSUME NEW r, Sound(r), NEW w \in [Teams -> (r.players \cap Humans) \cup {Nobody}]
  PROVE  LET s == [r EXCEPT !.Swapper = w] IN
         /\ Sound(s) /\ s.players = r.players /\ s.fault = r.fault /\ s.team = r.team
         /\ s.home = r.home /\ s.pl_state = r.pl_state /\ s.NumMembers = r.NumMembers
<1> DEFINE s == [r EXCEPT !.Swapper = w]
<1>1. w \in [Teams -> Everyone \cup {Nobody}]
  BY DEF Everyone
<1>2. s \in Rosters
  BY <1>1 DEF Sound, Seated, Rosters
<1>3. /\ s.players = r.players /\ s.fault = r.fault /\ s.team = r.team /\ s.home = r.home
      /\ s.pl_state = r.pl_state /\ s.NumMembers = r.NumMembers /\ s.TeamRobots = r.TeamRobots
      /\ s.NumPaused = r.NumPaused /\ s.Swapper = w
  BY DEF Sound, Seated, Rosters
<1> HIDE DEF s
<1>4. Queued(s)
  BY <1>3 DEF Queued
<1>5. Seated(s)
  BY <1>2, <1>3, <1>4, SameSeats DEF Sound
<1> QED
  BY <1>3, <1>5 DEF Sound, s

(* A null pointer is followed.                                             *)
LEMMA CrashKeeps ==
  ASSUME NEW r, Sound(r), NEW f \in Faults
  PROVE  Sound(Crash(r, f)) /\ Crash(r, f).players = r.players /\ Crash(r, f).fault = f
<1> DEFINE s == Crash(r, f)
<1>1. s \in Rosters
  BY DEF Sound, Seated, Rosters, Crash
<1>2. /\ s.players = r.players /\ s.fault = f /\ s.team = r.team /\ s.home = r.home
      /\ s.pl_state = r.pl_state /\ s.NumMembers = r.NumMembers /\ s.TeamRobots = r.TeamRobots
      /\ s.NumPaused = r.NumPaused /\ s.Swapper = r.Swapper
  BY DEF Sound, Seated, Rosters, Crash
<1> HIDE DEF s
<1>3. Queued(s)
  BY <1>2 DEF Sound, Seated, Queued
<1>4. Seated(s)
  BY <1>1, <1>2, <1>3, SameSeats DEF Sound
<1> QED
  BY <1>2, <1>4 DEF Sound, s

(* The number of pausers changes.                                          *)
LEMMA PauserKeeps ==
  ASSUME NEW r, Seated(r), NEW n \in Int, n = r.NumMembers[PauseTeam], n <= MaxPaused
  PROVE  LET s == [r EXCEPT !.NumPaused = n] IN
         Sound(s) /\ s.players = r.players /\ s.fault = r.fault /\ s.team = r.team
<1> DEFINE s == [r EXCEPT !.NumPaused = n]
<1>1. s \in Rosters
  BY DEF Seated, Rosters
<1>2. /\ s.players = r.players /\ s.fault = r.fault /\ s.team = r.team /\ s.home = r.home
      /\ s.pl_state = r.pl_state /\ s.NumMembers = r.NumMembers /\ s.TeamRobots = r.TeamRobots
      /\ s.NumPaused = n /\ s.Swapper = r.Swapper
  BY DEF Seated, Rosters
<1> HIDE DEF s
<1>3. Queued(s)
  BY <1>2 DEF Seated, Queued
<1>4. Seated(s)
  BY <1>1, <1>2, <1>3, SameSeats
<1> QED
  BY <1>2, <1>4 DEF Sound, s

(* What may happen to the roster while room is made for a newcomer.        *)
Reduced(q, r) ==
  /\ Sound(q) /\ q.players \subseteq r.players
  /\ q.fault = r.fault \/ (q.fault = "robot_kick" /\ ~ReserveRobotTeam)

LEMMA KickRobotKeeps ==
  ASSUME NEW r, Sound(r), NEW t, NEW q \in KickRobot(r, t)
  PROVE  Reduced(q, r)
<1>1. CASE q = r
  BY <1>1 DEF Reduced
<1>2. CASE ~ReserveRobotTeam /\ q = Crash(r, "robot_kick")
  BY <1>2, CrashKeeps DEF Reduced, Faults
<1>3. CASE \E p \in r.players : q = Depart(r, {p})
  <2>1. PICK p \in r.players : q = Depart(r, {p})
    BY <1>3
  <2>2. {p} \in SUBSET r.players
    OBVIOUS
  <2> QED
    BY <2>1, <2>2, DepartKeeps DEF Reduced
<1> QED
  BY <1>1, <1>2, <1>3 DEF KickRobot

(* Team_find_available.                                                    *)
LEMMA TeamsForHumanHaveRoom ==
  ASSUME NEW r, NEW t \in TeamsForHuman(r)
  PROVE  t \in Teams \ {PauseTeam} /\ HasRoom(r, t)
<1>1. t \in OpenToHumans(r)
  BY DEF TeamsForHuman
<1> QED
  BY <1>1 DEF OpenToHumans

(* Making room for a newcomer only takes robots away.                      *)
LEMMA SuggestedKeeps ==
  ASSUME NEW r, Sound(r), NEW t \in Teams \cup {NoTeam}, NEW s \in Suggested(r, t)
  PROVE  Reduced(s[1], r) /\ s[2] \in Teams \cup {NoTeam}
<1>1. Reduced(r, r)
  BY DEF Reduced
<1>2. CASE s = <<r, t>> \/ s = <<r, NoTeam>>
  BY <1>1, <1>2
<1>3. CASE \E q \in KickRobot(r, t) : s = <<q, IF q = r THEN NoTeam ELSE t>>
  <2>1. PICK q \in KickRobot(r, t) : s = <<q, IF q = r THEN NoTeam ELSE t>>
    BY <1>3
  <2>2. Reduced(q, r)
    BY KickRobotKeeps
  <2> QED
    BY <2>1, <2>2
<1> QED
  BY <1>2, <1>3 DEF Suggested

LEMMA FoundKeeps ==
  ASSUME NEW r, Sound(r), NEW c \in Found(r)
  PROVE  Reduced(c[1], r) /\ c[2] \in Teams \cup {NoTeam}
<1>1. \A q : \A d \in WithTeam(q) : d[1] = q /\ d[2] \in Teams \cup {NoTeam}
  BY TeamsForHumanHaveRoom DEF WithTeam
<1>2. Reduced(r, r)
  BY DEF Reduced
<1>3. c \in WithTeam(r) \/ \E q \in KickRobot(r, NoTeam) : c \in WithTeam(q)
  BY DEF Found
<1>4. CASE c \in WithTeam(r)
  BY <1>1, <1>2, <1>4
<1>5. CASE \E q \in KickRobot(r, NoTeam) : c \in WithTeam(q)
  BY <1>1, <1>5, KickRobotKeeps
<1> QED
  BY <1>3, <1>4, <1>5

-----------------------------------------------------------------------------
(* Pausing, unpausing and changing teams.                                  *)

(* Pausers are the members of the pause team.                              *)
LEMMA PausedIsTeam ==
  ASSUME NEW r, Seated(r), NEW p \in r.players
  PROVE  Paused(r, p) <=> r.team[p] = PauseTeam
BY DEF Seated, Placed, Paused, EntryState

(* A player pauses, and the pausers may be kicked for it.                  *)
LEMMA PauseForcedKeeps ==
  ASSUME NEW r, Sound(r), NEW p \in r.players \cap Humans, ~Paused(r, p)
  PROVE  LET s == PauseForced(r, p) IN
         Sound(s) /\ s.players \subseteq r.players /\ s.fault = r.fault
<1> DEFINE kicked == IF r.NumPaused >= MaxPaused
                     THEN {q \in r.players : Connected(r, q) /\ Paused(r, q)}
                     ELSE {}
           d == Depart(r, kicked)
           m == Move(d, p, PauseTeam, NoBase)
           n == d.NumPaused + 1
           s == PauseForced(r, p)
<1>1. s = [m EXCEPT !.NumPaused = m.NumPaused + 1]
  BY DEF PauseForced
<1>2. kicked \in SUBSET r.players /\ p \notin kicked
  OBVIOUS
<1>3. d.NumPaused < MaxPaused
  <2>1. CASE r.NumPaused < MaxPaused /\ kicked = {}
    <3>1. {q \in kicked : Paused(r, q)} = {} /\ Cardinality({}) = 0
      BY <2>1, FS_EmptySet
    <3>2. d.NumPaused = r.NumPaused - Cardinality({q \in kicked : Paused(r, q)})
      BY <1>2, DepartFields DEF Departed, Sound, Seated
    <3>3. r.NumPaused \in Int
      BY DEF Sound, Seated, Rosters
    <3> QED
      BY <2>1, <3>1, <3>2, <3>3
  <2>2. CASE kicked = {q \in r.players : Connected(r, q) /\ Paused(r, q)}
    <3>1. Sound(d) /\ d.players = r.players \ kicked
      BY <1>2, DepartKeeps
    <3>2. d.team = [q \in Everyone |-> IF q \in kicked THEN NoTeam ELSE r.team[q]]
      BY <1>2, DepartFields DEF Departed, Sound, Seated
    <3>3. \A q \in r.players : q \notin kicked => r.team[q] # PauseTeam
      BY <2>2, PausedIsTeam DEF Connected, Sound, Seated, Placed
    <3> HIDE DEF d, kicked
    <3>4. Members(d, PauseTeam) = {}
      BY <3>1, <3>2, <3>3 DEF Members, Sound, Seated, Rosters
    <3>5. d.NumPaused = 0
      BY <3>1, <3>4, FS_EmptySet, TeamsAssumption DEF Sound, Seated, Counted
    <3> QED
      BY <3>5, OptionsAssumption
  <2>3. r.NumPaused \in Int /\ MaxPaused \in Nat
    BY OptionsAssumption DEF Sound, Seated, Rosters
  <2> QED
    BY <2>1, <2>2, <2>3
<1>4. Sound(d) /\ d.players = r.players \ kicked /\ d.fault = r.fault
  BY <1>2, DepartKeeps
<1>5. p \in d.players /\ p \in Humans
  BY <1>2, <1>4
<1>6. d.team[p] # PauseTeam
  <2>1. d.team = [q \in Everyone |-> IF q \in kicked THEN NoTeam ELSE r.team[q]]
    BY <1>2, DepartFields DEF Departed, Sound, Seated
  <2> HIDE DEF d, kicked
  <2>2. d.team[p] = r.team[p]
    BY <1>2, <2>1 DEF Everyone
  <2> QED
    BY <2>2, PausedIsTeam DEF Sound
<1> HIDE DEF d, kicked
<1>7. /\ Seated(m) /\ m.players = d.players /\ m.fault = d.fault /\ m.NumPaused = d.NumPaused
      /\ m.NumMembers[PauseTeam] = d.NumMembers[PauseTeam] + 1
  BY <1>4, <1>5, <1>6, MoveKeeps, TeamsAssumption DEF Sound
<1>8. d.NumPaused \in Int /\ d.NumPaused = d.NumMembers[PauseTeam] /\ MaxPaused \in Nat
  BY <1>4, OptionsAssumption DEF Sound, Seated, Rosters
<1> HIDE DEF m, s
<1>9. n \in Int /\ n = m.NumMembers[PauseTeam] /\ n <= MaxPaused /\ n = m.NumPaused + 1
  BY <1>3, <1>7, <1>8
<1> HIDE DEF n
<1>10. s = [m EXCEPT !.NumPaused = n]
  BY <1>1, <1>9
<1>11. Sound(s) /\ s.players = m.players /\ s.fault = m.fault
  BY <1>7, <1>9, <1>10, PauserKeeps
<1> QED
  BY <1>4, <1>7, <1>11 DEF s

(* Where there is room nobody is removed for want of a base.               *)
LEMMA SwapTeamMoves ==
  ASSUME NEW r, Seated(r), NEW p \in r.players, NEW t \in Teams \ {PauseTeam}, HasRoom(r, t),
         NEW q \in SwapTeam(r, p, t)
  PROVE  \E b \in FreeBases(r, t) : q = Move(r, p, t, b)
BY RoomIsABase DEF SwapTeam

(* A player who does not pause changes to a team that has room.            *)
LEMMA SwapTeamKeeps ==
  ASSUME NEW r, Sound(r), NEW p \in r.players, ~Paused(r, p),
         NEW t \in Teams \ {PauseTeam}, t # r.team[p], HasRoom(r, t),
         NEW s \in SwapTeam(r, p, t)
  PROVE  Sound(s) /\ s.players = r.players /\ s.fault = r.fault
<1>1. PICK b \in FreeBases(r, t) : s = Move(r, p, t, b)
  BY SwapTeamMoves DEF Sound
<1>2. r.team[p] \in Teams \ {PauseTeam}
  BY PausedIsTeam DEF Sound, Seated, Placed
<1>3. /\ Seated(s) /\ s.players = r.players /\ s.fault = r.fault /\ s.NumPaused = r.NumPaused
      /\ \A v \in Teams \ {t, r.team[p]} : s.NumMembers[v] = r.NumMembers[v]
  BY <1>1, MoveKeeps DEF Sound
<1>4. s.NumMembers[PauseTeam] = r.NumMembers[PauseTeam]
  BY <1>2, <1>3, TeamsAssumption
<1> QED
  BY <1>3, <1>4 DEF Sound

(* A paused player goes back to a team that has room.                      *)
LEMMA UnpausedKeeps ==
  ASSUME NEW r, Sound(r), NEW p \in r.players, Paused(r, p),
         NEW t \in Teams \ {PauseTeam}, HasRoom(r, t),
         NEW s \in Unpaused(r, p, t)
  PROVE  Sound(s) /\ s.players = r.players /\ s.fault = r.fault
<1>1. PICK m \in SwapTeam(r, p, t) : s = [m EXCEPT !.NumPaused = m.NumPaused - 1]
  BY DEF Unpaused
<1>2. PICK b \in FreeBases(r, t) : m = Move(r, p, t, b)
  BY SwapTeamMoves DEF Sound
<1>3. r.team[p] = PauseTeam
  BY PausedIsTeam DEF Sound
<1>4. /\ Seated(m) /\ m.players = r.players /\ m.fault = r.fault /\ m.NumPaused = r.NumPaused
      /\ m.NumMembers[PauseTeam] = r.NumMembers[PauseTeam] - 1
  BY <1>2, <1>3, MoveKeeps DEF Sound
<1>5. r.NumPaused \in Int /\ r.NumPaused = r.NumMembers[PauseTeam] /\ r.NumPaused <= MaxPaused /\ MaxPaused \in Nat
  BY OptionsAssumption DEF Sound, Seated, Rosters
<1> DEFINE n == m.NumPaused - 1
<1>6. n \in Int /\ n = m.NumMembers[PauseTeam] /\ n <= MaxPaused
  BY <1>4, <1>5
<1>7. s = [m EXCEPT !.NumPaused = n]
  BY <1>1
<1> HIDE DEF n
<1>8. Sound(s) /\ s.players = m.players /\ s.fault = m.fault
  BY <1>4, <1>6, <1>7, PauserKeeps
<1> QED
  BY <1>4, <1>8

(* The two halves of the team command.                                     *)
LEMMA CommandFullKeeps ==
  ASSUME NEW r, Sound(r), NEW p \in r.players \cap Humans, NEW t \in Teams, t # r.team[p],
         NEW s \in TeamCommandFull(r, p, t)
  PROVE  Sound(s) /\ s.players = r.players /\ s.fault = r.fault
<1> DEFINE waiting == r.Swapper[r.team[p]]
           pausers == {q \in r.players : Connected(r, q) /\ Paused(r, q) /\ r.team[q] = t}
<1>1. waiting \in (r.players \cap Humans) \cup {Nobody}
  BY DEF Sound, Seated, Queued, Placed
<1>2. CASE waiting # Nobody /\ r.team[waiting] = t /\ s = Exchange(r, p, waiting)
  BY <1>1, <1>2, ExchangeKeeps
<1>3. CASE \E q \in pausers : s = Exchange(r, p, q)
  <2>1. PICK q \in pausers : s = Exchange(r, p, q)
    BY <1>3
  <2>2. q \in r.players \cap Humans /\ q # p
    BY DEF Connected
  <2> QED
    BY <2>1, <2>2, ExchangeKeeps
<1>4. CASE s = [r EXCEPT !.Swapper[t] = p]
  <2> DEFINE w == [r.Swapper EXCEPT ![t] = p]
  <2>1. s = [r EXCEPT !.Swapper = w]
    BY <1>4 DEF Sound, Seated, Rosters
  <2>2. w \in [Teams -> (r.players \cap Humans) \cup {Nobody}]
    BY DEF Sound, Seated, Queued, Rosters
  <2> HIDE DEF w
  <2> QED
    BY <2>1, <2>2, SwapperKeeps
<1>5. \/ waiting # Nobody /\ r.team[waiting] = t /\ s = Exchange(r, p, waiting)
      \/ \E q \in pausers : s = Exchange(r, p, q)
      \/ s = [r EXCEPT !.Swapper[t] = p]
  BY DEF TeamCommandFull
<1> QED
  BY <1>2, <1>3, <1>4, <1>5

(* ... and with room in the team asked for.                                *)
LEMMA CommandRoomKeeps ==
  ASSUME NEW r, Sound(r), NEW p \in r.players \cap Humans, NEW t \in Teams \ {PauseTeam},
         t # r.team[p], HasRoom(r, t), r.Swapper[r.team[p]] # p,
         NEW s \in TeamCommandRoom(r, p, t)
  PROVE  Sound(s) /\ s.players = r.players /\ s.fault = r.fault
<1> DEFINE waiting == r.Swapper[r.team[p]]
<1>1. waiting \in (r.players \cap Humans) \cup {Nobody} /\ waiting # p
  BY DEF Sound, Seated, Queued, Placed
<1>2. CASE waiting # Nobody /\ s = Exchange(r, p, waiting)
  BY <1>1, <1>2, ExchangeKeeps
<1>3. CASE s = r
  BY <1>3
<1>4. CASE Paused(r, p) /\ s \in Unpaused(r, p, t)
  BY <1>4, UnpausedKeeps
<1>5. CASE ~Paused(r, p) /\ s \in SwapTeam(r, p, t)
  BY <1>5, SwapTeamKeeps
<1> QED
  BY <1>2, <1>3, <1>4, <1>5 DEF TeamCommandRoom

-----------------------------------------------------------------------------
(* The invariant.                                                          *)

\* What holds also when the server has followed a null pointer.
Broken(r) ==
  /\ r \in Rosters /\ Counted(r) /\ Queued(r) /\ r.NumPaused <= MaxPaused
  /\ r.NumPaused = Cardinality({p \in r.players : Paused(r, p)})

\* The faults that the default options of robots rule out.
Defaults == ReserveRobotTeam /\ RestrictRobots => RobotsComeAndGo

IInv ==
  /\ Broken(roster)
  /\ Running => Sound(roster)
  /\ Defaults
  /\ pending \in [Humans -> Teams \cup {NoTeam}]
  /\ \A h \in Humans : pending[h] # NoTeam => h \notin roster.players

\* Robots do not give the team command.
Setting == PauseApart /\ Targets \subseteq Humans

LEMMA SoundIsBroken ==
  ASSUME NEW r, Sound(r)
  PROVE  Broken(r)
<1>1. {p \in r.players : Paused(r, p)} = Members(r, PauseTeam)
  BY PausedIsTeam DEF Sound, Members
<1> QED
  BY <1>1, TeamsAssumption DEF Sound, Seated, Broken, Counted

(* What is shown of the next roster holds in the next state.               *)
LEMMA NextIsBroken ==
  ASSUME Broken(roster')
  PROVE  Broken(roster)'
BY DEF Broken, Counted, Queued, Members, Paused

LEMMA NextIsSound ==
  ASSUME Sound(roster')
  PROVE  Sound(roster)'
BY DEF Sound, Seated, Counted, Placed, Exclusive, Queued, Absent, Members

LEMMA RosterStays ==
  ASSUME IInv, UNCHANGED roster
  PROVE  Broken(roster)' /\ (Running => Sound(roster))' /\ Defaults'
<1>1. Broken(roster') /\ (Running => Sound(roster'))
  BY DEF IInv
<1>2. Running' <=> Running
  BY DEF Running
<1>3. Defaults'
  BY DEF IInv, Defaults, RobotsComeAndGo
<1> QED
  BY <1>1, <1>2, <1>3, NextIsBroken, NextIsSound

(* A step that leaves a sound roster and the clients at the door alone.    *)
LEMMA SoundStep ==
  ASSUME IInv, Running, Sound(roster'), roster'.fault \in {"none", "login", "pause_base"},
         roster'.players \cap Humans \subseteq roster.players, UNCHANGED pending
  PROVE  IInv'
<1>1. Broken(roster')
  BY SoundIsBroken
<1>2. Broken(roster)' /\ (Running => Sound(roster))'
  BY <1>1, NextIsBroken, NextIsSound
<1>3. Defaults'
  BY DEF Defaults, RobotsComeAndGo
<1> QED
  BY <1>2, <1>3 DEF IInv


(* One lemma for each handler.                                             *)

LEMMA InitHolds == Init => IInv
<1> SUFFICES ASSUME Init PROVE IInv
  OBVIOUS
<1>1. roster \in Rosters
  BY PlayersAssumption, TeamsAssumption DEF Init, Rosters, States, Faults
<1>2. /\ roster.players = {} /\ roster.NumPaused = 0 /\ roster.fault = "none"
      /\ \A t \in Teams : /\ roster.NumMembers[t] = 0 /\ roster.TeamRobots[t] = 0
                          /\ roster.Swapper[t] = Nobody
      /\ \A p \in Everyone : roster.team[p] = NoTeam /\ roster.pl_state[p] = "UNDEFINED"
  BY DEF Init
<1>3. \A t : Members(roster, t) = {}
  BY <1>2 DEF Members
<1>4. Counted(roster)
  BY <1>2, <1>3, FS_EmptySet DEF Counted
<1>5. Placed(roster) /\ Exclusive(roster) /\ Queued(roster) /\ Absent(roster)
  BY <1>2 DEF Placed, Exclusive, Queued, Absent
<1>6. Sound(roster)
  BY <1>1, <1>2, <1>4, <1>5, TeamsAssumption, OptionsAssumption DEF Sound, Seated
<1>7. Defaults /\ pending \in [Humans -> Teams \cup {NoTeam}]
      /\ \A h \in Humans : pending[h] # NoTeam => h \notin roster.players
  BY <1>2 DEF Defaults, RobotsComeAndGo, Init
<1> QED
  BY <1>6, <1>7, SoundIsBroken DEF IInv

LEMMA QueueLoopKeeps ==
  ASSUME IInv, NEW h \in Humans, NEW t \in Teams \cup {NoTeam}, QueueLoop(h, t)
  PROVE  IInv'
<1>1. Sound(roster) /\ roster.fault = "none" /\ Outside(h)
  BY DEF IInv, QueueLoop, Running
<1>2. /\ Reduced(roster', roster)
      /\ \E c \in Teams \cup {NoTeam} : pending' \in {pending, [pending EXCEPT ![h] = c]}
  <2>1. PICK r \in IF BaseAvailable(roster) THEN {roster} ELSE KickRobot(roster, NoTeam) :
          IF ~BaseAvailable(r)
          THEN roster' = r /\ UNCHANGED pending
          ELSE \E s \in Suggested(r, t) :
               \E c \in IF s[2] = NoTeam THEN Found(s[1]) ELSE {s} :
                 /\ roster' = c[1]
                 /\ \/ pending' = [pending EXCEPT ![h] = c[2]]
                    \/ UNCHANGED pending
    BY DEF QueueLoop
  <2>2. Reduced(r, roster)
    BY <1>1, <2>1, KickRobotKeeps DEF Reduced
  <2>3. CASE ~BaseAvailable(r)
    BY <2>1, <2>2, <2>3
  <2>4. CASE BaseAvailable(r)
    <3>1. PICK s \in Suggested(r, t) :
            \E c \in IF s[2] = NoTeam THEN Found(s[1]) ELSE {s} :
              /\ roster' = c[1]
              /\ \/ pending' = [pending EXCEPT ![h] = c[2]]
                 \/ UNCHANGED pending
      BY <2>1, <2>4
    <3>2. Reduced(s[1], r) /\ s[2] \in Teams \cup {NoTeam}
      BY <2>2, SuggestedKeeps DEF Reduced
    <3>3. PICK c \in IF s[2] = NoTeam THEN Found(s[1]) ELSE {s} :
              /\ roster' = c[1]
              /\ \/ pending' = [pending EXCEPT ![h] = c[2]]
                 \/ UNCHANGED pending
      BY <3>1
    <3>4. (Reduced(c[1], s[1]) \/ c = s) /\ c[2] \in Teams \cup {NoTeam}
      BY <3>2, <3>3, FoundKeeps DEF Reduced
    <3>5. Reduced(c[1], roster)
      BY <2>2, <3>2, <3>4 DEF Reduced
    <3> QED
      BY <3>3, <3>4, <3>5
  <2> QED
    BY <2>3, <2>4
<1>3. Sound(roster') /\ roster'.players \subseteq roster.players
      /\ (roster'.fault = "none" \/ (roster'.fault = "robot_kick" /\ ~ReserveRobotTeam))
  BY <1>1, <1>2 DEF Reduced
<1>4. Broken(roster')
  BY <1>3, SoundIsBroken
<1>5. Broken(roster)' /\ (Running => Sound(roster))'
  BY <1>3, <1>4, NextIsBroken, NextIsSound
<1>6. Defaults'
  BY <1>3 DEF Defaults, RobotsComeAndGo
<1>7. /\ pending' \in [Humans -> Teams \cup {NoTeam}]
      /\ \A z \in Humans : pending'[z] # NoTeam => z \notin roster'.players
  BY <1>1, <1>2, <1>3 DEF IInv, Outside
<1> QED
  BY <1>5, <1>6, <1>7 DEF IInv

LEMMA PendingLostKeeps ==
  ASSUME IInv, NEW h \in Humans, PendingLost(h)
  PROVE  IInv'
<1>1. Broken(roster)' /\ (Running => Sound(roster))' /\ Defaults'
  BY RosterStays DEF PendingLost
<1> QED
  BY <1>1 DEF IInv, PendingLost

LEMMA LoginKeeps ==
  ASSUME IInv, PauseApart, NEW h \in Humans, Login(h)
  PROVE  IInv'
<1> DEFINE t == pending[h]
           r == [roster EXCEPT !.players = @ \cup {h}]
<1>1. /\ Sound(roster) /\ t \in Teams /\ h \in Everyone \ roster.players
      /\ pending' = [pending EXCEPT ![h] = NoTeam]
  BY DEF IInv, Login, Running, Everyone
<1>2. /\ pending' \in [Humans -> Teams \cup {NoTeam}]
      /\ \A z \in Humans : pending'[z] # NoTeam => z \notin roster.players \cup {h}
  BY <1>1 DEF IInv
<1>3. CASE UNCHANGED roster
  <2>1. Broken(roster)' /\ (Running => Sound(roster))' /\ Defaults'
    BY <1>3, RosterStays
  <2> QED
    BY <1>2, <1>3, <2>1 DEF IInv
<1>4. CASE \E b \in FreeBases(roster, t) : roster' = Joined(roster, h, t, b)
  <2>1. PICK b \in FreeBases(roster, t) : roster' = Joined(roster, h, t, b)
    BY <1>4
  <2>2. t # PauseTeam
    BY <2>1 DEF PauseApart, FreeBases, BasesOf
  <2>3. /\ Seated(roster') /\ roster'.players = roster.players \cup {h}
        /\ roster'.fault = roster.fault /\ roster'.NumPaused = roster.NumPaused
        /\ roster'.NumMembers[PauseTeam] = roster.NumMembers[PauseTeam]
    BY <1>1, <2>1, <2>2, JoinKeeps DEF Sound
  <2>4. Sound(roster')
    BY <1>1, <2>3 DEF Sound
  <2>5. Broken(roster')
    BY <2>4, SoundIsBroken
  <2>6. Broken(roster)' /\ (Running => Sound(roster))'
    BY <2>4, <2>5, NextIsBroken, NextIsSound
  <2> QED
    BY <1>2, <2>3, <2>6 DEF IInv, Defaults, RobotsComeAndGo
<1>5. CASE roster' = Crash(Enlist(r, h, t), "login")
  <2> DEFINE e == Enlist(r, h, t)
  <2>1. /\ r \in Rosters /\ r.players = roster.players \cup {h} /\ r.team = roster.team
        /\ r.pl_state = roster.pl_state /\ r.NumMembers = roster.NumMembers
        /\ r.TeamRobots = roster.TeamRobots /\ r.NumPaused = roster.NumPaused
        /\ r.Swapper = roster.Swapper
    BY <1>1 DEF Sound, Seated, Rosters
  <2> HIDE DEF r
  <2>2. Enlisted(e, r, h, t)
    BY <1>1, <2>1, EnlistFields
  <2> HIDE DEF e
  <2>3. roster' = [e EXCEPT !.fault = "login"]
    BY <1>5 DEF Crash, e
  <2>4. roster' \in Rosters
    BY <2>2, <2>3 DEF Enlisted, Rosters, Faults
  <2>5. /\ roster'.players = e.players /\ roster'.team = e.team /\ roster'.pl_state = e.pl_state
        /\ roster'.NumMembers = e.NumMembers /\ roster'.TeamRobots = e.TeamRobots
        /\ roster'.NumPaused = e.NumPaused /\ roster'.Swapper = e.Swapper /\ roster'.fault = "login"
    BY <2>2, <2>3 DEF Enlisted, Rosters
  <2>6. /\ roster'.players = roster.players \cup {h} /\ roster'.team = [roster.team EXCEPT ![h] = t]
        /\ roster'.pl_state = roster.pl_state
        /\ roster'.NumMembers = [roster.NumMembers EXCEPT ![t] = roster.NumMembers[t] + 1]
        /\ roster'.TeamRobots = [roster.TeamRobots EXCEPT ![t] =
              IF h \in Robots THEN roster.TeamRobots[t] + 1 ELSE roster.TeamRobots[t]]
        /\ roster'.NumPaused = roster.NumPaused /\ roster'.Swapper = roster.Swapper
    BY <2>1, <2>2, <2>5 DEF Enlisted
  <2>7. Counted(roster')
    BY <1>1, <2>6, EnlistCounts DEF Sound
  <2>8. Queued(roster')
    BY <1>1, <2>6 DEF Sound, Seated, Queued
  <2>9. {p \in roster'.players : Paused(roster', p)} = {p \in roster.players : Paused(roster, p)}
    BY <1>1, <2>6 DEF Paused, Sound, Seated, Absent
  <2>10. Broken(roster')
    BY <2>4, <2>6, <2>7, <2>8, <2>9 DEF Broken, IInv
  <2>11. Broken(roster)'
    BY <2>10, NextIsBroken
  <2> QED
    BY <1>2, <2>5, <2>6, <2>11 DEF IInv, Defaults, RobotsComeAndGo, Running
<1> QED
  BY <1>3, <1>4, <1>5 DEF Login, Joined

LEMMA LeaveKeeps ==
  ASSUME IInv, NEW p \in Everyone, Leave(p)
  PROVE  IInv'
<1>1. /\ Running /\ Sound(roster) /\ {p} \in SUBSET roster.players
      /\ roster' = Depart(roster, {p}) /\ UNCHANGED pending
  BY DEF IInv, Leave
<1>2. Sound(roster') /\ roster'.players \subseteq roster.players /\ roster'.fault = roster.fault
  BY <1>1, DepartKeeps
<1> QED
  BY <1>1, <1>2, SoundStep DEF Running

LEMMA RobotAddKeeps ==
  ASSUME IInv, NEW p \in Robots, RobotAdd(p)
  PROVE  IInv'
<1> DEFINE r == [roster EXCEPT !.players = @ \cup {p}]
           t == RobotTeam
<1>1. /\ Running /\ Sound(roster) /\ t \in Teams \ {PauseTeam} /\ p \in Everyone \ roster.players
      /\ UNCHANGED pending /\ p \notin Humans
  BY PlayersAssumption, TeamsAssumption DEF IInv, RobotAdd, Everyone
<1>2. CASE UNCHANGED roster
  BY <1>1, <1>2, SoundStep DEF Running
<1>3. CASE \E b \in FreeBases(roster, t) : roster' = Joined(roster, p, t, b)
  <2>1. PICK b \in FreeBases(roster, t) : roster' = Joined(roster, p, t, b)
    BY <1>3
  <2>2. /\ Seated(roster') /\ roster'.players = roster.players \cup {p}
        /\ roster'.fault = roster.fault /\ roster'.NumPaused = roster.NumPaused
        /\ roster'.NumMembers[PauseTeam] = roster.NumMembers[PauseTeam]
    BY <1>1, <2>1, JoinKeeps DEF Sound
  <2>3. Sound(roster')
    BY <1>1, <2>2 DEF Sound
  <2> QED
    BY <1>1, <2>2, <2>3, SoundStep DEF Running
<1>4. CASE ~HasRoom(roster, t) /\ roster' = Crash(r, "robot_add")
  <2>1. ~RestrictRobots
    BY <1>4 DEF RobotAdd, RoomForRobot
  <2>2. /\ r \in Rosters /\ r.players = roster.players \cup {p} /\ r.team = roster.team
        /\ r.pl_state = roster.pl_state /\ r.NumMembers = roster.NumMembers
        /\ r.TeamRobots = roster.TeamRobots /\ r.NumPaused = roster.NumPaused
        /\ r.Swapper = roster.Swapper
    BY <1>1 DEF Sound, Seated, Rosters
  <2> HIDE DEF r
  <2>3. /\ roster' \in Rosters /\ roster'.players = r.players /\ roster'.team = r.team
        /\ roster'.pl_state = r.pl_state /\ roster'.NumMembers = r.NumMembers
        /\ roster'.TeamRobots = r.TeamRobots /\ roster'.NumPaused = r.NumPaused
        /\ roster'.Swapper = r.Swapper /\ roster'.fault = "robot_add"
    BY <1>4, <2>2 DEF Crash, Rosters, Faults
  <2>4. \A u \in Teams : Members(roster', u) = Members(roster, u)
    BY <1>1, <2>2, <2>3, TeamsAssumption DEF Members, Sound, Seated, Absent
  <2>5. Counted(roster')
    BY <1>1, <2>2, <2>3, <2>4 DEF Sound, Seated, Counted
  <2>6. Queued(roster')
    BY <1>1, <2>2, <2>3 DEF Sound, Seated, Queued
  <2>7. {q \in roster'.players : Paused(roster', q)} = {q \in roster.players : Paused(roster, q)}
    BY <1>1, <2>2, <2>3 DEF Paused, Sound, Seated, Absent
  <2>8. Broken(roster')
    BY <2>2, <2>3, <2>5, <2>6, <2>7 DEF Broken, IInv
  <2>9. Broken(roster)'
    BY <2>8, NextIsBroken
  <2> QED
    BY <1>1, <2>1, <2>2, <2>3, <2>9 DEF IInv, Defaults, Running
<1> QED
  BY <1>2, <1>3, <1>4 DEF RobotAdd, Joined

LEMMA ChangeHomeKeeps ==
  ASSUME IInv, NEW p \in Humans, NEW b \in Bases, ChangeHome(p, b)
  PROVE  IInv'
<1> DEFINE f == [q \in Everyone |-> IF q = p THEN b
                                    ELSE IF q \in roster.players /\ roster.home[q] = b
                                    THEN roster.home[p] ELSE roster.home[q]]
           s == [roster EXCEPT !.home = f]
<1>1. /\ Running /\ Sound(roster) /\ p \in roster.players /\ p \in Everyone /\ ~Paused(roster, p)
      /\ b # roster.home[p] /\ BaseTeam[b] = roster.team[p] /\ UNCHANGED pending
      /\ roster' = s
  BY DEF IInv, ChangeHome, Connected, MayTakeOver, Everyone
<1>2. /\ roster.players \subseteq Everyone /\ roster.home \in [Everyone -> Bases \cup {NoBase}]
  BY <1>1 DEF Sound, Seated, Rosters
<1>3. f \in [Everyone -> Bases \cup {NoBase}]
  BY <1>1, <1>2
<1>4. /\ f[p] = b
      /\ \A q \in roster.players \ {p} :
           f[q] = IF roster.home[q] = b THEN roster.home[p] ELSE roster.home[q]
  BY <1>1, <1>2
<1> HIDE DEF f
<1>5. s \in Rosters
  BY <1>1, <1>3 DEF Sound, Seated, Rosters
<1>6. /\ s.players = roster.players /\ s.team = roster.team /\ s.home = f
      /\ s.pl_state = roster.pl_state /\ s.NumMembers = roster.NumMembers
      /\ s.TeamRobots = roster.TeamRobots /\ s.NumPaused = roster.NumPaused
      /\ s.Swapper = roster.Swapper /\ s.fault = roster.fault
  BY <1>1 DEF Sound, Seated, Rosters
<1> HIDE DEF s
<1>7. roster.team[p] \in Teams \ {PauseTeam} /\ roster.home[p] \in Bases
      /\ BaseTeam[roster.home[p]] = roster.team[p]
  BY <1>1, PausedIsTeam DEF Sound, Seated, Placed
<1>8. Counted(s)
  BY <1>1, <1>6 DEF Sound, Seated, Counted, Members
<1>9. Placed(s)
  <2> SUFFICES ASSUME NEW z \in roster.players
               PROVE  /\ roster.team[z] \in Teams /\ roster.pl_state[z] = EntryState(roster.team[z])
                      /\ IF roster.team[z] = PauseTeam THEN f[z] = NoBase /\ z \in Humans
                         ELSE f[z] \in Bases /\ BaseTeam[f[z]] = roster.team[z]
    BY <1>6 DEF Placed
  <2>1. CASE z = p
    BY <1>1, <1>4, <1>7, <2>1 DEF Sound, Seated, Placed
  <2>2. CASE z # p /\ roster.home[z] = b
    <3>1. roster.team[z] # PauseTeam /\ BaseTeam[b] = roster.team[z]
      BY <1>1, <2>2, BasesAssumption DEF Sound, Seated, Placed
    <3> QED
      BY <1>1, <1>4, <1>7, <2>2, <3>1 DEF Sound, Seated, Placed
  <2>3. CASE z # p /\ roster.home[z] # b
    BY <1>1, <1>4, <2>3 DEF Sound, Seated, Placed
  <2> QED
    BY <2>1, <2>2, <2>3
<1>10. Exclusive(s)
  <2> SUFFICES ASSUME NEW y \in roster.players, NEW z \in roster.players, y # z, f[y] = f[z]
               PROVE  f[y] = NoBase
    BY <1>6 DEF Exclusive
  <2>1. \A v, u \in roster.players :
          v # u /\ roster.home[v] = roster.home[u] => roster.home[v] = NoBase
    BY <1>1 DEF Sound, Seated, Exclusive
  <2>2. y # p /\ z # p
    BY <1>1, <1>4
  <2>3. NoBase \notin Bases
    BY BasesAssumption
  <2> QED
    BY <1>1, <1>4, <1>7, <2>1, <2>2, <2>3
<1>11. Queued(s) /\ Absent(s)
  BY <1>1, <1>6 DEF Sound, Seated, Queued, Absent
<1>12. Sound(s)
  BY <1>1, <1>5, <1>6, <1>8, <1>9, <1>10, <1>11 DEF Sound, Seated
<1> QED
  BY <1>1, <1>6, <1>12, SoundStep DEF Running

LEMMA PauseKeeps ==
  ASSUME IInv, NEW p \in Humans, Pause(p)
  PROVE  IInv'
<1>1. /\ Running /\ Sound(roster) /\ p \in roster.players \cap Humans /\ ~Paused(roster, p)
      /\ roster' = PauseForced(roster, p) /\ UNCHANGED pending
  BY DEF IInv, Pause, Connected
<1>2. Sound(roster') /\ roster'.players \subseteq roster.players /\ roster'.fault = roster.fault
  BY <1>1, PauseForcedKeeps
<1> QED
  BY <1>1, <1>2, SoundStep DEF Running

LEMMA UnpauseKeeps ==
  ASSUME IInv, NEW p \in Humans, Unpause(p)
  PROVE  IInv' /\ roster'.players = roster.players
<1>1. /\ Running /\ Sound(roster) /\ p \in roster.players /\ Paused(roster, p) /\ UNCHANGED pending
  BY DEF IInv, Unpause, Connected
<1>2. PICK t \in TeamsForHuman(roster) : roster' \in Unpaused(roster, p, t)
  BY DEF Unpause
<1>3. Sound(roster') /\ roster'.players = roster.players /\ roster'.fault = roster.fault
  BY <1>1, <1>2, TeamsForHumanHaveRoom, UnpausedKeeps
<1> QED
  BY <1>1, <1>3, SoundStep DEF Running

LEMMA TeamCommandKeeps ==
  ASSUME IInv, Setting, NEW p \in Everyone, NEW t \in Teams, TeamCommand(p, t)
  PROVE  IInv' /\ roster'.players = roster.players
<1> DEFINE w == Unqueue(roster.Swapper, {p})
           r == [roster EXCEPT !.Swapper = Unqueue(@, {p})]
<1>1. Running /\ Sound(roster) /\ p \in roster.players \cap Humans /\ UNCHANGED pending
  BY DEF IInv, Setting, TeamCommand
<1>2. w \in [Teams -> (roster.players \cap Humans) \cup {Nobody}] /\ \A u \in Teams : w[u] # p
  BY <1>1, PlayersAssumption DEF Unqueue, Sound, Seated, Queued, Everyone
<1>3. /\ Sound(r) /\ r.players = roster.players /\ r.fault = roster.fault /\ r.team = roster.team
      /\ r.Swapper = w
  <2>1. r = [roster EXCEPT !.Swapper = w]
    OBVIOUS
  <2> HIDE DEF w, r
  <2>2. r.Swapper = w
    BY <1>1, <2>1 DEF Sound, Seated, Rosters
  <2> QED
    BY <1>1, <1>2, <2>1, <2>2, SwapperKeeps
<1>4. \/ roster' = Crash(r, "pause_base")
      \/ roster' = r
      \/ /\ t # r.team[p] /\ NumBases(t) # 0
         /\ \/ HasRoom(r, t) /\ roster' \in TeamCommandRoom(r, p, t)
            \/ ~HasRoom(r, t) /\ roster' \in TeamCommandFull(r, p, t)
  BY DEF TeamCommand
<1> HIDE DEF r, w
<1>5. CASE roster' = Crash(r, "pause_base")
  <2>1. Sound(roster') /\ roster'.players = roster.players /\ roster'.fault = "pause_base"
    BY <1>3, <1>5, CrashKeeps DEF Faults
  <2> QED
    BY <1>1, <2>1, SoundStep
<1>6. CASE roster' = r
  BY <1>1, <1>3, <1>6, SoundStep DEF Running
<1>7. CASE t # r.team[p] /\ NumBases(t) # 0 /\ HasRoom(r, t) /\ roster' \in TeamCommandRoom(r, p, t)
  <2>1. t # PauseTeam
    <3>1. t = PauseTeam => BasesOf(t) = {}
      BY DEF Setting, PauseApart, BasesOf
    <3> QED
      BY <1>7, <3>1, FS_EmptySet DEF NumBases
  <2>2. r.team[p] \in Teams
    BY <1>1, <1>3 DEF Sound, Seated, Placed
  <2>3. Sound(roster') /\ roster'.players = r.players /\ roster'.fault = r.fault
    BY <1>1, <1>2, <1>3, <1>7, <2>1, <2>2, CommandRoomKeeps
  <2> QED
    BY <1>1, <1>3, <2>3, SoundStep DEF Running
<1>8. CASE t # r.team[p] /\ roster' \in TeamCommandFull(r, p, t)
  <2>1. Sound(roster') /\ roster'.players = r.players /\ roster'.fault = r.fault
    BY <1>1, <1>3, <1>8, CommandFullKeeps
  <2> QED
    BY <1>1, <1>3, <2>1, SoundStep DEF Running
<1> QED
  BY <1>4, <1>5, <1>6, <1>7, <1>8

-----------------------------------------------------------------------------
(* The theorems.                                                           *)

LEMMA StepKeeps ==
  ASSUME IInv, Setting, [Next]_vars
  PROVE  IInv'
<1>1. ASSUME NEW h \in Humans, NEW t \in Teams \cup {NoTeam}, QueueLoop(h, t) PROVE IInv'
  BY <1>1, QueueLoopKeeps
<1>2. ASSUME NEW h \in Humans, PendingLost(h) PROVE IInv'
  BY <1>2, PendingLostKeeps
<1>3. ASSUME NEW h \in Humans, Login(h) PROVE IInv'
  BY <1>3, LoginKeeps DEF Setting
<1>4. ASSUME NEW p \in Everyone, Leave(p) PROVE IInv'
  BY <1>4, LeaveKeeps
<1>5. ASSUME NEW p \in Robots, RobotAdd(p) PROVE IInv'
  BY <1>5, RobotAddKeeps
<1>6. ASSUME NEW p \in Humans, NEW b \in Bases, ChangeHome(p, b) PROVE IInv'
  BY <1>6, ChangeHomeKeeps
<1>7. ASSUME NEW p \in Humans, Pause(p) PROVE IInv'
  BY <1>7, PauseKeeps
<1>8. ASSUME NEW p \in Humans, Unpause(p) PROVE IInv'
  BY <1>8, UnpauseKeeps
<1>9. ASSUME NEW p \in Everyone, NEW t \in Teams, TeamCommand(p, t) PROVE IInv'
  BY <1>9, TeamCommandKeeps
<1>10. CASE UNCHANGED vars
  BY <1>10 DEF vars, IInv, Defaults, RobotsComeAndGo, Broken, Counted, Queued, Sound, Seated,
     Placed, Exclusive, Absent, Members, Paused, Running
<1> QED
  BY <1>1, <1>2, <1>3, <1>4, <1>5, <1>6, <1>7, <1>8, <1>9, <1>10 DEF Next

\* The invariant holds however many players, teams and bases there are.
THEOREM InvariantHolds ==
  ASSUME Setting
  PROVE  Spec => []IInv
<1>1. IInv /\ [Next]_vars => IInv'
  BY StepKeeps
<1> QED
  BY <1>1, InitHolds, PTL DEF Spec

\* The variables keep their types, and no counter falls below zero.
THEOREM TypeCorrect ==
  ASSUME Setting
  PROVE  Spec => []TypeOK
<1>1. IInv => TypeOK
  <2> SUFFICES ASSUME IInv PROVE TypeOK
    OBVIOUS
  <2>1. roster \in Rosters /\ Counted(roster)
    BY DEF IInv, Broken
  <2>2. \A t \in Teams : roster.NumMembers[t] \in Nat /\ roster.TeamRobots[t] \in Nat
    BY <2>1, MembersFinite DEF Counted
  <2>3. roster.NumMembers \in [Teams -> Nat] /\ roster.TeamRobots \in [Teams -> Nat]
    BY <2>1, <2>2 DEF Rosters
  <2>4. roster.NumPaused \in Nat
    <3>1. {p \in roster.players : Paused(roster, p)} \in SUBSET roster.players
      OBVIOUS
    <3>2. IsFiniteSet({p \in roster.players : Paused(roster, p)})
      BY <2>1, <3>1, MembersFinite, FS_Subset
    <3>3. roster.NumPaused = Cardinality({p \in roster.players : Paused(roster, p)})
      BY DEF IInv, Broken
    <3> QED
      BY <3>2, <3>3, FS_CardinalityType
  <2> QED
    BY <2>1, <2>3, <2>4 DEF TypeOK, Rosters, States, Faults, IInv
<1> QED
  BY <1>1, InvariantHolds, PTL

\* The member counts of the teams, kept by hand in a dozen handlers
\* (player.c:376, 387), are right for every roster.
THEOREM MembersStayCounted ==
  ASSUME Setting
  PROVE  Spec => []MembersCounted
<1>1. IInv => MembersCounted
  BY DEF IInv, Broken, Counted, Members, MembersCounted
<1> QED
  BY <1>1, InvariantHolds, PTL

\* NumPaused is the number of pausers and of members of the pause team, and
\* never more than MAX_PAUSED_PLAYERS (player.c:740, 1022).
THEOREM PausersStayCounted ==
  ASSUME Setting
  PROVE  Spec => []PausedCounted
<1>1. IInv => PausedCounted
  BY PausedIsTeam DEF IInv, Broken, Sound, PausedCounted
<1> QED
  BY <1>1, InvariantHolds, PTL

\* Whoever plays has a home base of the own team and shares it with nobody,
\* through every trade and every change of home.
THEOREM HomesStayExclusive ==
  ASSUME Setting
  PROVE  Spec => []HomesAreExclusive
<1>1. IInv => HomesAreExclusive
  <2> SUFFICES ASSUME IInv, Running PROVE HomesAreExclusive
    BY DEF HomesAreExclusive
  <2>1. Sound(roster)
    BY DEF IInv
  <2>2. \A p \in roster.players : Paused(roster, p) <=> roster.team[p] = PauseTeam
    BY <2>1, PausedIsTeam DEF Sound
  <2>3. \A p \in roster.players :
          IF Paused(roster, p) THEN roster.home[p] = NoBase
          ELSE roster.home[p] \in Bases /\ BaseTeam[roster.home[p]] = roster.team[p]
    BY <2>1, <2>2 DEF Sound, Seated, Placed
  <2>4. \A p, q \in roster.players :
          p # q /\ roster.home[p] = roster.home[q] => roster.home[p] = NoBase
    BY <2>1 DEF Sound, Seated, Exclusive
  <2> QED
    BY <2>3, <2>4 DEF HomesAreExclusive
<1> QED
  BY <1>1, InvariantHolds, PTL

\* No team remembers a player who has left as one who waits for a place.
THEOREM SwapperStaysPresent ==
  ASSUME Setting
  PROVE  Spec => []SwapperIsPresent
<1>1. IInv => SwapperIsPresent
  BY DEF IInv, Broken, Queued, SwapperIsPresent
<1> QED
  BY <1>1, InvariantHolds, PTL

\* With the default options for robots no robot is added without a team, and
\* none is kicked by name of no player.
THEOREM RobotsAlwaysComeAndGo ==
  ASSUME Setting, ReserveRobotTeam, RestrictRobots
  PROVE  Spec => []RobotsComeAndGo
<1>1. IInv => RobotsComeAndGo
  BY DEF IInv, Defaults
<1> QED
  BY <1>1, InvariantHolds, PTL

\* Nobody is dropped from the game by asking to swap or to unpause, because a
\* team that has room has a free base.
THEOREM SwappingDropsNobody ==
  ASSUME Setting
  PROVE  Spec => NobodyDroppedBySwapping
<1> DEFINE Stays == \A p \in roster.players :
              (Unpause(p) \/ \E t \in Teams : TeamCommand(p, t)) => p \in roster'.players
<1>1. IInv /\ [Next]_vars => [Stays]_vars
  <2> SUFFICES ASSUME IInv, NEW p \in roster.players,
                      Unpause(p) \/ \E t \in Teams : TeamCommand(p, t)
               PROVE  p \in roster'.players
    OBVIOUS
  <2>1. p \in Everyone
    BY DEF IInv, Broken, Rosters
  <2>2. CASE Unpause(p)
    <3>1. p \in Humans
      BY <2>2 DEF Unpause, Connected
    <3> QED
      BY <2>2, <3>1, UnpauseKeeps
  <2>3. CASE \E t \in Teams : TeamCommand(p, t)
    BY <2>1, <2>3, TeamCommandKeeps
  <2> QED
    BY <2>2, <2>3
<1> QED
  BY <1>1, InvariantHolds, PTL DEF NobodyDroppedBySwapping, Spec
=============================================================================
