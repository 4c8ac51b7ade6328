--------------------------- MODULE AdmissionProofs ---------------------------
(***************************************************************************)
(* Whoever is let in has a base to play from and a nick of the own, and    *)
(* the queue serves its clients in order, for any number of clients,       *)
(* connections, bases and robots, and all time-outs.                       *)
(*                                                                         *)
(* Every handler of a connection leaves one that follows from the one it   *)
(* found (Follows): the same client, or none; in the game only if it was;  *)
(* and a drained one on its way to the setup or the login only, which is   *)
(* what keeps an acknowledgement from taking it anywhere else. The two     *)
(* steps that do not are the opening of a connection, which finds a base   *)
(* that nobody else counts on, and the login, which turns a connection     *)
(* that is counted into a player who is.                                   *)
(*                                                                         *)
(* The queue is read as two parts: the first n entries have a port, the    *)
(* others wait (Tidy). Whatever a handler does to it is told in terms of   *)
(* these parts (Goes), and each such change is a step of OrderedEntry.     *)
(***************************************************************************)
EXTENDS Admission, Counting

Items == {"confirm", "setup", "reply", "info"}

Connection(who) == [state : States, drain : States, who : {who}, age : Int,
                    setup : 0..SetupUnits, buf : Seq(Items), sent : Int, got : Int]

\* A connection that is drained towards the setup or the login, if at all.
Sound(c) == c \in Connection(c.who) /\ (c.state = "DRAIN" => c.drain \in {"SETUP", "LOGIN"})

\* What a handler may make of a connection.
Follows(c, d) ==
  /\ Sound(d)
  /\ d.state # "FREE" => c.state # "FREE" /\ d.who = c.who
  /\ InGame(d) => InGame(c)
  /\ InGame(c) => InGame(d) \/ d.state = "FREE"

Same(c, d) == Sound(d) /\ d.state = c.state /\ d.who = c.who /\ d.drain = c.drain

InTheGame(new) == {new[s].who : s \in {t \in Slots : InGame(new[t])}}

IInv ==
  /\ conn = [s \in Slots |-> conn[s]]
  /\ \A s \in Slots : Sound(conn[s])
  /\ logins \in Int /\ robots \in Nat
  /\ SeatForEveryLogin
  /\ OneConnectionPerNick
-----------------------------------------------------------------------------
(* What the handlers of one connection leave behind.                       *)

LEMMA SameFollows ==
  ASSUME NEW c, NEW d, Same(c, d)
  PROVE  Follows(c, d)
BY DEF Same, Follows, InGame

LEMMA FollowsTwice ==
  ASSUME NEW c, NEW d, NEW e, Follows(c, d), Follows(d, e)
  PROVE  Follows(c, e)
BY DEF Follows, InGame

LEMMA NothingFollows ==
  ASSUME NEW c
  PROVE  Follows(c, Free) /\ Free.state = "FREE"
<1>1. <<>> \in Seq(Items) /\ 0 \in 0..SetupUnits
  BY ConnectionAssumption DEF ConnectionAssumption
<1> QED
  BY <1>1 DEF Follows, Sound, Connection, States, InGame, Free

LEMMA WrittenIsSame ==
  ASSUME NEW c, Sound(c), NEW items \in Seq(Items)
  PROVE  Same(c, Write(c, items))
<1>1. c.buf \o items \in Seq(Items)
  BY DEF Sound, Connection
<1> QED
  BY <1>1 DEF Same, Sound, Connection, Write

LEMMA SentIsSame ==
  ASSUME NEW c, Sound(c)
  PROVE  /\ \A d \in Sent(c) : Same(c, d)
         /\ \A d \in SendReliable(c) : Same(c, d)
<1>1. \A d \in Sent(c) : Same(c, d)
  <2> SUFFICES ASSUME NEW n \in c.got..Len(c.buf)
               PROVE  Same(c, [c EXCEPT !.sent = Len(c.buf), !.got = n])
    BY DEF Sent
  <2>1. Len(c.buf) \in Int /\ n \in Int
    BY DEF Sound, Connection
  <2> QED
    BY <2>1 DEF Same, Sound, Connection
<1>2. Same(c, c)
  BY DEF Same
<1> QED
  BY <1>1, <1>2 DEF SendReliable

LEMMA StateIsSet ==
  ASSUME NEW c, Sound(c), NEW state \in States, NEW drain \in States,
         state = "DRAIN" => drain \in {"SETUP", "LOGIN"}
  PROVE  /\ Sound(SetState(c, state, drain))
         /\ SetState(c, state, drain).state = state
         /\ SetState(c, state, drain).who = c.who
<1>1. SetState(c, state, drain) \in Connection(c.who)
  <2> DEFINE a == [c EXCEPT !.state = state]
             b == [a EXCEPT !.drain = drain]
  <2>1. a \in Connection(c.who)
    BY DEF Sound, Connection
  <2> HIDE DEF a
  <2>2. b \in Connection(c.who)
    BY <2>1 DEF Connection
  <2> HIDE DEF b
  <2>3. [b EXCEPT !.age = 0] \in Connection(c.who)
    BY <2>2 DEF Connection
  <2>4. SetState(c, state, drain) = [b EXCEPT !.age = 0]
    BY DEF SetState, a, b
  <2> QED
    BY <2>3, <2>4
<1>2. /\ SetState(c, state, drain).state = state
      /\ SetState(c, state, drain).drain = drain
      /\ SetState(c, state, drain).who = c.who
  BY DEF Sound, Connection, SetState
<1> QED
  BY <1>1, <1>2 DEF Sound

LEMMA VerifiedFollows ==
  ASSUME NEW c, Sound(c), c.state = "LISTENING", NEW d \in Verified(c)
  PROVE  Follows(c, d) /\ ~InGame(d)
<1>1. PICK e \in Sent(Write(c, <<"confirm">>)) : d = SetState(e, "DRAIN", "SETUP")
  BY DEF Verified
<1>2. Sound(e) /\ e.who = c.who
  <2>1. <<"confirm">> \in Seq(Items)
    BY DEF Items
  <2>2. Same(c, Write(c, <<"confirm">>))
    BY <2>1, WrittenIsSame
  <2> QED
    BY <1>1, <2>2, SentIsSame DEF Same
<1>3. "DRAIN" \in States /\ "SETUP" \in States
  BY DEF States
<1>4. Sound(d) /\ d.state = "DRAIN" /\ d.who = c.who
  BY <1>1, <1>2, <1>3, StateIsSet
<1> QED
  BY <1>4 DEF Follows, InGame

(* An acknowledgement takes a connection nowhere but to its drain state.   *)
LEMMA AckedFollows ==
  ASSUME NEW c, Sound(c), NEW k \in Nat
  PROVE  /\ Follows(c, Acked(c, k))
         /\ Acked(c, k).state # "FREE" \/ c.state = "FREE"
         /\ c.state = "SETUP" => Acked(c, k).state = "SETUP"
<1> DEFINE rest == [c EXCEPT !.buf = SubSeq(@, k + 1, Len(@)), !.sent = @ - k, !.got = @ - k]
           none == [rest EXCEPT !.buf = <<>>, !.sent = 0, !.got = 0]
           fresh == [rest EXCEPT !.age = 0]
<1>1. Same(c, rest)
  <2>1. SubSeq(c.buf, k + 1, Len(c.buf)) \in Seq(Items)
    <3>1. c.buf \in Seq(Items) /\ Len(c.buf) \in Nat
      BY DEF Sound, Connection
    <3> QED
      BY <3>1, SMT
  <2>2. c.sent - k \in Int /\ c.got - k \in Int
    BY DEF Sound, Connection
  <2> QED
    BY <2>1, <2>2 DEF Same, Sound, Connection
<1> HIDE DEF rest
<1>2. Same(c, none) /\ Same(c, fresh)
  <2>1. <<>> \in Seq(Items)
    OBVIOUS
  <2>2. none \in Connection(c.who) /\ fresh \in Connection(c.who)
    <3> DEFINE a == [rest EXCEPT !.buf = <<>>]
               b == [a EXCEPT !.sent = 0]
    <3>0. rest \in Connection(c.who)
      BY <1>1 DEF Same, Sound
    <3>1. a \in Connection(c.who)
      BY <2>1, <3>0 DEF Connection
    <3>4. fresh \in Connection(c.who)
      BY <3>0 DEF Connection
    <3>2. none = [b EXCEPT !.got = 0]
      OBVIOUS
    <3> HIDE DEF a, none, fresh
    <3>3. b \in Connection(c.who)
      BY <3>1 DEF Connection
    <3> HIDE DEF b
    <3>5. [b EXCEPT !.got = 0] \in Connection(c.who)
      BY <3>3 DEF Connection
    <3> QED
      BY <3>2, <3>4, <3>5
  <2>3. /\ none.state = rest.state /\ none.drain = rest.drain /\ none.who = rest.who
        /\ fresh.state = rest.state /\ fresh.drain = rest.drain /\ fresh.who = rest.who
    BY <1>1 DEF Same, Sound, Connection
  <2> QED
    BY <1>1, <2>2, <2>3 DEF Same, Sound
<1> HIDE DEF none, fresh
<1>3. Acked(c, k) =
        IF c.state = "DRAIN" /\ rest.sent = 0 THEN SetState(rest, c.drain, c.drain)
        ELSE IF c.state = "READY" /\ (rest.buf = <<>> \/ Head(rest.buf) # "reply")
             THEN SetState(none, "PLAYING", "PLAYING")
        ELSE IF c.state = "PLAYING" THEN fresh
        ELSE rest
  BY DEF Acked, rest, none, fresh
<1>4. CASE c.state = "DRAIN" /\ rest.sent = 0
  <2>1. c.drain \in {"SETUP", "LOGIN"}
    BY <1>4 DEF Sound
  <2>2. LET d == SetState(rest, c.drain, c.drain)
        IN Sound(d) /\ d.state = c.drain /\ d.who = c.who
    BY <1>1, <2>1, StateIsSet DEF Same, States
  <2> QED
    BY <1>3, <1>4, <2>1, <2>2 DEF Follows, InGame
<1>5. CASE c.state = "READY" /\ (rest.buf = <<>> \/ Head(rest.buf) # "reply")
  <2>1. LET d == SetState(none, "PLAYING", "PLAYING")
        IN Sound(d) /\ d.state = "PLAYING" /\ d.who = c.who
    BY <1>2, StateIsSet DEF Same, States
  <2> QED
    BY <1>3, <1>5, <2>1 DEF Follows, InGame
<1>6. CASE /\ ~(c.state = "DRAIN" /\ rest.sent = 0)
           /\ ~(c.state = "READY" /\ (rest.buf = <<>> \/ Head(rest.buf) # "reply"))
  <2>1. Acked(c, k) \in {fresh, rest}
    BY <1>3, <1>6
  <2>2. Same(c, Acked(c, k))
    BY <1>1, <1>2, <2>1
  <2> QED
    BY <2>2, SameFollows DEF Same
<1> QED
  BY <1>4, <1>5, <1>6

LEMMA ChunkFollows ==
  ASSUME NEW c, Sound(c), c.state = "SETUP"
  PROVE  Follows(c, NextChunk(c))
<1> DEFINE room == Chunk - Len(c.buf)
           n == Min({room, SetupUnits - c.setup})
           w == Write(c, [i \in 1..n |-> "setup"])
           d == [w EXCEPT !.setup = @ + n, !.age = @ - Extension]
<1>1. NextChunk(c) = IF room <= 0 THEN c
                     ELSE IF d.setup = SetupUnits THEN SetState(d, "DRAIN", "LOGIN") ELSE d
  BY DEF NextChunk
<1>2. CASE room <= 0
  BY <1>1, <1>2 DEF Follows
<1>3. CASE room > 0
  <2>1. /\ room \in Int /\ c.setup \in 0..SetupUnits /\ SetupUnits \in Nat
    BY ConnectionAssumption DEF Sound, Connection, ConnectionAssumption
  <2>2. n \in Nat /\ c.setup + n \in 0..SetupUnits
    <3>1. n = IF room < SetupUnits - c.setup THEN room ELSE SetupUnits - c.setup
      BY <2>1, LesserOfTwo
    <3> QED
      BY <1>3, <2>1, <3>1, SMT
  <2> HIDE DEF room, n
  <2>3. [i \in 1..n |-> "setup"] \in Seq(Items)
    <3>1. "setup" \in Items
      BY DEF Items
    <3> QED
      BY <2>2, <3>1, SMT
  <2>4. Same(c, w) /\ w.setup = c.setup
    <3>1. Same(c, w)
      BY <2>3, WrittenIsSame
    <3>2. w.setup = c.setup
      BY DEF Write, Sound, Connection
    <3> QED
      BY <3>1, <3>2
  <2> HIDE DEF w
  <2>5. Same(c, d)
    <3>1. w.setup + n \in 0..SetupUnits /\ w.age - Extension \in Int
      <4>1. w.age \in Int
        BY <2>4 DEF Same, Sound, Connection
      <4>2. Extension \in Int
        BY ConnectionAssumption DEF ConnectionAssumption
      <4>3. w.setup + n \in 0..SetupUnits
        BY <2>2, <2>4
      <4> HIDE DEF n
      <4> QED
        BY <4>1, <4>2, <4>3
    <3> QED
      BY <2>4, <3>1 DEF Same, Sound, Connection
  <2> HIDE DEF d
  <2>6. Follows(c, SetState(d, "DRAIN", "LOGIN"))
    BY <2>5, StateIsSet DEF Same, Follows, InGame, States
  <2> QED
    BY <1>1, <1>3, <2>1, <2>5, <2>6, SameFollows
<1> QED
  <2>1. room \in Int
    BY ConnectionAssumption DEF Sound, Connection, ConnectionAssumption
  <2> QED
    BY <1>2, <1>3, <2>1

LEMMA SetupFollows ==
  ASSUME NEW c, Sound(c), c.state = "SETUP", NEW d \in HandleSetup(c)
  PROVE  Follows(c, d)
<1>1. \A e \in AfterAck(c) : Follows(c, e) /\ e.state = "SETUP"
  <2>1. \A k \in 1..c.got : k \in Nat
    BY DEF Sound, Connection
  <2> QED
    BY <2>1, AckedFollows DEF AfterAck
<1>2. \A e \in {c} \cup AfterAck(c) : Follows(c, NextChunk(e))
  BY <1>1, ChunkFollows, FollowsTwice DEF Follows
<1> QED
  BY <1>2, NothingFollows DEF HandleSetup

LEMMA InputFollows ==
  ASSUME NEW c, Sound(c), NEW d \in InputOn(Older(c))
  PROVE  Follows(c, d)
<1> DEFINE o == Older(c)
<1>1. Same(c, o)
  <2>1. c.age + 1 \in Int /\ Timeout(c) + 1 \in Int
    BY ConnectionAssumption DEF Sound, Connection, Timeout, ConnectionAssumption
  <2>2. Min({c.age + 1, Timeout(c) + 1}) \in Int
    BY <2>1, LesserOfTwo
  <2> QED
    BY <2>2 DEF Older, Same, Sound, Connection
<1> HIDE DEF o
<1>2. Follows(c, o) /\ Sound(o)
  BY <1>1, SameFollows DEF Same
<1>3. CASE o.state = "FREE" \/ TimedOut(o)
  BY <1>3, NothingFollows DEF InputOn, o
<1>4. CASE ~(o.state = "FREE" \/ TimedOut(o)) /\ o.state \in {"LISTENING", "PLAYING"}
  BY <1>2, <1>4 DEF InputOn, o
<1>5. CASE ~(o.state = "FREE" \/ TimedOut(o)) /\ o.state \notin {"LISTENING", "PLAYING"}
  <2>1. PICK e \in IF o.state = "SETUP" THEN HandleSetup(o) ELSE {o} :
          d \in IF e.state \notin {"FREE"} /\ e.buf # <<>> THEN SendReliable(e) ELSE {e}
    BY <1>5 DEF InputOn, o
  <2>2. Follows(o, e)
    BY <1>2, <2>1, SetupFollows DEF Follows
  <2>3. Same(e, d)
    BY <2>1, <2>2, SentIsSame DEF Follows, Same
  <2> QED
    BY <1>2, <2>2, <2>3, SameFollows, FollowsTwice
<1> QED
  BY <1>3, <1>4, <1>5
-----------------------------------------------------------------------------
(* The table of connections.                                               *)

\* What becomes of the counters and the players when every connection
\* follows from the one before.
AllFollow(new) ==
  /\ new = [s \in Slots |-> new[s]]
  /\ \A s \in Slots : Follows(conn[s], new[s])

LEMMA LoginsSink ==
  ASSUME IsFiniteSet(Slots), logins \in Int, NEW new, AllFollow(new), Counted(new)
  PROVE  conn' = new /\ logins' \in Int /\ logins' <= logins
<1> DEFINE more == {s \in Slots : Logging(new[s]) /\ ~Logging(conn[s])}
           less == {s \in Slots : ~Logging(new[s]) /\ Logging(conn[s])}
<1>1. conn' = new /\ logins' = logins + Cardinality(more) - Cardinality(less)
  BY DEF Counted
<1>2. more = {}
  <2> SUFFICES ASSUME NEW s \in Slots, Logging(new[s])
               PROVE  Logging(conn[s])
    OBVIOUS
  <2>1. Follows(conn[s], new[s])
    BY DEF AllFollow
  <2> QED
    BY <2>1 DEF Follows, Logging, InGame
<1>3. Cardinality(less) \in Nat
  BY FS_Subset, FS_CardinalityType
<1> HIDE DEF more, less
<1> QED
  BY <1>1, <1>2, <1>3, FS_EmptySet

(* Of the players those stay whose connections do.                         *)
LEMMA PlayersStay ==
  ASSUME OneConnectionPerNick, NEW new, AllFollow(new)
  PROVE  /\ Vacated(new) = InTheGame(new)
         /\ \A s, t \in Slots : new[s].state # "FREE" /\ new[t].state # "FREE"
              /\ NickOf[new[s].who] = NickOf[new[t].who] => s = t
<1>1. \A s \in Slots : Follows(conn[s], new[s])
  BY DEF AllFollow
<1>2. \A s, t \in Slots : InGame(conn[s]) /\ InGame(conn[t]) /\ conn[s].who = conn[t].who => s = t
  BY DEF OneConnectionPerNick, InGame
<1>3. \A s \in Slots : InGame(new[s]) => InGame(conn[s]) /\ new[s].who = conn[s].who
  BY <1>1 DEF Follows, InGame
<1>4. players = {conn[s].who : s \in {t \in Slots : InGame(conn[t])}}
  BY DEF OneConnectionPerNick
<1>5. Vacated(new) = InTheGame(new)
  BY <1>2, <1>3, <1>4 DEF Vacated, InTheGame
<1>6. \A s, t \in Slots : new[s].state # "FREE" /\ new[t].state # "FREE"
              /\ NickOf[new[s].who] = NickOf[new[t].who] => s = t
  BY <1>1 DEF Follows, OneConnectionPerNick
<1> QED
  BY <1>5, <1>6

LEMMA FinitePlayers ==
  ASSUME IsFiniteSet(Slots), OneConnectionPerNick
  PROVE  IsFiniteSet(players)
<1> DEFINE G == {t \in Slots : InGame(conn[t])}
<1>1. IsFiniteSet(G)
  BY FS_Subset
<1>2. IsFiniteSet({conn[s].who : s \in G})
  <2> DEFINE whoOf == [s \in G |-> conn[s].who]
  <2>1. {conn[s].who : s \in G} = {whoOf[s] : s \in G}
    OBVIOUS
  <2>2. whoOf \in Surjection(G, {whoOf[s] : s \in G})
    BY DEF Surjection
  <2> HIDE DEF whoOf, G
  <2>3. IsFiniteSet({whoOf[s] : s \in G})
    BY <1>1, <2>2, FS_Surjection
  <2> QED
    BY <2>1, <2>3
<1> QED
  BY <1>2 DEF OneConnectionPerNick

(* A step in which nobody comes.                                           *)
LEMMA NobodyComes ==
  ASSUME IsFiniteSet(Slots), IInv,
         NEW new, AllFollow(new), Counted(new), players' = Vacated(new),
         robots' \in Nat, robots' <= robots
  PROVE  IInv'
<1>1. conn' = new /\ logins' \in Int /\ logins' <= logins
  BY LoginsSink DEF IInv
<1>2. OneConnectionPerNick'
  BY <1>1, PlayersStay DEF IInv, OneConnectionPerNick, InTheGame
<1>3. players' \subseteq players
  BY DEF Vacated
<1>4. /\ IsFiniteSet(players) /\ Cardinality(players) \in Nat
      /\ Cardinality(players') \in Nat /\ Cardinality(players') <= Cardinality(players)
  BY <1>3, FinitePlayers, FS_Subset, FS_CardinalityType DEF IInv
<1>5. SeatForEveryLogin'
  BY <1>1, <1>4, AdmissionAssumption DEF IInv, SeatForEveryLogin, NumPlayers, AdmissionAssumption
<1>6. conn' = [s \in Slots |-> conn'[s]] /\ \A s \in Slots : Sound(conn'[s])
  BY <1>1 DEF AllFollow, Follows
<1> QED
  BY <1>1, <1>2, <1>5, <1>6 DEF IInv

(* One connection follows from what it was, nothing else happens.          *)
LEMMA OneFollows ==
  ASSUME IsFiniteSet(Slots), IInv,
         NEW s \in Slots, NEW d, Follows(conn[s], d), Put(s, d), UNCHANGED robots,
         players' = Vacated([conn EXCEPT ![s] = d])
  PROVE  IInv'
<1> DEFINE new == [conn EXCEPT ![s] = d]
<1>1. AllFollow(new)
  BY DEF IInv, AllFollow, Follows
<1>2. Counted(new)
  BY DEF Put
<1>3. robots' \in Nat /\ robots' <= robots
  BY DEF IInv
<1> HIDE DEF new
<1> QED
  BY <1>1, <1>2, <1>3, NobodyComes DEF new

(* Who stays in the game stays a player.                                   *)
LEMMA NobodyLeaves ==
  ASSUME conn = [t \in Slots |-> conn[t]], NEW s \in Slots, NEW d, InGame(conn[s]) => InGame(d)
  PROVE  Vacated([conn EXCEPT ![s] = d]) = players
<1> DEFINE new == [conn EXCEPT ![s] = d]
<1>1. \A t \in Slots : new[t] = IF t = s THEN d ELSE conn[t]
  OBVIOUS
<1> HIDE DEF new
<1>2. {t \in Slots : InGame(conn[t]) /\ ~InGame(new[t])} = {}
  BY <1>1
<1> QED
  BY <1>2 DEF Vacated, new

LEMMA VerifyKeeps ==
  ASSUME IsFiniteSet(Slots), IInv, NEW s \in Slots, Verify(s)
  PROVE  IInv'
<1>1. Sound(conn[s]) /\ conn[s].state = "LISTENING"
  <2>1. Sound(conn[s]) /\ conn[s].state \in States
    BY DEF IInv, Sound, Connection
  <2>2. "verify" \in Handled(conn[s].state)
    BY DEF Verify
  <2> QED
    BY <2>1, <2>2 DEF Handled
<1>2. PICK d \in Verified(conn[s]) : Put(s, d)
  BY DEF Verify
<1>3. Follows(conn[s], d)
  BY <1>1, VerifiedFollows
<1>4. Vacated([conn EXCEPT ![s] = d]) = players
  BY <1>1, NobodyLeaves DEF IInv, InGame
<1> QED
  BY <1>2, <1>3, <1>4, OneFollows DEF Verify

LEMMA ReceiveAckKeeps ==
  ASSUME IsFiniteSet(Slots), IInv, NEW s \in Slots, ReceiveAck(s)
  PROVE  IInv'
<1>1. PICK d \in AfterAck(conn[s]) : Put(s, d)
  BY DEF ReceiveAck
<1>2. Sound(conn[s])
  BY DEF IInv
<1>3. PICK k \in 1..conn[s].got : d = Acked(conn[s], k)
  BY <1>1 DEF AfterAck
<1>4. k \in Nat
  BY <1>2, <1>3 DEF Sound, Connection
<1>5. Follows(conn[s], d) /\ (d.state # "FREE" \/ conn[s].state = "FREE")
  BY <1>2, <1>3, <1>4, AckedFollows
<1>6. Vacated([conn EXCEPT ![s] = d]) = players
  BY <1>5, NobodyLeaves DEF IInv, Follows, InGame
<1> QED
  BY <1>1, <1>5, <1>6, OneFollows DEF ReceiveAck

LEMMA PlayOnKeeps ==
  ASSUME IsFiniteSet(Slots), IInv, NEW s \in Slots, PlayOn(s)
  PROVE  IInv'
<1> DEFINE d == [conn[s] EXCEPT !.age = 0]
<1>1. Follows(conn[s], d) /\ d.state = conn[s].state
  <2>1. Same(conn[s], d)
    <3>1. Sound(conn[s])
      BY DEF IInv
    <3> QED
      BY <3>1 DEF Same, Sound, Connection
  <2> QED
    BY <2>1, SameFollows DEF Same
<1>2. Put(s, d)
  BY DEF PlayOn
<1> HIDE DEF d
<1>3. Vacated([conn EXCEPT ![s] = d]) = players
  BY <1>1, NobodyLeaves DEF IInv, InGame
<1> QED
  BY <1>1, <1>2, <1>3, OneFollows DEF PlayOn

LEMMA HangupKeeps ==
  ASSUME IsFiniteSet(Slots), IInv, NEW s \in Slots, Hangup(s)
  PROVE  IInv'
BY NothingFollows, OneFollows DEF Hangup

LEMMA InputKeeps ==
  ASSUME IsFiniteSet(Slots), IInv, Input
  PROVE  IInv'
<1>1. PICK new \in [Slots -> UNION {InputOn(Older(conn[s])) : s \in Slots}] :
        /\ \A s \in Slots : new[s] \in InputOn(Older(conn[s]))
        /\ Counted(new)
        /\ players' = Vacated(new)
  BY DEF Input
<1>2. AllFollow(new)
  BY <1>1, InputFollows DEF IInv, AllFollow
<1>3. robots' \in Nat /\ robots' <= robots
  BY DEF Input, IInv
<1> QED
  BY <1>1, <1>2, <1>3, NobodyComes

(* A robot goes.                                                           *)
LEMMA KickRobotKeeps ==
  ASSUME IsFiniteSet(Slots), IInv, KickRobot
  PROVE  IInv'
<1>1. robots' \in Nat /\ robots' <= robots
  BY DEF KickRobot, IInv
<1>2. Cardinality(players) \in Nat
  BY FinitePlayers, FS_CardinalityType DEF IInv
<1>3. SeatForEveryLogin'
  BY <1>1, <1>2, AdmissionAssumption DEF KickRobot, IInv, SeatForEveryLogin, NumPlayers, AdmissionAssumption
<1>4. OneConnectionPerNick'
  BY DEF KickRobot, IInv, OneConnectionPerNick
<1> QED
  BY <1>1, <1>3, <1>4 DEF KickRobot, IInv

(* The login: one connection less that is counted, one player more.        *)
LEMMA LoginKeeps ==
  ASSUME IsFiniteSet(Slots), IInv, NEW s \in Slots, Login(s)
  PROVE  IInv'
<1> DEFINE c == conn[s]
           d == SetState(Write(c, <<"reply", "info">>), "READY", "PLAYING")
           new == [conn EXCEPT ![s] = d]
<1>1. Sound(c) /\ c.state = "LOGIN" /\ ~InGame(c) /\ Logging(c) /\ UNCHANGED robots
  BY DEF Login, IInv, InGame, Logging
<1>2. CASE Put(s, Free) /\ UNCHANGED players
  <2>1. Vacated([conn EXCEPT ![s] = Free]) = players
    BY <1>1, NobodyLeaves DEF IInv
  <2> QED
    BY <1>1, <1>2, <2>1, NothingFollows, OneFollows
<1>3. CASE Put(s, d) /\ players' = players \cup {c.who}
  <2>1. Sound(d) /\ d.state = "READY" /\ d.who = c.who
    <3>1. <<"reply", "info">> \in Seq(Items)
      BY DEF Items
    <3>2. Same(c, Write(c, <<"reply", "info">>))
      BY <1>1, <3>1, WrittenIsSame
    <3> QED
      BY <3>2, StateIsSet DEF Same, States
  <2>2. InGame(d) /\ ~Logging(d)
    BY <2>1 DEF InGame, Logging
  <2> HIDE DEF c, d
  <2>3. /\ new = [t \in Slots |-> new[t]]
        /\ \A t \in Slots : new[t] = IF t = s THEN d ELSE conn[t]
    BY DEF IInv
  <2>4. c = conn[s]
    BY DEF c
  <2> HIDE DEF new
  <2>5. conn' = new /\ logins' = logins - 1
    <3>1. {t \in Slots : Logging(new[t]) /\ ~Logging(conn[t])} = {}
      BY <2>2, <2>3
    <3>2. {t \in Slots : ~Logging(new[t]) /\ Logging(conn[t])} = {s}
      BY <1>1, <2>2, <2>3, <2>4
    <3>3. Counted(new)
      BY <1>3 DEF Put, new
    <3>4. conn' = new /\ logins' = logins + Cardinality({}) - Cardinality({s})
      BY <3>1, <3>2, <3>3 DEF Counted
    <3> QED
      <4>1. Cardinality({}) = 0 /\ Cardinality({s}) = 1
        BY FS_EmptySet, FS_Singleton
      <4>2. logins \in Int
        BY DEF IInv
      <4> QED
        BY <3>4, <4>1, <4>2
  <2>6. OneConnectionPerNick'
    <3>1. \A t \in Slots : /\ new[t].state # "FREE" => conn[t].state # "FREE"
                           /\ new[t].who = conn[t].who
      BY <1>1, <2>1, <2>3, <2>4
    <3>2. \A t, u \in Slots : conn'[t].state # "FREE" /\ conn'[u].state # "FREE"
            /\ NickOf[conn'[t].who] = NickOf[conn'[u].who] => t = u
      BY <2>5, <3>1 DEF IInv, OneConnectionPerNick
    <3>3. \A t \in Slots : InGame(new[t]) <=> InGame(conn[t]) \/ t = s
      BY <2>2, <2>3
    <3>4. players = {conn[t].who : t \in {u \in Slots : InGame(conn[u])}}
      BY DEF IInv, OneConnectionPerNick
    <3>5. players' = {new[t].who : t \in {u \in Slots : InGame(new[u])}}
      BY <1>3, <2>4, <3>1, <3>3, <3>4
    <3> QED
      BY <2>5, <3>2, <3>5 DEF OneConnectionPerNick
  <2>7. /\ Cardinality(players) \in Nat /\ Cardinality(players') \in Nat
        /\ Cardinality(players') <= Cardinality(players) + 1
    <3>1. IsFiniteSet(players)
      BY FinitePlayers DEF IInv
    <3>2. /\ IsFiniteSet(players \cup {c.who})
          /\ \/ Cardinality(players \cup {c.who}) = Cardinality(players)
             \/ Cardinality(players \cup {c.who}) = Cardinality(players) + 1
      BY <3>1, FS_AddElement
    <3>3. Cardinality(players) \in Nat /\ Cardinality(players \cup {c.who}) \in Nat
      BY <3>1, <3>2, FS_CardinalityType
    <3> QED
      BY <1>3, <3>2, <3>3
  <2>8. SeatForEveryLogin'
    BY <1>1, <2>5, <2>7, AdmissionAssumption DEF IInv, SeatForEveryLogin, NumPlayers, AdmissionAssumption
  <2>9. \A t \in Slots : Sound(conn'[t])
    BY <2>1, <2>3, <2>5 DEF IInv
  <2>10. logins' \in Int /\ robots' \in Nat
    BY <1>1, <2>5 DEF IInv
  <2>11. conn' = [t \in Slots |-> conn'[t]]
    BY <2>3, <2>5
  <2> QED
    BY <2>6, <2>8, <2>9, <2>10, <2>11 DEF IInv
<1> QED
  BY <1>2, <1>3 DEF Login
-----------------------------------------------------------------------------
(* The queue lets somebody in.                                             *)

\* With n robots a connection is opened in slot s, and there is a base for it.
Opening(s, who, n) ==
  /\ conn[s].state = "FREE" /\ Put(s, Opened(who))
  /\ \A t \in Slots : conn[t].state # "FREE" => NickOf[conn[t].who] # NickOf[who]
  /\ Cardinality(players) + n + logins < NumBases

LEMMA QueueLoopOpens ==
  ASSUME IsFiniteSet(Slots), IInv, NEW kicked \in 0..1, QueueLoop(kicked)
  PROVE  /\ kicked <= robots
         /\ \/ UNCHANGED <<conn, logins>>
            \/ \E s \in Slots : \E who : Opening(s, who, robots - kicked)
<1>1. CASE kicked = 0 /\ UNCHANGED <<conn, logins>>
  BY <1>1 DEF IInv
<1>2. CASE \E q, first : kicked \in KickedInVain(q, first) /\ UNCHANGED <<conn, logins>>
  BY <1>2 DEF KickedInVain, IInv
<1>3. CASE \E q, first : LetIn(q, first, kicked)
  <2>1. PICK q, first : LetIn(q, first, kicked)
    BY <1>3
  <2> DEFINE who == q[first].who
             slots == SetupSlot(conn, who)
  <2>2. /\ kicked <= robots
        /\ Cardinality(players) + (robots - kicked) + logins < NumBases
    <3>1. Cardinality(players) \in Nat
      BY FinitePlayers, FS_CardinalityType DEF IInv
    <3> QED
      BY <2>1, <3>1, AdmissionAssumption DEF LetIn, BaseFor, NumPlayers, IInv, AdmissionAssumption
  <2>3. CASE UNCHANGED <<conn, logins>>
    BY <2>2, <2>3
  <2>4. CASE \E s \in slots : conn[s].state = "FREE" /\ Put(s, Opened(who))
    <3>1. PICK s \in slots : conn[s].state = "FREE" /\ Put(s, Opened(who))
      BY <2>4
    <3>2. Holders(conn, who) = {}
      <4>1. s \notin Again(conn, who)
        BY <3>1 DEF Again
      <4> QED
        BY <4>1 DEF SetupSlot
    <3>3. s \in FreeSlots(conn)
      <4>1. FreeSlots(conn) # {} /\ s = Min(FreeSlots(conn))
        BY <3>2 DEF SetupSlot
      <4>2. FreeSlots(conn) \in SUBSET Nat
        BY ConnectionAssumption DEF FreeSlots, ConnectionAssumption
      <4> QED
        BY <4>1, <4>2, LeastIsThere
    <3>4. Opening(s, who, robots - kicked)
      BY <2>2, <3>1, <3>2 DEF Opening, Holders
    <3> QED
      BY <2>2, <3>3, <3>4 DEF FreeSlots
  <2> QED
    BY <2>1, <2>3, <2>4 DEF LetIn
<1> QED
  BY <1>1, <1>2, <1>3 DEF QueueLoop

LEMMA EndLoopKeeps ==
  ASSUME IsFiniteSet(Slots), IInv, EndLoop
  PROVE  IInv'
<1>1. PICK kicked \in 0..1 : QueueLoop(kicked) /\ RobotAddRemove(robots - kicked)
  BY DEF EndLoop
<1> DEFINE n == robots - kicked
<1>2. /\ n \in Nat /\ n <= robots
      /\ \/ UNCHANGED <<conn, logins>>
         \/ \E s \in Slots : \E who : Opening(s, who, n)
  <2>1. robots \in Nat
    BY DEF IInv
  <2> QED
    BY <1>1, <2>1, QueueLoopOpens
<1> HIDE DEF n
<1>3. RobotAddRemove(n) /\ UNCHANGED players
  BY <1>1 DEF EndLoop, n
<1>4. Cardinality(players) \in Nat /\ NumBases \in Nat /\ MaxRobots \in Nat
  BY FinitePlayers, FS_CardinalityType, AdmissionAssumption DEF IInv, AdmissionAssumption
<1>5. ASSUME logins' \in Int, Cardinality(players) + n + logins' <= NumBases
      PROVE  robots' \in Nat /\ SeatForEveryLogin'
  BY <1>2, <1>3, <1>4, <1>5
     DEF RobotAddRemove, RobotComes, RobotLeaves, SeatForEveryLogin, NumPlayers
<1>6. CASE UNCHANGED <<conn, logins>>
  <2>1. robots' \in Nat /\ SeatForEveryLogin'
    BY <1>2, <1>4, <1>5, <1>6 DEF IInv, SeatForEveryLogin, NumPlayers
  <2>2. OneConnectionPerNick'
    BY <1>3, <1>6 DEF IInv, OneConnectionPerNick
  <2> QED
    BY <1>6, <2>1, <2>2 DEF IInv
<1>7. CASE \E s \in Slots : \E who : Opening(s, who, n)
  <2>0. PICK s \in Slots : \E who : Opening(s, who, n)
    BY <1>7
  <2>1. PICK who : Opening(s, who, n)
    BY <2>0
  <2> DEFINE d == Opened(who)
             new == [conn EXCEPT ![s] = d]
  <2>2. Sound(d) /\ d.state = "LISTENING" /\ d.who = who
    <3> DEFINE a == [Free EXCEPT !.state = "LISTENING"]
    <3>1. Free \in Connection(Nobody)
      <4>1. <<>> \in Seq(Items) /\ 0 \in 0..SetupUnits
        BY ConnectionAssumption DEF ConnectionAssumption
      <4> QED
        BY <4>1 DEF Free, Connection, States
    <3>2. a \in Connection(Nobody) /\ a.state = "LISTENING"
      BY <3>1 DEF Connection, States
    <3>3. d = [a EXCEPT !.who = who]
      BY DEF Opened
    <3> HIDE DEF a, d
    <3>4. [a EXCEPT !.who = who] \in Connection(who)
      BY <3>2 DEF Connection
    <3>5. d.state = "LISTENING" /\ d.who = who
      BY <3>2, <3>3 DEF Connection
    <3> QED
      BY <3>3, <3>4, <3>5 DEF Sound
  <2>3. ~InGame(d) /\ Logging(d) /\ ~InGame(conn[s]) /\ ~Logging(conn[s])
    BY <2>1, <2>2 DEF Opening, InGame, Logging
  <2> HIDE DEF d
  <2>4. /\ new = [t \in Slots |-> new[t]]
        /\ \A t \in Slots : new[t] = IF t = s THEN d ELSE conn[t]
    BY DEF IInv
  <2>5. Counted(new)
    BY <2>1 DEF Opening, Put, d
  <2> HIDE DEF new
  <2>6. conn' = new /\ logins' = logins + 1
    <3>1. {t \in Slots : Logging(new[t]) /\ ~Logging(conn[t])} = {s}
      BY <2>3, <2>4
    <3>2. {t \in Slots : ~Logging(new[t]) /\ Logging(conn[t])} = {}
      BY <2>3, <2>4
    <3>3. conn' = new /\ logins' = logins + Cardinality({s}) - Cardinality({})
      BY <2>5, <3>1, <3>2 DEF Counted
    <3> QED
      <4>1. Cardinality({}) = 0 /\ Cardinality({s}) = 1
        BY FS_EmptySet, FS_Singleton
      <4>2. logins \in Int
        BY DEF IInv
      <4> QED
        BY <3>3, <4>1, <4>2
  <2>7. robots' \in Nat /\ SeatForEveryLogin'
    <3>1. logins \in Int /\ Cardinality(players) + n + logins < NumBases
      BY <2>1 DEF Opening, IInv
    <3>2. logins' \in Int /\ Cardinality(players) + n + logins' <= NumBases
      BY <1>2, <1>4, <2>6, <3>1
    <3> QED
      BY <1>5, <3>2
  <2>8. OneConnectionPerNick'
    <3>1. \A t \in Slots : conn[t].state # "FREE" => NickOf[conn[t].who] # NickOf[who]
      BY <2>1 DEF Opening
    <3>2. \A t, u \in Slots : new[t].state # "FREE" /\ new[u].state # "FREE"
            /\ NickOf[new[t].who] = NickOf[new[u].who] => t = u
      BY <2>2, <2>4, <3>1 DEF IInv, OneConnectionPerNick
    <3>3. \A t \in Slots : /\ InGame(new[t]) <=> InGame(conn[t])
                           /\ InGame(conn[t]) => new[t].who = conn[t].who
      BY <2>3, <2>4
    <3>4. players = {conn[t].who : t \in {u \in Slots : InGame(conn[u])}}
      BY DEF IInv, OneConnectionPerNick
    <3>5. players' = {new[t].who : t \in {u \in Slots : InGame(new[u])}}
      BY <1>3, <3>3, <3>4
    <3> QED
      BY <2>6, <3>2, <3>5 DEF OneConnectionPerNick
  <2>9. \A t \in Slots : Sound(conn'[t])
    BY <2>2, <2>4, <2>6 DEF IInv
  <2>10. logins' \in Int /\ conn' = [t \in Slots |-> conn'[t]]
    BY <2>4, <2>6 DEF IInv
  <2> QED
    BY <2>7, <2>8, <2>9, <2>10 DEF IInv
<1> QED
  BY <1>2, <1>6, <1>7
-----------------------------------------------------------------------------
LEMMA InvInit ==
  ASSUME Init
  PROVE  IInv
<1>1. <<>> \in Seq(Items) /\ 0 \in 0..SetupUnits
  BY ConnectionAssumption DEF ConnectionAssumption
<1>2. Sound(Free) /\ Free.state = "FREE"
  BY <1>1 DEF Free, Sound, Connection, States
<1>3. \A s \in Slots : conn[s] = Free
  BY DEF Init
<1>4. OneConnectionPerNick
  BY <1>2, <1>3 DEF Init, OneConnectionPerNick, InGame
<1>5. SeatForEveryLogin
  BY FS_EmptySet, AdmissionAssumption DEF Init, SeatForEveryLogin, NumPlayers, AdmissionAssumption
<1> QED
  BY <1>2, <1>3, <1>4, <1>5 DEF Init, IInv

LEMMA InvStep ==
  ASSUME IsFiniteSet(Slots), IInv, [Next]_vars
  PROVE  IInv'
<1>1. CASE Packet
  <2>1. CASE KickRobot
    BY <2>1, KickRobotKeeps
  <2>2. CASE \E c \in Clients : EnterQueue(c) \/ Advance(c)
    <3>1. UNCHANGED <<conn, logins, players, robots>>
      BY <2>2 DEF EnterQueue, Advance
    <3> QED
      BY <3>1 DEF IInv, SeatForEveryLogin, NumPlayers, OneConnectionPerNick
  <2>3. CASE \E s \in Slots : \/ Verify(s) \/ ReceiveAck(s) \/ Login(s) \/ PlayOn(s) \/ Hangup(s)
    BY <2>3, VerifyKeeps, ReceiveAckKeeps, LoginKeeps, PlayOnKeeps, HangupKeeps
  <2> QED
    BY <1>1, <2>1, <2>2, <2>3 DEF Packet
<1>2. CASE Input
  BY <1>2, InputKeeps
<1>3. CASE EndLoop
  BY <1>3, EndLoopKeeps
<1>4. CASE UNCHANGED vars
  BY <1>4 DEF vars, IInv, SeatForEveryLogin, NumPlayers, OneConnectionPerNick
<1> QED
  BY <1>1, <1>2, <1>3, <1>4 DEF Next

(* What holds in every state, and what follows from it.                    *)
THEOREM InvariantHolds ==
  ASSUME IsFiniteSet(Slots)
  PROVE  Spec => []IInv
<1>1. Init => IInv
  BY InvInit
<1>2. IInv /\ [Next]_vars => IInv'
  BY InvStep
<1> QED
  BY <1>1, <1>2, PTL DEF Spec

(* Whoever is let in finds a home base at the login (netserver.c:937),     *)
(* however logins, departures and robots take turns.                       *)
THEOREM EveryLoginHasASeat ==
  ASSUME IsFiniteSet(Slots)
  PROVE  Spec => []SeatForEveryLogin
<1>1. IInv => SeatForEveryLogin
  BY DEF IInv
<1> QED
  BY <1>1, InvariantHolds, PTL

(* A nick has one connection, and a player the connection with the nick    *)
(* (netserver.c:577, 898).                                                 *)
THEOREM NicksStayUnique ==
  ASSUME IsFiniteSet(Slots)
  PROVE  Spec => []OneConnectionPerNick
<1>1. IInv => OneConnectionPerNick
  BY DEF IInv
<1> QED
  BY <1>1, InvariantHolds, PTL
-----------------------------------------------------------------------------
(* The queue.                                                              *)

Entries == [who : Clients, port : BOOLEAN, recv : Int, acked : Int]

\* The first n of q, and nobody else, are entering; nobody is in it twice.
Tidy(q, n) ==
  /\ q \in Seq(Entries) /\ n \in 0..Len(q)
  /\ \A k \in 1..Len(q) : q[k].port <=> k <= n
  /\ \A j, k \in 1..Len(q) : q[j].who = q[k].who => j = k

ThoseIn(q, n) == {q[k].who : k \in 1..n}
InLine(q, n)  == [k \in 1..(Len(q) - n) |-> q[n + k].who]

LEMMA TidyIs ==
  ASSUME NEW q, NEW n, Tidy(q, n)
  PROVE  /\ q \in Seq(Entries) /\ Len(q) \in Nat /\ n \in 0..Len(q) /\ DOMAIN q = 1..Len(q)
         /\ \A k \in 1..Len(q) : q[k] \in Entries /\ q[k].who \in Clients
         /\ InLine(q, n) \in Seq(Clients) /\ Len(InLine(q, n)) = Len(q) - n
         /\ \A k \in 1..(Len(q) - n) : InLine(q, n)[k] = q[n + k].who
<1>1. q \in Seq(Entries) /\ Len(q) \in Nat /\ n \in 0..Len(q) /\ DOMAIN q = 1..Len(q)
  BY DEF Tidy
<1>2. \A k \in 1..Len(q) : q[k] \in Entries /\ q[k].who \in Clients
  <2>1. \A k \in 1..Len(q) : q[k] \in Entries
    BY <1>1
  <2>2. \A e \in Entries : e.who \in Clients
    BY DEF Entries
  <2> QED
    BY <2>1, <2>2
<1>3. \A k \in 1..(Len(q) - n) : n + k \in 1..Len(q)
  BY <1>1
<1>4. InLine(q, n) \in Seq(Clients) /\ Len(InLine(q, n)) = Len(q) - n
  BY <1>1, <1>2, <1>3, SMT DEF InLine
<1>5. \A k \in 1..(Len(q) - n) : InLine(q, n)[k] = q[n + k].who
  BY DEF InLine
<1> QED
  BY <1>1, <1>2, <1>4, <1>5

(* Those with a port are counted right.                                    *)
LEMMA PortsCounted ==
  ASSUME NEW q, NEW n, Tidy(q, n)
  PROVE  /\ {i \in DOMAIN q : q[i].port} = 1..n
         /\ Cardinality(1..n) = n
<1>1. n \in Nat /\ DOMAIN q = 1..Len(q) /\ n <= Len(q) /\ Len(q) \in Nat
  BY TidyIs
<1>2. Cardinality(1..n) = n
  BY <1>1, FS_Interval
<1> QED
  BY <1>1, <1>2 DEF Tidy

LEMMA WaitingIs ==
  ASSUME NEW n, Tidy(queue, n)
  PROVE  Waiting = InLine(queue, n) /\ Entering = ThoseIn(queue, n)
<1>1. Ports = 1..n /\ Cardinality(Ports) = n
  BY PortsCounted DEF Ports
<1> QED
  BY <1>1 DEF Waiting, Entering, InLine, ThoseIn

LEMMA WaitingBecomes ==
  ASSUME NEW n, Tidy(queue', n)
  PROVE  Waiting' = InLine(queue', n) /\ Entering' = ThoseIn(queue', n)
<1>1. Ports' = 1..n /\ Cardinality(Ports') = n
  BY PortsCounted DEF Ports
<1> QED
  BY <1>1 DEF Waiting, Entering, InLine, ThoseIn

(* What keeps clients and ports keeps the order.                           *)
LEMMA Touched ==
  ASSUME NEW q, NEW n, Tidy(q, n), NEW r \in Seq(Entries), Len(r) = Len(q),
         \A k \in 1..Len(q) : r[k].who = q[k].who /\ r[k].port = q[k].port
  PROVE  Tidy(r, n) /\ InLine(r, n) = InLine(q, n) /\ ThoseIn(r, n) = ThoseIn(q, n)
<1>1. Len(q) \in Nat /\ n \in 0..Len(q)
  BY TidyIs
<1>2. Tidy(r, n)
  BY <1>1 DEF Tidy
<1>3. \A k \in 1..(Len(q) - n) : n + k \in 1..Len(q)
  BY <1>1
<1>4. \A k \in 1..n : k \in 1..Len(q)
  BY <1>1
<1> QED
  BY <1>2, <1>3, <1>4 DEF InLine, ThoseIn

(* Somebody who waits gives up.                                            *)
LEMMA GivesUp ==
  ASSUME NEW q, NEW n, Tidy(q, n), NEW i \in 1..Len(q), i > n
  PROVE  /\ Tidy(RemoveAt(q, i), n)
         /\ i - n \in DOMAIN InLine(q, n)
         /\ InLine(RemoveAt(q, i), n) = RemoveAt(InLine(q, n), i - n)
         /\ ThoseIn(RemoveAt(q, i), n) = ThoseIn(q, n)
<1> DEFINE r == RemoveAt(q, i)
           w == InLine(q, n)
           l == Len(q)
<1>1. /\ q \in Seq(Entries) /\ l \in Nat /\ n \in 0..l /\ i \in 1..l
      /\ w \in Seq(Clients) /\ Len(w) = l - n
      /\ \A k \in 1..(l - n) : w[k] = q[n + k].who
  BY TidyIs
<1>2. /\ r \in Seq(Entries) /\ Len(r) = l - 1
      /\ \A k \in 1..(l - 1) : r[k] = IF k < i THEN q[k] ELSE q[k + 1]
  BY <1>1, Removed
<1>3. i - n \in 1..Len(w)
  BY <1>1
<1> HIDE DEF r, w
<1>4. /\ RemoveAt(w, i - n) \in Seq(Clients) /\ Len(RemoveAt(w, i - n)) = l - n - 1
      /\ \A k \in 1..(l - n - 1) :
           RemoveAt(w, i - n)[k] = IF k < i - n THEN w[k] ELSE w[k + 1]
  BY <1>1, <1>3, Removed
<1> HIDE DEF l
<1>5. Tidy(r, n)
  <2>1. \A k \in 1..l : q[k].port <=> k <= n
    BY DEF Tidy, l
  <2>2. \A j, k \in 1..l : q[j].who = q[k].who => j = k
    BY DEF Tidy, l
  <2>3. n \in 0..(l - 1)
    BY <1>1
  <2> DEFINE from(k) == IF k < i THEN k ELSE k + 1
  <2>6. ASSUME NEW k \in 1..(l - 1)
        PROVE  r[k] = q[from(k)] /\ from(k) \in 1..l /\ (from(k) <= n <=> k <= n)
    BY <1>1, <1>2
  <2>7. ASSUME NEW j \in 1..(l - 1), NEW k \in 1..(l - 1), from(j) = from(k) PROVE j = k
    BY <1>1, <2>7
  <2> HIDE DEF from
  <2>4. ASSUME NEW k \in 1..(l - 1) PROVE r[k].port <=> k <= n
    BY <2>1, <2>6
  <2>5. ASSUME NEW j \in 1..(l - 1), NEW k \in 1..(l - 1), r[j].who = r[k].who PROVE j = k
    <3>1. q[from(j)].who = q[from(k)].who
      BY <2>5, <2>6
    <3>2. from(j) = from(k)
      BY <2>2, <2>6, <3>1
    <3> QED
      BY <2>7, <3>2
  <2> QED
    BY <1>2, <2>3, <2>4, <2>5 DEF Tidy
<1>6. InLine(r, n) = RemoveAt(w, i - n)
  <2>1. /\ InLine(r, n) \in Seq(Clients) /\ Len(InLine(r, n)) = l - 1 - n
        /\ \A k \in 1..(l - 1 - n) : InLine(r, n)[k] = r[n + k].who
    BY <1>2, <1>5, TidyIs
  <2>2. ASSUME NEW k \in 1..(l - 1 - n) PROVE InLine(r, n)[k] = RemoveAt(w, i - n)[k]
    <3>1. n + k \in 1..(l - 1) /\ k \in 1..(l - n) /\ k + 1 \in 1..(l - n) /\ n + (k + 1) = (n + k) + 1
      BY <1>1
    <3>2. k < i - n <=> n + k < i
      BY <1>1
    <3>3. r[n + k] = IF n + k < i THEN q[n + k] ELSE q[(n + k) + 1]
      BY <1>2, <3>1
    <3>4. w[k] = q[n + k].who /\ w[k + 1] = q[n + (k + 1)].who
      BY <1>1, <3>1
    <3>5. RemoveAt(w, i - n)[k] = IF k < i - n THEN w[k] ELSE w[k + 1]
      BY <1>1, <1>4
    <3>6. InLine(r, n)[k] = r[n + k].who
      BY <2>1
    <3> QED
      BY <3>1, <3>2, <3>3, <3>4, <3>5, <3>6
  <2>3. l - 1 - n = l - n - 1
    BY <1>1
  <2> QED
    BY <1>4, <2>1, <2>2, <2>3, SameSequence
<1>7. ThoseIn(r, n) = ThoseIn(q, n)
  <2>1. \A k \in 1..n : r[k] = q[k]
    BY <1>1, <1>2
  <2> QED
    BY <2>1 DEF ThoseIn
<1> QED
  BY <1>1, <1>3, <1>5, <1>6, <1>7 DEF r, w

(* Somebody new comes last.                                                *)
LEMMA ComesLast ==
  ASSUME NEW q, NEW n, Tidy(q, n), NEW e \in Entries, ~e.port,
         \A k \in 1..Len(q) : q[k].who # e.who
  PROVE  /\ Tidy(Append(q, e), n)
         /\ e.who \notin ToSet(InLine(q, n))
         /\ InLine(Append(q, e), n) = Append(InLine(q, n), e.who)
         /\ ThoseIn(Append(q, e), n) = ThoseIn(q, n)
<1> DEFINE r == Append(q, e)
           w == InLine(q, n)
           l == Len(q)
<1>1. /\ q \in Seq(Entries) /\ l \in Nat /\ n \in 0..l
      /\ w \in Seq(Clients) /\ Len(w) = l - n
      /\ \A k \in 1..(l - n) : w[k] = q[n + k].who
  BY TidyIs
<1>2. /\ r \in Seq(Entries) /\ Len(r) = l + 1
      /\ \A k \in 1..(l + 1) : r[k] = IF k = l + 1 THEN e ELSE q[k]
  BY <1>1
<1>0. e.who \in Clients
  BY DEF Entries
<1> HIDE DEF r, w
<1>3. /\ Append(w, e.who) \in Seq(Clients) /\ Len(Append(w, e.who)) = l + 1 - n
      /\ \A k \in 1..(l + 1 - n) : Append(w, e.who)[k] = IF k = l + 1 - n THEN e.who ELSE w[k]
  BY <1>0, <1>1
<1>4. /\ \A k \in 1..l : q[k].port <=> k <= n
      /\ \A j, k \in 1..l : q[j].who = q[k].who => j = k
      /\ \A k \in 1..l : q[k].who # e.who
  BY DEF Tidy
<1> HIDE DEF l
<1>5. Tidy(r, n)
  <2>1. ASSUME NEW k \in 1..(l + 1) PROVE r[k].port <=> k <= n
    BY <1>1, <1>2, <1>4
  <2>2. ASSUME NEW j \in 1..(l + 1), NEW k \in 1..(l + 1), r[j].who = r[k].who PROVE j = k
    BY <1>1, <1>2, <1>4, <2>2
  <2> QED
    BY <1>1, <1>2, <2>1, <2>2 DEF Tidy
<1>6. InLine(r, n) = Append(w, e.who)
  <2>1. /\ InLine(r, n) \in Seq(Clients) /\ Len(InLine(r, n)) = l + 1 - n
        /\ \A k \in 1..(l + 1 - n) : InLine(r, n)[k] = r[n + k].who
    <3>1. Len(r) = l + 1
      BY <1>2
    <3>2. /\ InLine(r, n) \in Seq(Clients) /\ Len(InLine(r, n)) = Len(r) - n
          /\ \A k \in 1..(Len(r) - n) : InLine(r, n)[k] = r[n + k].who
      BY <1>5, TidyIs
    <3>3. l \in Nat /\ n \in Nat
      BY <1>1
    <3> QED
      BY <3>1, <3>2, <3>3
  <2>2. ASSUME NEW k \in 1..(l + 1 - n) PROVE InLine(r, n)[k] = Append(w, e.who)[k]
    <3>1. n + k \in 1..(l + 1) /\ (n + k = l + 1 <=> k = l + 1 - n)
      BY <1>1
    <3>2. k # l + 1 - n => k \in 1..(l - n)
      BY <1>1
    <3>3. r[n + k] = IF n + k = l + 1 THEN e ELSE q[n + k]
      BY <1>2, <3>1
    <3>4. k # l + 1 - n => w[k] = q[n + k].who
      BY <1>1, <3>2
    <3>5. Append(w, e.who)[k] = IF k = l + 1 - n THEN e.who ELSE w[k]
      BY <1>3
    <3>6. InLine(r, n)[k] = r[n + k].who
      BY <2>1
    <3> QED
      BY <3>1, <3>3, <3>4, <3>5, <3>6
  <2> QED
    BY <1>3, <2>1, <2>2, SameSequence
<1>7. ThoseIn(r, n) = ThoseIn(q, n)
  <2>1. \A k \in 1..n : r[k] = q[k]
    BY <1>1, <1>2
  <2> QED
    BY <2>1 DEF ThoseIn
<1>8. e.who \notin ToSet(w)
  <2>1. DOMAIN w = 1..(l - n) /\ \A k \in 1..(l - n) : n + k \in 1..l
    BY <1>1
  <2>2. \A k \in 1..(l - n) : w[k] # e.who
    BY <1>1, <1>4, <2>1
  <2> QED
    BY <2>1, <2>2 DEF ToSet
<1> QED
  BY <1>5, <1>6, <1>7, <1>8 DEF r, w

(* Whoever waits is moved behind those who are entering.                   *)
LEMMA MovesUp ==
  ASSUME NEW q, NEW n, Tidy(q, n), NEW i \in 1..Len(q), i > n
  PROVE  LET r == InsertAt(RemoveAt(q, i), n + 1, q[i])
             w == InLine(q, n)
         IN /\ Tidy(r, n)
            /\ i - n \in DOMAIN w
            /\ InLine(r, n) = <<w[i - n]>> \o RemoveAt(w, i - n)
            /\ ThoseIn(r, n) = ThoseIn(q, n)
<1> DEFINE p == RemoveAt(q, i)
           r == InsertAt(p, n + 1, q[i])
           w == InLine(q, n)
           v == RemoveAt(w, i - n)
           l == Len(q)
<1>1. /\ q \in Seq(Entries) /\ l \in Nat /\ n \in 0..l /\ i \in 1..l /\ q[i] \in Entries
      /\ w \in Seq(Clients) /\ Len(w) = l - n
      /\ \A k \in 1..(l - n) : w[k] = q[n + k].who
  BY TidyIs
<1>2. /\ p \in Seq(Entries) /\ Len(p) = l - 1
      /\ \A k \in 1..(l - 1) : p[k] = IF k < i THEN q[k] ELSE q[k + 1]
  BY <1>1, Removed
<1>3. /\ i - n \in 1..Len(w) /\ w[i - n] = q[i].who /\ w[i - n] \in Clients
  BY <1>1
<1> HIDE DEF w
<1>4. /\ v \in Seq(Clients) /\ Len(v) = l - n - 1
      /\ \A k \in 1..(l - n - 1) : v[k] = IF k < i - n THEN w[k] ELSE w[k + 1]
  BY <1>1, <1>3, Removed
<1> HIDE DEF p, v
<1>5. /\ r \in Seq(Entries) /\ Len(r) = l
      /\ \A k \in 1..l : r[k] = IF k <= n THEN p[k] ELSE IF k = n + 1 THEN q[i] ELSE p[k - 1]
  <2> DEFINE a == SubSeq(p, 1, n)
             b == SubSeq(p, n + 1, Len(p))
  <2>0. n \in 0..(l - 1)
    BY <1>1
  <2>1. a \in Seq(Entries) /\ Len(a) = n /\ \A k \in 1..n : a[k] = p[k]
    BY <1>2, <2>0
  <2>2. b \in Seq(Entries) /\ Len(b) = l - 1 - n /\ \A k \in 1..(l - 1 - n) : b[k] = p[n + k]
    BY <1>2, <2>0
  <2>3. r = a \o <<q[i]>> \o b
    <3>1. (n + 1) - 1 = n
      BY <1>1
    <3> QED
      BY <3>1 DEF InsertAt
  <2> DEFINE c == a \o <<q[i]>>
  <2> HIDE DEF a, b
  <2>4. c \in Seq(Entries) /\ Len(c) = n + 1 /\ \A k \in 1..(n + 1) : c[k] = IF k <= n THEN a[k] ELSE q[i]
    <3> DEFINE e == q[i]
    <3>1. e \in Entries /\ n \in Nat
      BY <1>1
    <3>2. a \in Seq(Entries) /\ Len(a) = n
      BY <2>1
    <3> HIDE DEF e
    <3>3. /\ a \o <<e>> \in Seq(Entries) /\ Len(a \o <<e>>) = n + 1
          /\ \A k \in 1..(n + 1) : (a \o <<e>>)[k] = IF k <= n THEN a[k] ELSE e
      BY <3>1, <3>2
    <3> QED
      BY <3>3 DEF e
  <2>5. r = c \o b
    BY <2>3
  <2> HIDE DEF c, r
  <2>6. r \in Seq(Entries) /\ Len(r) = l /\ \A k \in 1..l : r[k] = IF k <= n + 1 THEN c[k] ELSE b[k - (n + 1)]
    BY <1>1, <2>0, <2>2, <2>4, <2>5
  <2>7. ASSUME NEW k \in 1..l, k > n + 1 PROVE b[k - (n + 1)] = p[k - 1]
    <3>1. k - (n + 1) \in 1..(l - 1 - n) /\ n + (k - (n + 1)) = k - 1
      BY <1>1, <2>7
    <3> QED
      BY <2>2, <3>1
  <2>8. ASSUME NEW k \in 1..l
        PROVE  r[k] = IF k <= n THEN p[k] ELSE IF k = n + 1 THEN q[i] ELSE p[k - 1]
    <3>1. CASE k <= n
      BY <1>1, <2>1, <2>4, <2>6, <3>1
    <3>2. CASE k = n + 1
      BY <1>1, <2>4, <2>6, <3>2
    <3>3. CASE k > n + 1
      BY <1>1, <2>6, <2>7, <3>3
    <3> QED
      BY <1>1, <3>1, <3>2, <3>3
  <2> QED
    BY <2>6, <2>8
<1>6. ASSUME NEW k \in 1..l
      PROVE  r[k] = IF k <= n THEN q[k] ELSE IF k = n + 1 THEN q[i]
                    ELSE IF k <= i THEN q[k - 1] ELSE q[k]
  <2>1. CASE k <= n
    <3>1. k \in 1..(l - 1) /\ k < i
      BY <1>1, <2>1
    <3>2. r[k] = p[k] /\ p[k] = q[k]
      BY <1>2, <1>5, <2>1, <3>1
    <3> QED
      BY <2>1, <3>2
  <2>2. CASE k = n + 1
    <3>1. ~(k <= n)
      BY <1>1, <2>2
    <3> QED
      BY <1>5, <2>2, <3>1
  <2>3. CASE k > n + 1
    <3>1. k - 1 \in 1..(l - 1) /\ (k - 1 < i <=> k <= i) /\ (k - 1) + 1 = k /\ ~(k <= n) /\ k # n + 1
      BY <1>1, <2>3
    <3>2. r[k] = p[k - 1]
      BY <1>5, <3>1
    <3>3. p[k - 1] = IF k - 1 < i THEN q[k - 1] ELSE q[(k - 1) + 1]
      BY <1>2, <3>1
    <3> QED
      BY <3>1, <3>2, <3>3
  <2> QED
    BY <1>1, <2>1, <2>2, <2>3
<1> HIDE DEF r
<1>7. /\ \A k \in 1..l : q[k].port <=> k <= n
      /\ \A j, k \in 1..l : q[j].who = q[k].who => j = k
  BY DEF Tidy
<1> HIDE DEF l
<1>8. Tidy(r, n)
  <2> DEFINE from(k) == IF k <= n THEN k ELSE IF k = n + 1 THEN i ELSE IF k <= i THEN k - 1 ELSE k
  <2>1. ASSUME NEW k \in 1..l PROVE r[k] = q[from(k)] /\ from(k) \in 1..l /\ (from(k) <= n <=> k <= n)
    BY <1>1, <1>6
  <2>2. ASSUME NEW j \in 1..l, NEW k \in 1..l, from(j) = from(k) PROVE j = k
    BY <1>1, <2>2
  <2> HIDE DEF from
  <2>3. ASSUME NEW j \in 1..l, NEW k \in 1..l, r[j].who = r[k].who PROVE j = k
    BY <1>7, <2>1, <2>2, <2>3
  <2>4. ASSUME NEW k \in 1..l PROVE r[k].port <=> k <= n
    BY <1>7, <2>1
  <2> QED
    BY <1>1, <1>5, <2>3, <2>4 DEF Tidy
<1>9. InLine(r, n) = <<w[i - n]>> \o v
  <2> DEFINE u == <<w[i - n]>> \o v
  <2>1. /\ InLine(r, n) \in Seq(Clients) /\ Len(InLine(r, n)) = l - n
        /\ \A k \in 1..(l - n) : InLine(r, n)[k] = r[n + k].who
    BY <1>5, <1>8, TidyIs
  <2>2. /\ u \in Seq(Clients) /\ Len(u) = l - n
        /\ \A k \in 1..(l - n) : u[k] = IF k = 1 THEN w[i - n] ELSE v[k - 1]
    BY <1>1, <1>3, <1>4
  <2> HIDE DEF u
  <2>3. ASSUME NEW k \in 1..(l - n) PROVE InLine(r, n)[k] = u[k]
    <3>0. n + k \in 1..l /\ ~(n + k <= n)
      BY <1>1
    <3>1. CASE k = 1
      BY <1>1, <1>3, <1>6, <2>1, <2>2, <3>0, <3>1
    <3>2. CASE k # 1 /\ n + k <= i
      <4>1. k - 1 \in 1..(l - n - 1) /\ k - 1 < i - n /\ n + (k - 1) = (n + k) - 1 /\ k - 1 \in 1..(l - n)
        BY <1>1, <3>2
      <4>2. u[k] = w[k - 1]
        BY <1>4, <2>2, <3>2, <4>1
      <4>3. w[k - 1] = q[(n + k) - 1].who
        BY <1>1, <4>1
      <4>4. r[n + k] = q[(n + k) - 1]
        BY <1>1, <1>6, <3>0, <3>2
      <4> QED
        BY <2>1, <4>2, <4>3, <4>4
    <3>3. CASE k # 1 /\ ~(n + k <= i)
      <4>1. k - 1 \in 1..(l - n - 1) /\ ~(k - 1 < i - n) /\ (k - 1) + 1 = k
        BY <1>1, <3>3
      <4>2. u[k] = w[k]
        BY <1>4, <2>2, <3>3, <4>1
      <4>3. r[n + k] = q[n + k]
        BY <1>1, <1>6, <3>0, <3>3
      <4> QED
        BY <1>1, <2>1, <4>2, <4>3
    <3> QED
      BY <3>1, <3>2, <3>3
  <2>4. InLine(r, n) = u
    BY <2>1, <2>2, <2>3, SameSequence
  <2> QED
    BY <2>4 DEF u
<1>10. ThoseIn(r, n) = ThoseIn(q, n)
  <2>1. \A k \in 1..n : r[k] = q[k]
    BY <1>1, <1>6
  <2> QED
    BY <2>1 DEF ThoseIn
<1> QED
  BY <1>1, <1>3, <1>8, <1>9, <1>10 DEF r, p, v, w

(* The first who waits gets a port.                                        *)
LEMMA GetsPort ==
  ASSUME NEW q, NEW n, Tidy(q, n), n < Len(q)
  PROVE  LET r == [q EXCEPT ![n + 1].port = TRUE, ![n + 1].acked = 0]
             w == InLine(q, n)
         IN /\ Tidy(r, n + 1)
            /\ w # <<>> /\ InLine(r, n + 1) = Tail(w)
            /\ ThoseIn(r, n + 1) = ThoseIn(q, n) \cup {Head(w)}
<1> DEFINE e == [q[n + 1] EXCEPT !.port = TRUE, !.acked = 0]
           r == [q EXCEPT ![n + 1].port = TRUE, ![n + 1].acked = 0]
           w == InLine(q, n)
           l == Len(q)
<1>1. /\ q \in Seq(Entries) /\ l \in Nat /\ n \in 0..(l - 1) /\ q[n + 1] \in Entries /\ n + 1 \in 1..l
      /\ w \in Seq(Clients) /\ Len(w) = l - n
      /\ \A k \in 1..(l - n) : w[k] = q[n + k].who
  BY TidyIs
<1>2. e \in Entries /\ e.who = q[n + 1].who /\ e.port
  <2> DEFINE f == q[n + 1]
  <2>1. f \in Entries
    BY <1>1
  <2> HIDE DEF f
  <2> DEFINE g == [f EXCEPT !.port = TRUE]
  <2>2. g \in Entries /\ g.who = f.who /\ g.port
    BY <2>1 DEF Entries
  <2>3. e = [g EXCEPT !.acked = 0]
    BY DEF e, f
  <2> HIDE DEF g, e
  <2>4. [g EXCEPT !.acked = 0] \in Entries
    BY <2>2 DEF Entries
  <2>5. [g EXCEPT !.acked = 0].who = g.who /\ [g EXCEPT !.acked = 0].port = g.port
    BY <2>2 DEF Entries
  <2> QED
    BY <2>2, <2>3, <2>4, <2>5 DEF f
<1>3. r = [q EXCEPT ![n + 1] = e]
  BY <1>1
<1> HIDE DEF e, r, w
<1>4. /\ r \in Seq(Entries) /\ Len(r) = l
      /\ \A k \in 1..l : r[k] = IF k = n + 1 THEN e ELSE q[k]
  BY <1>1, <1>2, <1>3
<1>5. /\ \A k \in 1..l : q[k].port <=> k <= n
      /\ \A j, k \in 1..l : q[j].who = q[k].who => j = k
  BY DEF Tidy
<1> HIDE DEF l
<1>6. Tidy(r, n + 1)
  <2>1. \A k \in 1..l : r[k].who = q[k].who
    BY <1>1, <1>2, <1>4
  <2>2. ASSUME NEW k \in 1..l PROVE r[k].port <=> k <= n + 1
    BY <1>1, <1>2, <1>4, <1>5
  <2> QED
    BY <1>1, <1>4, <1>5, <2>1, <2>2 DEF Tidy
<1>7. w # <<>> /\ Head(w) = q[n + 1].who
  <2>1. w[1] = q[n + 1].who
    BY <1>1
  <2> QED
    BY <1>1, <2>1
<1>8. InLine(r, n + 1) = Tail(w)
  <2>1. /\ InLine(r, n + 1) \in Seq(Clients) /\ Len(InLine(r, n + 1)) = l - (n + 1)
        /\ \A k \in 1..(l - (n + 1)) : InLine(r, n + 1)[k] = r[(n + 1) + k].who
    BY <1>4, <1>6, TidyIs
  <2>2. /\ Tail(w) \in Seq(Clients) /\ Len(Tail(w)) = l - (n + 1)
        /\ \A k \in 1..(l - (n + 1)) : Tail(w)[k] = w[k + 1]
    BY <1>1, <1>7
  <2>3. ASSUME NEW k \in 1..(l - (n + 1)) PROVE InLine(r, n + 1)[k] = Tail(w)[k]
    <3>1. k + 1 \in 1..(l - n) /\ n + (k + 1) = (n + 1) + k /\ (n + 1) + k \in 1..l /\ (n + 1) + k # n + 1
      BY <1>1
    <3> QED
      BY <1>1, <1>4, <2>1, <2>2, <3>1
  <2> QED
    BY <2>1, <2>2, <2>3, SameSequence
<1>9. ThoseIn(r, n + 1) = ThoseIn(q, n) \cup {Head(w)}
  <2>1. /\ \A k \in 1..n : r[k] = q[k] /\ k \in 1..(n + 1)
        /\ r[n + 1].who = q[n + 1].who /\ n + 1 \in 1..(n + 1)
        /\ \A k \in 1..(n + 1) : k = n + 1 \/ k \in 1..n
    BY <1>1, <1>2, <1>4
  <2> QED
    BY <1>7, <2>1 DEF ThoseIn
<1> QED
  BY <1>6, <1>7, <1>8, <1>9 DEF r, w

\* r is what is left of the first k of q: some of those who are entering, m of
\* them, and all who wait.
Left(q, n, k, r, m) ==
  /\ r \in Seq(Entries) /\ m \in 0..Len(r) /\ m <= n /\ m <= k
  /\ Len(r) - m = IF k <= n THEN 0 ELSE k - n
  /\ \A j \in 1..Len(r) : \E i \in 1..k : r[j] = q[i] /\ (i <= n <=> j <= m)
  /\ \A j \in 1..(Len(r) - m) : r[m + j] = q[n + j]
  /\ \A i, j \in 1..Len(r) : r[i].who = r[j].who => i = j

LEMMA OneMoreLeft ==
  ASSUME NEW q, NEW n, Tidy(q, n), NEW k \in 1..Len(q), NEW r, NEW m, Left(q, n, k - 1, r, m)
  PROVE  /\ k <= n => Left(q, n, k, r, m)
         /\ \E m1 : Left(q, n, k, Append(r, q[k]), m1)
<1>1. /\ q \in Seq(Entries) /\ Len(q) \in Nat /\ n \in 0..Len(q) /\ q[k] \in Entries
      /\ \A i, j \in 1..Len(q) : q[i].who = q[j].who => i = j
  BY TidyIs DEF Tidy
<1>2. /\ r \in Seq(Entries) /\ Len(r) \in Nat /\ m \in 0..Len(r) /\ m <= n /\ m <= k - 1
      /\ Len(r) - m = IF k - 1 <= n THEN 0 ELSE (k - 1) - n
      /\ \A j \in 1..Len(r) : \E i \in 1..(k - 1) : r[j] = q[i] /\ (i <= n <=> j <= m)
      /\ \A j \in 1..(Len(r) - m) : r[m + j] = q[n + j]
      /\ \A i, j \in 1..Len(r) : r[i].who = r[j].who => i = j
  BY DEF Left
<1>3. k <= n => Left(q, n, k, r, m)
  <2> SUFFICES ASSUME k <= n PROVE Left(q, n, k, r, m)
    OBVIOUS
  <2>1. Len(r) - m = IF k <= n THEN 0 ELSE k - n
    BY <1>1, <1>2
  <2>2. ASSUME NEW j \in 1..Len(r) PROVE \E i \in 1..k : r[j] = q[i] /\ (i <= n <=> j <= m)
    <3>1. PICK i \in 1..(k - 1) : r[j] = q[i] /\ (i <= n <=> j <= m)
      BY <1>2
    <3>2. i \in 1..k
      BY <1>1
    <3> QED
      BY <3>1, <3>2
  <2> QED
    BY <1>1, <1>2, <2>1, <2>2 DEF Left
<1> DEFINE s == Append(r, q[k])
           m1 == IF k <= n THEN m + 1 ELSE m
           l == Len(r)
<1>4. /\ s \in Seq(Entries) /\ Len(s) = l + 1
      /\ \A j \in 1..(l + 1) : s[j] = IF j = l + 1 THEN q[k] ELSE r[j]
  BY <1>1, <1>2
<1> HIDE DEF s
<1>5. m1 \in 0..(l + 1) /\ m1 <= n /\ m1 <= k /\ (l + 1) - m1 = IF k <= n THEN 0 ELSE k - n
  <2>0. l \in Nat /\ m \in 0..l /\ m <= n /\ m <= k - 1 /\ l - m = (IF k - 1 <= n THEN 0 ELSE (k - 1) - n)
    BY <1>2
  <2>3. n \in Nat /\ k \in Nat
    BY <1>1
  <2> HIDE DEF l
  <2>1. CASE k <= n
    <3>1. m1 = m + 1 /\ l = m
      BY <2>0, <2>1, <2>3
    <3> QED
      BY <2>0, <2>1, <2>3, <3>1
  <2>2. CASE k > n
    <3>1. m1 = m /\ l - m = (k - 1) - n
      BY <2>0, <2>2, <2>3
    <3> QED
      BY <2>0, <2>2, <2>3, <3>1
  <2> QED
    BY <2>1, <2>2, <2>3
<1>6. ASSUME NEW j \in 1..(l + 1) PROVE \E i \in 1..k : s[j] = q[i] /\ (i <= n <=> j <= m1)
  <2>1. CASE j = l + 1
    <3>1. k <= n <=> j <= m1
      BY <1>1, <1>2, <1>5, <2>1
    <3>2. s[j] = q[k]
      BY <1>4, <2>1
    <3> QED
      BY <3>1, <3>2
  <2>2. CASE j # l + 1
    <3>1. PICK i \in 1..(k - 1) : r[j] = q[i] /\ (i <= n <=> j <= m)
      BY <1>2, <2>2
    <3>2. i \in 1..k /\ s[j] = q[i]
      BY <1>1, <1>2, <1>4, <2>2, <3>1
    <3>3. j <= m <=> j <= m1
      BY <1>1, <1>2, <2>2
    <3> QED
      BY <3>1, <3>2, <3>3
  <2> QED
    BY <2>1, <2>2
<1>7. ASSUME NEW j \in 1..((l + 1) - m1) PROVE s[m1 + j] = q[n + j]
  <2>1. k > n /\ m1 = m
    BY <1>1, <1>5, <1>7
  <2>2. CASE m + j = l + 1
    <3>1. n + j = k
      BY <1>1, <1>2, <1>5, <2>1, <2>2
    <3> QED
      BY <1>2, <1>4, <2>1, <2>2, <3>1
  <2>3. CASE m + j # l + 1
    <3>1. j \in 1..(l - m) /\ m + j \in 1..(l + 1)
      BY <1>2, <2>1, <2>3
    <3> QED
      BY <1>2, <1>4, <2>1, <2>3, <3>1
  <2> QED
    BY <2>2, <2>3
<1>8. ASSUME NEW j \in 1..l PROVE r[j].who # q[k].who
  <2>1. PICK i \in 1..(k - 1) : r[j] = q[i]
    BY <1>2
  <2>2. i \in 1..Len(q) /\ i # k
    BY <1>1
  <2> QED
    BY <1>1, <2>1, <2>2
<1>9. ASSUME NEW i \in 1..(l + 1), NEW j \in 1..(l + 1), s[i].who = s[j].who PROVE i = j
  <2>1. l \in Nat /\ \A x, y \in 1..l : r[x].who = r[y].who => x = y
    BY <1>2
  <2> HIDE DEF l
  <2>2. \A x \in 1..(l + 1) : x # l + 1 => x \in 1..l
    BY <2>1
  <2>3. CASE i = l + 1 \/ j = l + 1
    BY <1>4, <1>8, <1>9, <2>2, <2>3
  <2>4. CASE i # l + 1 /\ j # l + 1
    BY <1>4, <1>9, <2>1, <2>2, <2>4
  <2> QED
    BY <2>3, <2>4
<1>10. Left(q, n, k, s, m1)
  <2> HIDE DEF m1
  <2>1. Len(s) = l + 1
    BY <1>4
  <2> QED
    BY <1>4, <1>5, <1>6, <1>7, <1>9, <2>1 DEF Left
<1> QED
  BY <1>3, <1>10 DEF s

\* A step of the loop of Kept.
Keep(q) == [x \in (1..Len(q)) \X Seq(Entries) |->
              IF q[x[1]].port /\ Gone(q[x[1]]) THEN x[2] ELSE Append(x[2], q[x[1]])]

LEMMA KeptOneByOne ==
  ASSUME NEW q \in Seq(Entries)
  PROVE  \E kept : /\ Kept(q) = kept[Len(q)] /\ kept[0] = <<>>
                   /\ \A k \in 1..Len(q) :
                        kept[k] = IF q[k].port /\ Gone(q[k]) THEN kept[k - 1]
                                  ELSE Append(kept[k - 1], q[k])
<1> DEFINE n == Len(q)
           Loop(f) == f = [k \in 0..n |-> IF k = 0 THEN <<>>
                                          ELSE IF q[k].port /\ Gone(q[k]) THEN f[k - 1]
                                          ELSE Append(f[k - 1], q[k])]
<1>1. n \in Nat /\ \A k \in 1..n : q[k] \in Entries
  OBVIOUS
<1>2. Keep(q) \in Rounded(n, Seq(Entries))
  BY <1>1 DEF Keep, Rounded
<1>3. <<>> \in Seq(Entries)
  OBVIOUS
<1>4. PICK f : /\ f \in [0..n -> Seq(Entries)] /\ f[0] = <<>>
               /\ \A k \in 1..n : f[k] = Keep(q)[<<k, f[k - 1]>>]
  <2> HIDE DEF n
  <2>1. PICK f : Run(f, n, Seq(Entries), <<>>, Keep(q))
    BY <1>1, <1>2, <1>3, Iterated
  <2> QED
    BY <2>1 DEF Run
<1>5. ASSUME NEW k \in 1..n
      PROVE  f[k] = IF q[k].port /\ Gone(q[k]) THEN f[k - 1] ELSE Append(f[k - 1], q[k])
  <2>1. k - 1 \in 0..n /\ f[k - 1] \in Seq(Entries)
    <3> HIDE DEF n
    <3> QED
      BY <1>1, <1>4
  <2>2. Keep(q)[<<k, f[k - 1]>>]
          = IF q[k].port /\ Gone(q[k]) THEN f[k - 1] ELSE Append(f[k - 1], q[k])
    <3> HIDE DEF n
    <3> QED
      BY <2>1, Zenon DEF Keep, n
  <2> QED
    BY <1>4, <2>2
<1>6. Loop(f)
  <2> DEFINE g == [k \in 0..n |-> IF k = 0 THEN <<>>
                                  ELSE IF q[k].port /\ Gone(q[k]) THEN f[k - 1]
                                  ELSE Append(f[k - 1], q[k])]
  <2>1. ASSUME NEW k \in 0..n PROVE f[k] = g[k]
    <3>1. k = 0 \/ k \in 1..n
      BY <1>1
    <3> QED
      BY <1>4, <1>5, <3>1
  <2>2. f = [k \in 0..n |-> f[k]]
    BY <1>4
  <2> HIDE DEF g
  <2>3. g = [k \in 0..n |-> g[k]]
    BY DEF g
  <2>4. f = g
    BY <2>1, <2>2, <2>3
  <2> QED
    BY <2>4 DEF g
<1> DEFINE kept == CHOOSE h : Loop(h)
<1>7. Loop(kept)
  <2> HIDE DEF Loop
  <2> QED
    BY <1>6
<1>8. Kept(q) = kept[n]
  BY DEF Kept
<1> HIDE DEF kept, n
<1>9. \A k \in 0..n : kept[k] = IF k = 0 THEN <<>>
                                 ELSE IF q[k].port /\ Gone(q[k]) THEN kept[k - 1]
                                 ELSE Append(kept[k - 1], q[k])
  BY <1>7
<1>10. kept[0] = <<>> /\ \A k \in 1..n : kept[k] = IF q[k].port /\ Gone(q[k]) THEN kept[k - 1]
                                                  ELSE Append(kept[k - 1], q[k])
  BY <1>1, <1>9
<1> QED
  BY <1>8, <1>10 DEF n

(* Kept drops some of those who are entering, and nobody who waits.        *)
LEMMA KeptThins ==
  ASSUME NEW q, NEW n, Tidy(q, n)
  PROVE  \E m \in 0..n : /\ Tidy(Kept(q), m)
                         /\ InLine(Kept(q), m) = InLine(q, n)
                         /\ ThoseIn(Kept(q), m) \subseteq ThoseIn(q, n)
                         /\ Len(Kept(q)) - m = Len(q) - n
<1> DEFINE l == Len(q)
<1>1. q \in Seq(Entries) /\ l \in Nat /\ n \in 0..l
  BY TidyIs
<1>2. PICK kept : /\ Kept(q) = kept[l] /\ kept[0] = <<>>
                  /\ \A k \in 1..l : kept[k] = IF q[k].port /\ Gone(q[k]) THEN kept[k - 1]
                                               ELSE Append(kept[k - 1], q[k])
  BY <1>1, KeptOneByOne
<1> DEFINE K == {k \in 0..l : \E m : Left(q, n, k, kept[k], m)}
<1>3. 0 \in K
  <2>1. Left(q, n, 0, <<>>, 0)
    BY <1>1 DEF Left
  <2> QED
    BY <1>1, <1>2, <2>1
<1>4. ASSUME NEW k \in 1..l, k - 1 \in K PROVE k \in K
  <2>1. PICK m : Left(q, n, k - 1, kept[k - 1], m)
    BY <1>4
  <2>2. q[k].port => k <= n
    BY DEF Tidy
  <2>3. \E m1 : Left(q, n, k, kept[k], m1)
    BY <1>2, <2>1, <2>2, OneMoreLeft
  <2> QED
    BY <2>3
<1>5. PICK m : Left(q, n, l, Kept(q), m)
  <2> HIDE DEF K, l
  <2>1. \A k \in 0..l : k \in K
    BY <1>1, <1>3, <1>4, UpTo
  <2>2. l \in K
    BY <1>1, <2>1
  <2> QED
    BY <1>2, <2>2 DEF K
<1> DEFINE r == Kept(q)
<1> HIDE DEF r
<1>6. /\ r \in Seq(Entries) /\ Len(r) \in Nat /\ m \in 0..Len(r) /\ m <= n
      /\ Len(r) - m = l - n
      /\ \A j \in 1..Len(r) : \E i \in 1..l : r[j] = q[i] /\ (i <= n <=> j <= m)
      /\ \A j \in 1..(Len(r) - m) : r[m + j] = q[n + j]
      /\ \A i, j \in 1..Len(r) : r[i].who = r[j].who => i = j
  <2>1. (IF l <= n THEN 0 ELSE l - n) = l - n
    BY <1>1
  <2>2. Left(q, n, l, r, m)
    BY <1>5 DEF r
  <2> HIDE DEF l
  <2> QED
    BY <2>1, <2>2 DEF Left
<1>7. Tidy(r, m)
  <2>1. ASSUME NEW j \in 1..Len(r) PROVE r[j].port <=> j <= m
    <3>1. PICK i \in 1..l : r[j] = q[i] /\ (i <= n <=> j <= m)
      BY <1>6
    <3> QED
      BY <3>1 DEF Tidy
  <2> QED
    BY <1>6, <2>1 DEF Tidy
<1>8. InLine(r, m) = InLine(q, n)
  BY <1>6 DEF InLine
<1>9. ThoseIn(r, m) \subseteq ThoseIn(q, n)
  <2>1. ASSUME NEW j \in 1..m PROVE r[j].who \in ThoseIn(q, n)
    <3>1. j \in 1..Len(r) /\ j <= m
      BY <1>6
    <3>2. PICK i \in 1..l : r[j] = q[i] /\ (i <= n <=> j <= m)
      BY <1>6, <3>1
    <3>3. i \in 1..n
      BY <1>1, <3>1, <3>2
    <3> QED
      BY <3>2, <3>3 DEF ThoseIn
  <2> QED
    BY <2>1 DEF ThoseIn
<1>10. m \in 0..n
  BY <1>1, <1>6
<1> QED
  BY <1>6, <1>7, <1>8, <1>9, <1>10 DEF r
-----------------------------------------------------------------------------
(* What a step makes of the queue.                                         *)

\* A step of OrderedEntry, or none.
Served(w, in, w2, in2) ==
  \/ w # <<>> /\ w2 = Tail(w) /\ in2 \subseteq in \cup {Head(w)} /\ Head(w) \in in2
  \/ w2 = w /\ in2 \subseteq in
  \/ in2 = in /\ \E c \in Clients : c \notin ToSet(w) /\ w2 = Append(w, c)
  \/ in2 \subseteq in /\ \E i \in DOMAIN w : w2 = RemoveAt(w, i)
  \/ in2 = in /\ \E i \in DOMAIN w : w2 = <<w[i]>> \o RemoveAt(w, i)

Goes(q, n, r) ==
  \E m : Tidy(r, m) /\ Served(InLine(q, n), ThoseIn(q, n), InLine(r, m), ThoseIn(r, m))

(* An entry whose counters are set.                                        *)
LEMMA EntrySet ==
  ASSUME NEW e \in Entries, NEW k \in Int
  PROVE  /\ [e EXCEPT !.recv = k] \in Entries /\ [e EXCEPT !.recv = k].who = e.who
         /\ [e EXCEPT !.recv = k].port = e.port
         /\ [e EXCEPT !.acked = k] \in Entries /\ [e EXCEPT !.acked = k].who = e.who
         /\ [e EXCEPT !.acked = k].port = e.port
<1>1. e \in [who : Clients, port : BOOLEAN, recv : Int, acked : Int]
  BY DEF Entries
<1> QED
  BY <1>1 DEF Entries

LEMMA EntryTouched ==
  ASSUME NEW q, NEW n, Tidy(q, n), NEW i \in 1..Len(q), NEW e \in Entries,
         e.who = q[i].who, e.port = q[i].port
  PROVE  LET r == [q EXCEPT ![i] = e]
         IN /\ Tidy(r, n) /\ InLine(r, n) = InLine(q, n) /\ ThoseIn(r, n) = ThoseIn(q, n)
            /\ Goes(q, n, r)
<1> DEFINE r == [q EXCEPT ![i] = e]
<1>1. q \in Seq(Entries)
  BY TidyIs
<1>2. r \in Seq(Entries) /\ Len(r) = Len(q) /\ \A k \in 1..Len(q) : r[k] = IF k = i THEN e ELSE q[k]
  BY <1>1
<1> HIDE DEF r
<1>3. Tidy(r, n) /\ InLine(r, n) = InLine(q, n) /\ ThoseIn(r, n) = ThoseIn(q, n)
  BY <1>2, Touched
<1>4. Goes(q, n, r)
  BY <1>3 DEF Goes, Served
<1> QED
  BY <1>3, <1>4 DEF r

LEMMA SameGoes ==
  ASSUME NEW q, NEW n, Tidy(q, n)
  PROVE  Goes(q, n, q)
BY DEF Goes, Served

LEMMA EnterQueueGoes ==
  ASSUME NEW n, Tidy(queue, n), NEW c \in Clients, EnterQueue(c)
  PROVE  Goes(queue, n, queue')
<1>1. /\ queue \in Seq(Entries) /\ DOMAIN queue = 1..Len(queue) /\ Len(queue) \in Nat
      /\ \A k \in 1..Len(queue) : queue[k] \in Entries
  BY TidyIs
<1>2. CASE Queued(c) # {}
  <2> DEFINE i == Min(Queued(c))
             e == [queue[i] EXCEPT !.recv = 0]
  <2>1. Queued(c) \in SUBSET Nat /\ Queued(c) \subseteq 1..Len(queue)
    BY <1>1 DEF Queued
  <2>2. i \in 1..Len(queue)
    BY <1>2, <2>1, LeastIsThere
  <2>3. queue' = [queue EXCEPT ![i] = e]
    BY <1>2 DEF EnterQueue
  <2> HIDE DEF i
  <2>4. e \in Entries /\ e.who = queue[i].who /\ e.port = queue[i].port
    <3>1. queue[i] \in Entries /\ 0 \in Int
      BY <1>1, <2>2
    <3> QED
      BY <3>1, EntrySet
  <2> HIDE DEF e
  <2> QED
    BY <2>2, <2>3, <2>4, EntryTouched
<1>3. CASE Queued(c) = {}
  <2> DEFINE e == Entry(c)
  <2>1. queue' = Append(queue, e)
    BY <1>3 DEF EnterQueue
  <2>2. e \in Entries /\ e.who = c /\ ~e.port
    BY DEF Entry, Entries
  <2>3. \A k \in 1..Len(queue) : queue[k].who # c
    BY <1>1, <1>3 DEF Queued
  <2> HIDE DEF e
  <2>4. /\ Tidy(queue', n)
        /\ c \notin ToSet(InLine(queue, n))
        /\ InLine(queue', n) = Append(InLine(queue, n), c)
        /\ ThoseIn(queue', n) = ThoseIn(queue, n)
    BY <2>1, <2>2, <2>3, ComesLast
  <2> QED
    BY <2>4 DEF Goes, Served
<1> QED
  BY <1>2, <1>3

LEMMA AdvanceGoes ==
  ASSUME NEW n, Tidy(queue, n), NEW c \in Clients, Advance(c)
  PROVE  Goes(queue, n, queue')
<1>1. /\ queue \in Seq(Entries) /\ DOMAIN queue = 1..Len(queue) /\ Len(queue) \in Nat
      /\ n \in 0..Len(queue)
  BY TidyIs
<1>2. PICK i \in 1..Len(queue) :
        /\ ~queue[i].port
        /\ queue' = InsertAt(RemoveAt(queue, i), LastEntering(queue, i - 1) + 1, queue[i])
  BY <1>1 DEF Advance, Queued
<1>3. i > n /\ \A k \in 1..Len(queue) : queue[k].port <=> k <= n
  BY <1>1, <1>2 DEF Tidy
<1>4. LastEntering(queue, i - 1) = n
  <2>1. {k \in 1..(i - 1) : queue[k].port} = 1..n
    BY <1>1, <1>3
  <2> QED
    BY <2>1, PortsCounted DEF LastEntering
<1>5. queue' = InsertAt(RemoveAt(queue, i), n + 1, queue[i])
  BY <1>2, <1>4
<1>6. /\ Tidy(queue', n)
      /\ i - n \in DOMAIN InLine(queue, n)
      /\ InLine(queue', n) = <<InLine(queue, n)[i - n]>> \o RemoveAt(InLine(queue, n), i - n)
      /\ ThoseIn(queue', n) = ThoseIn(queue, n)
  BY <1>3, <1>5, MovesUp
<1> QED
  BY <1>6 DEF Goes, Served

LEMMA InputGoes ==
  ASSUME NEW n, Tidy(queue, n), Input
  PROVE  Goes(queue, n, queue')
<1>1. /\ queue \in Seq(Entries) /\ Len(queue) \in Nat
      /\ \A k \in 1..Len(queue) : queue[k] \in Entries
  BY TidyIs
<1>2. ASSUME NEW e \in Entries
      PROVE  Aged(e) \in Entries /\ Aged(e).who = e.who /\ Aged(e).port = e.port
  <2> DEFINE a == Min({e.recv + 1, QueueLoops + 1})
             b == Min({e.acked + 1, Max({AckLoops + 1, PositionLoops})})
             f == [e EXCEPT !.recv = a]
  <2>1. e.recv \in Int /\ e.acked \in Int /\ QueueLoops \in Int /\ AckLoops \in Int /\ PositionLoops \in Int
    BY AdmissionAssumption DEF Entries, AdmissionAssumption
  <2>2. a \in Int
    BY <2>1, LesserOfTwo
  <2>3. Max({AckLoops + 1, PositionLoops}) \in Int
    BY <2>1, GreaterOfTwo
  <2>4. b \in Int
    BY <2>1, <2>3, LesserOfTwo
  <2>5. Aged(e) = [f EXCEPT !.acked = b]
    BY DEF Aged
  <2> HIDE DEF a, b
  <2>6. f \in Entries /\ f.who = e.who /\ f.port = e.port
    BY <2>2, EntrySet
  <2> HIDE DEF f
  <2> QED
    BY <2>4, <2>5, <2>6, EntrySet
<1> DEFINE r == [i \in 1..Len(queue) |-> Aged(queue[i])]
<1>3. queue' = r
  BY DEF Input, AllAged
<1>4. ASSUME NEW k \in 1..Len(queue)
      PROVE  r[k] \in Entries /\ r[k].who = queue[k].who /\ r[k].port = queue[k].port
  BY <1>1, <1>2
<1>5. Len(r) = Len(queue) /\ r \in Seq(Entries)
  BY <1>1, <1>4
<1> HIDE DEF r
<1>6. Tidy(r, n) /\ InLine(r, n) = InLine(queue, n) /\ ThoseIn(r, n) = ThoseIn(queue, n)
  BY <1>4, <1>5, Touched
<1> QED
  BY <1>3, <1>6 DEF Goes, Served

(* One of those who are entering is reminded; of those before him some     *)
(* are dropped, and nobody behind him is looked at.                        *)
LEMMA ReminderGoes ==
  ASSUME NEW n, Tidy(queue, n), Reminded # {}, queue' = ReminderSent
  PROVE  Goes(queue, n, queue')
<1> DEFINE q == queue
           l == Len(q)
           i == Min(Reminded)
           p == SubSeq(q, 1, i - 1)
           e == [q[i] EXCEPT !.acked = 0]
           s == Kept(p)
           t == SubSeq(q, i + 1, l)
           r == s \o <<e>> \o t
<1>1. /\ q \in Seq(Entries) /\ l \in Nat /\ n \in 0..l /\ DOMAIN q = 1..l
      /\ \A k \in 1..l : q[k] \in Entries
      /\ \A k \in 1..l : q[k].port <=> k <= n
      /\ \A j, k \in 1..l : q[j].who = q[k].who => j = k
  BY TidyIs DEF Tidy
<1>2. i \in 1..l /\ i <= n /\ q[i] \in Entries
  <2>1. Reminded \in SUBSET Nat /\ \A k \in Reminded : k \in 1..l /\ q[k].port
    BY <1>1 DEF Reminded
  <2>2. i \in Reminded
    BY <2>1, LeastIsThere
  <2> HIDE DEF i
  <2> QED
    BY <1>1, <2>1, <2>2
<1>3. queue' = r
  BY DEF ReminderSent
<1> HIDE DEF i, q
<1>4. e \in Entries /\ e.who = q[i].who /\ e.port
  <2>1. q[i] \in Entries /\ 0 \in Int /\ q[i].port
    BY <1>1, <1>2
  <2> QED
    BY <2>1, EntrySet
<1> HIDE DEF l
<1>5. p \in Seq(Entries) /\ Len(p) = i - 1 /\ \A k \in 1..(i - 1) : p[k] = q[k]
  <2>1. i - 1 \in 0..l
    BY <1>1, <1>2
  <2> QED
    BY <1>1, <2>1 DEF l
<1>6. t \in Seq(Entries) /\ Len(t) = l - i /\ \A k \in 1..(l - i) : t[k] = q[i + k]
  <2>1. l = Len(q) /\ q \in Seq(Entries) /\ l \in Nat /\ i \in 1..l
    BY <1>1, <1>2 DEF l
  <2>2. t \in Seq(Entries)
    BY <2>1
  <2>3. Len(t) = l - i
    BY <2>1
  <2>4. \A k \in 1..(l - i) : t[k] = q[i + k]
    BY <2>1
  <2> QED
    BY <2>2, <2>3, <2>4
<1> HIDE DEF e, p, t
<1>7. Tidy(p, i - 1)
  <2>1. \A k \in 1..(i - 1) : k \in 1..l /\ k <= n
    BY <1>1, <1>2
  <2> QED
    BY <1>1, <1>2, <1>5, <2>1 DEF Tidy
<1>8. PICK m \in 0..(i - 1) : /\ Tidy(s, m) /\ Len(s) = m
                              /\ ThoseIn(s, m) \subseteq ThoseIn(p, i - 1)
  <2>1. PICK m \in 0..(i - 1) : /\ Tidy(s, m) /\ Len(s) - m = Len(p) - (i - 1)
                                /\ ThoseIn(s, m) \subseteq ThoseIn(p, i - 1)
    BY <1>7, KeptThins
  <2>2. Len(s) = m
    <3>1. Len(s) \in Nat
      BY <2>1, TidyIs
    <3> HIDE DEF s
    <3> QED
      BY <1>2, <1>5, <2>1, <3>1
  <2> QED
    BY <2>1, <2>2
<1> HIDE DEF s
<1>9. /\ s \in Seq(Entries)
      /\ \A j \in 1..m : s[j].port /\ \E k \in 1..(i - 1) : s[j].who = q[k].who
      /\ \A j, k \in 1..m : s[j].who = s[k].who => j = k
  <2>1. \A j \in 1..m : s[j].who \in ThoseIn(p, i - 1)
    BY <1>8 DEF ThoseIn
  <2>2. ASSUME NEW j \in 1..m PROVE \E k \in 1..(i - 1) : s[j].who = q[k].who
    <3>1. PICK k \in 1..(i - 1) : s[j].who = p[k].who
      BY <2>1 DEF ThoseIn
    <3> QED
      BY <1>5, <3>1
  <2>3. \A j \in 1..m : s[j].port
    BY <1>8 DEF Tidy
  <2> QED
    BY <1>8, <2>2, <2>3 DEF Tidy
<1> DEFINE c == s \o <<e>>
           o == m + 1 + (n - i)
<1>10. c \in Seq(Entries) /\ Len(c) = m + 1 /\ \A k \in 1..(m + 1) : c[k] = IF k <= m THEN s[k] ELSE e
  <2>1. m \in Nat /\ Len(s) = m /\ s \in Seq(Entries)
    BY <1>2, <1>8, <1>9
  <2> QED
    BY <1>4, <2>1
<1>11. r = c \o t
  OBVIOUS
<1> HIDE DEF c, r
<1>12. /\ r \in Seq(Entries) /\ Len(r) = m + 1 + (l - i)
       /\ \A k \in 1..(m + 1 + (l - i)) : r[k] = IF k <= m + 1 THEN c[k] ELSE t[k - (m + 1)]
  <2> DEFINE d == l - i
             b == m + 1
  <2>1. b \in Nat /\ d \in Nat
    BY <1>1, <1>2
  <2>2. c \in Seq(Entries) /\ Len(c) = b /\ t \in Seq(Entries) /\ Len(t) = d
    BY <1>6, <1>10
  <2> HIDE DEF b, d
  <2>3. /\ c \o t \in Seq(Entries) /\ Len(c \o t) = b + d
        /\ \A k \in 1..(b + d) : (c \o t)[k] = IF k <= b THEN c[k] ELSE t[k - b]
    BY <2>1, <2>2
  <2> QED
    BY <1>11, <2>3 DEF b, d
<1>13. ASSUME NEW k \in 1..(m + 1 + (l - i))
       PROVE  \/ k <= m /\ r[k] = s[k]
              \/ k = m + 1 /\ r[k] = e
              \/ /\ k > m + 1 /\ r[k] = q[k + (i - (m + 1))]
                 /\ k + (i - (m + 1)) \in (i + 1)..l
  <2>0. m \in Nat /\ i \in Nat /\ l \in Nat /\ m < i
    BY <1>1, <1>2
  <2>1. CASE k <= m
    BY <1>10, <1>12, <2>0, <2>1
  <2>2. CASE k = m + 1
    BY <1>10, <1>12, <2>0, <2>2
  <2>3. CASE k > m + 1
    <3>1. /\ k - (m + 1) \in 1..(l - i) /\ i + (k - (m + 1)) = k + (i - (m + 1))
          /\ k + (i - (m + 1)) \in (i + 1)..l /\ ~(k <= m + 1)
      BY <2>0, <2>3
    <3>2. r[k] = t[k - (m + 1)] /\ t[k - (m + 1)] = q[i + (k - (m + 1))]
      BY <1>6, <1>12, <3>1
    <3> QED
      BY <2>3, <3>1, <3>2
  <2> QED
    BY <2>0, <2>1, <2>2, <2>3
<1>14. ASSUME NEW k \in 1..(m + 1 + (l - i))
       PROVE  \E j \in 1..l : /\ r[k].who = q[j].who
                              /\ k <= m => j < i
                              /\ k = m + 1 => j = i
                              /\ k > m + 1 => j > i /\ j = k + (i - (m + 1))
  <2>0. m \in Nat /\ i \in 1..l /\ l \in Nat /\ m < i
    BY <1>1, <1>2
  <2>1. CASE k <= m /\ r[k] = s[k]
    <3>1. PICK j \in 1..(i - 1) : s[k].who = q[j].who
      BY <1>9, <2>1
    <3>2. j \in 1..l /\ j < i /\ ~(k = m + 1) /\ ~(k > m + 1)
      BY <2>0, <2>1
    <3> QED
      BY <2>1, <3>1, <3>2
  <2>2. CASE k = m + 1 /\ r[k] = e
    <3>1. ~(k <= m) /\ ~(k > m + 1)
      BY <2>0, <2>2
    <3> QED
      BY <1>4, <2>0, <2>2, <3>1
  <2>3. CASE /\ k > m + 1 /\ r[k] = q[k + (i - (m + 1))]
             /\ k + (i - (m + 1)) \in (i + 1)..l
    <3>1. ~(k <= m) /\ ~(k = m + 1) /\ k + (i - (m + 1)) \in 1..l /\ k + (i - (m + 1)) > i
      BY <2>0, <2>3
    <3> QED
      BY <2>3, <3>1
  <2> QED
    BY <1>13, <2>1, <2>2, <2>3
<1>15. ASSUME NEW a \in 1..(m + 1 + (l - i)), NEW b \in 1..(m + 1 + (l - i)), r[a].who = r[b].who
       PROVE  a = b
  <2>0. m \in Nat /\ i \in Nat /\ l \in Nat /\ a \in Nat /\ b \in Nat
    BY <1>1, <1>2
  <2>1. PICK j \in 1..l : /\ r[a].who = q[j].who
                          /\ a <= m => j < i
                          /\ a = m + 1 => j = i
                          /\ a > m + 1 => j > i /\ j = a + (i - (m + 1))
    BY <1>14
  <2>2. PICK k \in 1..l : /\ r[b].who = q[k].who
                          /\ b <= m => k < i
                          /\ b = m + 1 => k = i
                          /\ b > m + 1 => k > i /\ k = b + (i - (m + 1))
    BY <1>14
  <2>3. j = k
    BY <1>1, <1>15, <2>1, <2>2
  <2>4. CASE a <= m
    <3>1. b <= m
      BY <2>0, <2>1, <2>2, <2>3, <2>4
    <3>2. a \in 1..m /\ b \in 1..m /\ r[a] = s[a] /\ r[b] = s[b]
      BY <1>13, <2>0, <2>4, <3>1
    <3> QED
      BY <1>9, <1>15, <3>2
  <2>5. CASE a = m + 1
    BY <2>0, <2>1, <2>2, <2>3, <2>5
  <2>6. CASE a > m + 1
    BY <2>0, <2>1, <2>2, <2>3, <2>6
  <2> QED
    BY <2>0, <2>4, <2>5, <2>6
<1>16. Tidy(r, o)
  <2>0. m \in Nat /\ i \in 1..n /\ n \in 0..l /\ l \in Nat /\ m < i
    BY <1>1, <1>2
  <2>1. o \in 0..(m + 1 + (l - i))
    BY <2>0
  <2>2. ASSUME NEW k \in 1..(m + 1 + (l - i)) PROVE r[k].port <=> k <= o
    <3>1. CASE k <= m /\ r[k] = s[k]
      BY <1>9, <2>0, <3>1
    <3>2. CASE k = m + 1 /\ r[k] = e
      BY <1>4, <2>0, <3>2
    <3>3. CASE /\ k > m + 1 /\ r[k] = q[k + (i - (m + 1))]
               /\ k + (i - (m + 1)) \in (i + 1)..l
      <4>1. k + (i - (m + 1)) \in 1..l /\ (k + (i - (m + 1)) <= n <=> k <= o)
        BY <2>0, <3>3
      <4> QED
        BY <1>1, <3>3, <4>1
    <3> QED
      BY <1>13, <3>1, <3>2, <3>3
  <2> QED
    BY <1>12, <1>15, <2>1, <2>2 DEF Tidy
<1>17. InLine(r, o) = InLine(q, n)
  <2>0. m \in Nat /\ i \in 1..n /\ n \in 0..l /\ l \in Nat /\ m < i
    BY <1>1, <1>2
  <2>1. Len(r) - o = l - n
    BY <1>12, <2>0
  <2>2. ASSUME NEW k \in 1..(l - n) PROVE r[o + k] = q[n + k]
    <3>1. /\ o + k \in 1..(m + 1 + (l - i)) /\ o + k > m + 1
          /\ (o + k) + (i - (m + 1)) = n + k
      BY <2>0
    <3>2. r[o + k] = q[(o + k) + (i - (m + 1))]
      BY <1>13, <2>0, <3>1
    <3> QED
      BY <3>1, <3>2
  <2>3. [k \in 1..(l - n) |-> r[o + k].who] = [k \in 1..(l - n) |-> q[n + k].who]
    BY <2>2
  <2> QED
    BY <2>1, <2>3 DEF InLine, l
<1>18. ThoseIn(r, o) \subseteq ThoseIn(q, n)
  <2>0. m \in Nat /\ i \in 1..n /\ n \in 0..l /\ l \in Nat /\ m < i
    BY <1>1, <1>2
  <2>1. ASSUME NEW k \in 1..o PROVE r[k].who \in ThoseIn(q, n)
    <3>1. k \in 1..(m + 1 + (l - i))
      BY <2>0
    <3>2. PICK j \in 1..l : /\ r[k].who = q[j].who
                            /\ k <= m => j < i
                            /\ k = m + 1 => j = i
                            /\ k > m + 1 => j > i /\ j = k + (i - (m + 1))
      BY <1>14, <3>1
    <3>3. j \in 1..n
      BY <2>0, <3>2
    <3> QED
      BY <3>2, <3>3 DEF ThoseIn
  <2> QED
    BY <2>1 DEF ThoseIn
<1> QED
  <2>1. Goes(q, n, r)
    BY <1>16, <1>17, <1>18 DEF Goes, Served
  <2> QED
    BY <1>3, <2>1 DEF q

(* The first who waits is let in, or those who wait are looked at.         *)
LEMMA QueueLoopGoes ==
  ASSUME NEW n, Tidy(queue, n), NEW kicked \in 0..1, QueueLoop(kicked)
  PROVE  Goes(queue, n, queue')
<1>1. CASE Reminded # {}
  BY <1>1, ReminderGoes DEF QueueLoop
<1>2. CASE Reminded = {}
  <2> DEFINE q == Kept(queue)
             waiting == {i \in DOMAIN q : ~q[i].port}
             first == FirstOf(waiting)
  <2>1. PICK m \in 0..n : /\ Tidy(q, m)
                          /\ InLine(q, m) = InLine(queue, n)
                          /\ ThoseIn(q, m) \subseteq ThoseIn(queue, n)
    BY KeptThins
  <2>2. \/ queue' = q
        \/ /\ waiting # {}
           /\ \/ LetIn(q, first, kicked)
              \/ queue' = RemoveAt(q, first)
              \/ Report(q, first)
    BY <1>2 DEF QueueLoop
  <2> HIDE DEF q
  <2>3. /\ q \in Seq(Entries) /\ DOMAIN q = 1..Len(q) /\ Len(q) \in Nat /\ m \in 0..Len(q)
        /\ \A k \in 1..Len(q) : q[k] \in Entries
        /\ \A k \in 1..Len(q) : q[k].port <=> k <= m
    BY <2>1, TidyIs DEF Tidy
  <2>4. waiting # {} => first = m + 1 /\ m < Len(q)
    <3>1. waiting \in SUBSET Nat /\ \A k : k \in waiting <=> k \in 1..Len(q) /\ k > m
      BY <2>3
    <3> HIDE DEF waiting
    <3> SUFFICES ASSUME waiting # {} PROVE first = m + 1 /\ m < Len(q)
      OBVIOUS
    <3>2. first \in waiting /\ \A k \in waiting : first <= k
      BY <3>1, LeastIsThere DEF FirstOf
    <3> HIDE DEF first
    <3>3. m + 1 \in waiting
      BY <2>3, <3>1, <3>2
    <3> QED
      BY <2>3, <3>1, <3>2, <3>3
  <2> HIDE DEF waiting, first
  <2>5. CASE queue' = q
    BY <2>1, <2>5 DEF Goes, Served
  <2>6. ASSUME NEW i \in 1..Len(q), i > m, queue' = RemoveAt(q, i) PROVE Goes(queue, n, queue')
    <3>1. /\ Tidy(queue', m)
          /\ i - m \in DOMAIN InLine(q, m)
          /\ InLine(queue', m) = RemoveAt(InLine(q, m), i - m)
          /\ ThoseIn(queue', m) = ThoseIn(q, m)
      BY <2>1, <2>6, GivesUp
    <3> QED
      BY <2>1, <3>1 DEF Goes, Served
  <2>7. CASE waiting # {} /\ queue' = RemoveAt(q, first)
    BY <2>3, <2>4, <2>6, <2>7
  <2>8. CASE /\ waiting # {}
             /\ queue' = [q EXCEPT ![first].port = TRUE, ![first].acked = 0]
    <3>1. /\ Tidy(queue', m + 1)
          /\ InLine(q, m) # <<>> /\ InLine(queue', m + 1) = Tail(InLine(q, m))
          /\ ThoseIn(queue', m + 1) = ThoseIn(q, m) \cup {Head(InLine(q, m))}
      BY <2>1, <2>4, <2>8, GetsPort
    <3> QED
      BY <2>1, <3>1 DEF Goes, Served
  <2>9. CASE waiting # {} /\ LetIn(q, first, kicked)
    BY <2>7, <2>8, <2>9 DEF LetIn
  <2>10. CASE waiting # {} /\ Report(q, first)
    <3> DEFINE due == {k \in first..Len(q) : Silent(q[k]) \/ q[k].acked >= PositionLoops}
               i == Min(due)
    <3>1. queue' = IF due = {} THEN q ELSE IF Silent(q[i]) THEN RemoveAt(q, i)
                                      ELSE [q EXCEPT ![i].acked = 0]
      BY <2>10 DEF Report
    <3>2. due \in SUBSET Nat /\ \A k \in due : k \in 1..Len(q) /\ k > m
      BY <2>3, <2>4, <2>10
    <3>3. due # {} => i \in 1..Len(q) /\ i > m
      BY <3>2, LeastIsThere
    <3> HIDE DEF due, i
    <3>4. CASE due # {} /\ queue' = [q EXCEPT ![i].acked = 0]
      <4> DEFINE e == [q[i] EXCEPT !.acked = 0]
      <4>1. q[i] \in Entries /\ 0 \in Int
        BY <2>3, <3>3, <3>4
      <4>2. e \in Entries /\ e.who = q[i].who /\ e.port = q[i].port
        BY <4>1, EntrySet
      <4>3. queue' = [q EXCEPT ![i] = e]
        BY <3>4
      <4> HIDE DEF e
      <4>4. Tidy(q, m) /\ i \in 1..Len(q)
        BY <2>1, <3>3, <3>4
      <4>5. /\ Tidy(queue', m) /\ InLine(queue', m) = InLine(q, m)
            /\ ThoseIn(queue', m) = ThoseIn(q, m)
        <5> DEFINE r == [q EXCEPT ![i] = e]
        <5>1. Tidy(r, m) /\ InLine(r, m) = InLine(q, m) /\ ThoseIn(r, m) = ThoseIn(q, m)
          BY <4>2, <4>4, EntryTouched
        <5> QED
          BY <5>1, <4>3
      <4> QED
        BY <2>1, <4>5 DEF Goes, Served
    <3> QED
      BY <2>5, <2>6, <3>1, <3>3, <3>4
  <2> QED
    BY <2>2, <2>5, <2>7, <2>9, <2>10
<1> QED
  BY <1>1, <1>2

LEMMA QueueGoes ==
  ASSUME NEW n, Tidy(queue, n), [Next]_vars
  PROVE  Goes(queue, n, queue')
<1>1. CASE UNCHANGED queue
  BY <1>1, SameGoes
<1>2. CASE \E c \in Clients : EnterQueue(c) \/ Advance(c)
  BY <1>2, EnterQueueGoes, AdvanceGoes
<1>3. CASE Input
  BY <1>3, InputGoes
<1>4. CASE EndLoop
  BY <1>4, QueueLoopGoes DEF EndLoop
<1>5. CASE Packet /\ ~(\E c \in Clients : EnterQueue(c) \/ Advance(c))
  <2>1. UNCHANGED queue
    BY <1>5 DEF Packet, KickRobot, Verify, ReceiveAck, Login, PlayOn, Hangup
  <2> QED
    BY <2>1, <1>1
<1>6. CASE UNCHANGED vars
  BY <1>1, <1>6 DEF vars
<1> QED
  BY <1>2, <1>3, <1>4, <1>5, <1>6 DEF Next

QueueIsTidy == \E n : Tidy(queue, n)

LEMMA TidyInit ==
  ASSUME Init
  PROVE  Tidy(queue, 0) /\ Waiting = <<>> /\ Entering = {}
<1>1. Tidy(queue, 0)
  BY DEF Init, Tidy
<1>2. queue = <<>> /\ Len(queue) - 0 = 0
  BY DEF Init
<1>3. InLine(queue, 0) = <<>>
  BY <1>1, <1>2, TidyIs
<1>4. ThoseIn(queue, 0) = {}
  BY DEF ThoseIn
<1> QED
  BY <1>1, <1>3, <1>4, WaitingIs

LEMMA TidyStep ==
  ASSUME QueueIsTidy, [Next]_vars
  PROVE  QueueIsTidy' /\ Served(Waiting, Entering, Waiting', Entering')
<1>1. PICK n : Tidy(queue, n)
  BY DEF QueueIsTidy
<1>2. PICK m : /\ Tidy(queue', m)
               /\ Served(InLine(queue, n), ThoseIn(queue, n), InLine(queue', m), ThoseIn(queue', m))
  BY <1>1, QueueGoes DEF Goes
<1>3. Waiting = InLine(queue, n) /\ Entering = ThoseIn(queue, n)
  BY <1>1, WaitingIs
<1>4. Waiting' = InLine(queue', m) /\ Entering' = ThoseIn(queue', m)
  BY <1>2, WaitingBecomes
<1>5. Served(Waiting, Entering, Waiting', Entering')
  BY <1>2, <1>3, <1>4
<1>6. QueueIsTidy'
  BY <1>2 DEF QueueIsTidy
<1> QED
  BY <1>5, <1>6

LEMMA ServedIsStep ==
  ASSUME Served(Waiting, Entering, Waiting', Entering')
  PROVE  Ordered!Next
<1>1. CASE /\ Waiting # <<>> /\ Waiting' = Tail(Waiting)
           /\ Entering' \subseteq Entering \cup {Head(Waiting)} /\ Head(Waiting) \in Entering'
  BY <1>1 DEF Ordered!Next, Ordered!LetIn
<1>2. CASE Waiting' = Waiting /\ Entering' \subseteq Entering
  BY <1>2 DEF Ordered!Next, Ordered!Leave
<1>3. CASE /\ Entering' = Entering
           /\ \E c \in Clients : c \notin ToSet(Waiting) /\ Waiting' = Append(Waiting, c)
  <2>1. PICK c \in Clients : c \notin ToSet(Waiting) /\ Waiting' = Append(Waiting, c)
    BY <1>3
  <2>2. Ordered!Join(c)
    BY <1>3, <2>1 DEF Ordered!Join, Ordered!ToSet, ToSet
  <2> QED
    BY <2>2 DEF Ordered!Next
<1>4. CASE /\ Entering' \subseteq Entering
           /\ \E i \in DOMAIN Waiting : Waiting' = RemoveAt(Waiting, i)
  <2>1. PICK i \in DOMAIN Waiting : Waiting' = RemoveAt(Waiting, i)
    BY <1>4
  <2>2. Ordered!GiveUp(i)
    BY <1>4, <2>1 DEF Ordered!GiveUp, Ordered!RemoveAt, RemoveAt
  <2>3. i \in Ordered!Places
    BY <2>1 DEF Ordered!Places
  <2> QED
    BY <2>2, <2>3 DEF Ordered!Next
<1>5. CASE /\ Entering' = Entering
           /\ \E i \in DOMAIN Waiting : Waiting' = <<Waiting[i]>> \o RemoveAt(Waiting, i)
  <2>1. PICK i \in DOMAIN Waiting : Waiting' = <<Waiting[i]>> \o RemoveAt(Waiting, i)
    BY <1>5
  <2>2. Ordered!Advance(i)
    BY <1>5, <2>1 DEF Ordered!Advance, Ordered!RemoveAt, RemoveAt
  <2>3. i \in Ordered!Places
    BY <2>1 DEF Ordered!Places
  <2> QED
    BY <2>2, <2>3 DEF Ordered!Next
<1> QED
  BY <1>1, <1>2, <1>3, <1>4, <1>5 DEF Served

(* Those who are entering come first, and nobody is queued twice           *)
(* (contact.c:686, 712), whatever is relinked, dropped or appended.        *)
THEOREM EnteringStayFirst == Spec => []EnteringFirst
<1>1. Init => QueueIsTidy
  BY TidyInit DEF QueueIsTidy
<1>2. QueueIsTidy /\ [Next]_vars => QueueIsTidy'
  BY TidyStep
<1>3. QueueIsTidy => EnteringFirst
  <2> SUFFICES ASSUME NEW n, Tidy(queue, n) PROVE EnteringFirst
    BY DEF QueueIsTidy
  <2>1. DOMAIN queue = 1..Len(queue) /\ n \in Nat
    BY TidyIs
  <2>2. \A k \in DOMAIN queue : k \in Nat /\ (queue[k].port <=> k <= n)
    BY <2>1 DEF Tidy
  <2>3. \A i, j \in DOMAIN queue : i < j /\ queue[j].port => queue[i].port
    BY <2>1, <2>2
  <2>4. \A i, j \in DOMAIN queue : queue[i].who = queue[j].who => i = j
    BY <2>1 DEF Tidy
  <2> QED
    BY <2>3, <2>4 DEF EnteringFirst
<1> QED
  BY <1>1, <1>2, <1>3, PTL DEF Spec

(* Clients are served in the order in which they came, unless an operator  *)
(* moves somebody to the front: the queue implements OrderedEntry.         *)
THEOREM ClientsAreServedInOrder == Spec => ServedInOrder
<1>1. Init => QueueIsTidy /\ Ordered!Init
  BY TidyInit DEF QueueIsTidy, Ordered!Init
<1>2. QueueIsTidy /\ [Next]_vars => QueueIsTidy' /\ [Ordered!Next]_<<Waiting, Entering>>
  BY TidyStep, ServedIsStep
<1> QED
  BY <1>1, <1>2, PTL DEF Spec, ServedInOrder, Ordered!Spec
=============================================================================
