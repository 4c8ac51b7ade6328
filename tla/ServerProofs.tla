---------------------------- MODULE ServerProofs ----------------------------
(***************************************************************************)
(* Six parts of the server that work by themselves: the scheduler hears    *)
(* every connection, for any number of them, the round trip estimator      *)
(* stays in range, for every framesPerSecond, the options are what the     *)
(* strongest setting says, however many lines are read, what clients show  *)
(* of fuel stations and what they say with their keys comes true, and a    *)
(* frame shows what is there.                                              *)
(***************************************************************************)
EXTENDS RttEstimator, Dispatch, Options, FuelDisplay, ClientInput, FrameView, Counting

(***************************************************************************)
(* The scheduler.  The table of sockets and handlers is good (Sound) after *)
(* each of the calls that Main_loop and the handlers make, also after      *)
(* those that fail half-way, so it does not matter between which of them   *)
(* the signal comes.  That a connection which Main_loop ends is never in   *)
(* the hands of a handler follows from where sched is when SIGALRM is not  *)
(* blocked (InPlace).                                                      *)
(***************************************************************************)

\* The descriptors that are ever needed: one for each connection.
InReach == Contact..Contact + MaxConnections

SchedTables == [sock : [Conns -> InReach \cup {NoSocket}], handlers : [Fds -> Int],
                inputMask : SUBSET InReach, maxFd : Int, open : SUBSET InReach, exited : BOOLEAN]

Sound(t) ==
  /\ t \in SchedTables /\ ~t.exited
  /\ t.open = t.inputMask
  /\ t.open = {Contact} \cup ({t.sock[s] : s \in Conns} \ {NoSocket})
  /\ \A s \in Conns : t.sock[s] # Contact
  /\ \A s, u \in Conns : s # u /\ t.sock[s] # NoSocket => t.sock[s] # t.sock[u]
  /\ \A s \in Conns : t.sock[s] # NoSocket => t.handlers[t.sock[s]] = s
  /\ t.handlers[Contact] = ContactHandler
  /\ \A fd \in t.open : fd <= t.maxFd

\* Where sched is with the signal blocked, and when the connection of its
\* handler may be gone.
InPlace ==
  /\ pc \in {"dispatch", "handling", "handled"} => blocked \/ retimed
  /\ pc \in {"handling", "handled"} => at >= Contact
  /\ at \in Int
  /\ gone => /\ retimed
             /\ \/ pc = "dispatch" /\ at >= Contact
                \/ pc \in {"handling", "handled"} /\ at > Contact

SchedInv == Sound(Scheduled) /\ InPlace

LEMMA DescriptorFacts ==
  /\ Contact \in Nat /\ MaxConnections \in Nat /\ NumSelectFd \in Nat
  /\ Contact \in InReach /\ InReach \subseteq Fds /\ InReach \subseteq Nat /\ Conns \subseteq Nat
  /\ \A fd \in InReach : InRange(fd)
  /\ NoSocket \notin Fds
BY DispatchAssumption DEF InReach, Fds, Conns, InRange, NoSocket

LEMMA HighestIsThere ==
  ASSUME NEW S \in SUBSET InReach, S # {}
  PROVE  Max(S) \in S /\ \A m \in S : m <= Max(S)
<1> DEFINE top == Contact + MaxConnections
           T == {top - m : m \in S}
<1>1. top \in Nat /\ \A m \in S : m \in Nat /\ m <= top
  BY DescriptorFacts DEF InReach
<1>2. T \in SUBSET Nat /\ T # {}
  BY <1>1
<1>3. PICK n \in T : \A m \in T : n <= m
  <2> HIDE DEF T
  <2> QED
    BY <1>2, LeastNumber
<1>4. PICK x \in S : n = top - x
  BY <1>3
<1>5. ASSUME NEW m \in S PROVE m <= x
  <2>1. n <= top - m
    BY <1>3
  <2> HIDE DEF top
  <2> QED
    BY <1>1, <1>4, <2>1
<1>6. \E y \in S : \A m \in S : y >= m
  BY <1>1, <1>5
<1>7. Max(S) \in S /\ \A m \in S : Max(S) >= m
  BY <1>6 DEF Max
<1> QED
  BY <1>1, <1>7

(* A descriptor that is free and in reach, if a connection is.             *)
LEMMA FreeIsInReach ==
  ASSUME NEW t, Sound(t), NEW c \in Conns, t.sock[c] = NoSocket
  PROVE  FreeFd(t) \in InReach /\ FreeFd(t) \notin t.open
<1>1. t.open \subseteq InReach /\ t.sock \in [Conns -> InReach \cup {NoSocket}]
  BY DEF Sound, SchedTables
<1>2. ~(InReach \subseteq t.open)
  <2> SUFFICES ASSUME InReach \subseteq t.open PROVE FALSE
    OBVIOUS
  <2> DEFINE g == [s \in Conns |-> IF t.sock[s] = NoSocket THEN Contact ELSE t.sock[s]]
  <2>1. g \in [Conns -> InReach]
    BY <1>1, DescriptorFacts
  <2>2. ASSUME NEW fd \in InReach PROVE \E s \in Conns : g[s] = fd
    <3>1. fd \in t.open
      OBVIOUS
    <3>2. CASE fd = Contact
      BY <3>2
    <3>3. CASE fd # Contact
      <4>1. PICK s \in Conns : fd = t.sock[s]
        BY <3>1, <3>3 DEF Sound
      <4>2. fd # NoSocket
        BY DescriptorFacts
      <4> QED
        BY <4>1, <4>2
    <3> QED
      BY <3>2, <3>3
  <2> HIDE DEF g
  <2>3. g \in Surjection(Conns, InReach)
    BY <2>1, <2>2 DEF Surjection
  <2>4. IsFiniteSet(Conns) /\ Cardinality(Conns) = MaxConnections
    BY DescriptorFacts, FS_Interval DEF Conns
  <2>5. Cardinality(InReach) = MaxConnections + 1
    BY DescriptorFacts, FS_Interval DEF InReach
  <2>6. Cardinality(InReach) <= Cardinality(Conns)
    BY <2>3, <2>4, FS_Surjection
  <2> QED
    BY <2>4, <2>5, <2>6, DescriptorFacts
<1>3. PICK fd \in InReach : fd \notin t.open
  BY <1>2
<1> DEFINE free == Fds \ t.open
<1>4. free \in SUBSET Nat /\ fd \in free
  BY <1>3, DescriptorFacts DEF Fds
<1>5. Min(free) \in free /\ Min(free) <= fd
  <2> HIDE DEF free
  <2> QED
    BY <1>4, LeastIsThere
<1> QED
  BY <1>5, DescriptorFacts DEF FreeFd, InReach, Fds

(* Destroy_connection leaves the table good and ends this connection only. *)
LEMMA DestroyLeavesSound ==
  ASSUME NEW t, Sound(t), NEW c \in Conns
  PROVE  Sound(DestroyConnection(t, c))
<1>1. CASE t.sock[c] = NoSocket
  BY <1>1 DEF DestroyConnection
<1>2. CASE t.sock[c] # NoSocket
  <2> DEFINE fd == t.sock[c]
             rest == t.inputMask \ {fd}
             max == IF fd = t.maxFd THEN HighestOf(rest, fd) ELSE t.maxFd
             u == DestroyConnection(t, c)
  <2>1. t \in SchedTables /\ fd \in t.open /\ fd \in InReach /\ fd # Contact
    BY <1>2 DEF Sound, SchedTables
  <2>2. InRange(fd) /\ fd \in t.inputMask
    BY <2>1, DescriptorFacts DEF Sound
  <2>3. Contact \in rest /\ rest \subseteq InReach
    BY <2>1 DEF Sound, SchedTables
  <2>4. HighestOf(rest, fd) = Max(rest)
    BY <2>3 DEF HighestOf
  <2>5. Max(rest) \in Int /\ \A m \in rest : m <= Max(rest)
    <3>1. PICK S : S = rest
      OBVIOUS
    <3>2. S \in SUBSET InReach /\ S # {}
      BY <2>3, <3>1
    <3>3. Max(S) \in S /\ \A m \in S : m <= Max(S)
      BY <3>2, HighestIsThere
    <3>4. Max(S) \in Int
      <4>1. S \subseteq Nat
        BY <3>2, DescriptorFacts
      <4>2. Max(S) \in Nat
        BY <3>3, <4>1
      <4> QED
        BY <4>2
    <3> QED
      BY <3>1, <3>3, <3>4
  <2>6. max \in Int /\ \A m \in rest : m <= max
    BY <2>1, <2>4, <2>5 DEF Sound, SchedTables
  <2>7. u = [sock |-> [t.sock EXCEPT ![c] = NoSocket], handlers |-> [t.handlers EXCEPT ![fd] = Dummy],
             inputMask |-> rest, maxFd |-> max, open |-> t.open \ {fd}, exited |-> t.exited]
    BY <1>2, <2>1, <2>2 DEF DestroyConnection, RemoveInput, SchedTables
  <2> HIDE DEF max, u
  <2>8. u \in SchedTables /\ ~u.exited /\ u.open = u.inputMask
    <3>1. [t.sock EXCEPT ![c] = NoSocket] \in [Conns -> InReach \cup {NoSocket}]
      BY <2>1 DEF SchedTables
    <3>2. [t.handlers EXCEPT ![fd] = Dummy] \in [Fds -> Int]
      <4>1. Dummy \in Int /\ t.handlers \in [Fds -> Int]
        BY <2>1 DEF SchedTables, Dummy
      <4> HIDE DEF fd
      <4> QED
        BY <4>1
    <3>3. t.open \ {fd} = rest /\ t.exited = FALSE
      BY <2>1 DEF Sound, SchedTables
    <3> QED
      BY <2>3, <2>6, <2>7, <3>1, <3>2, <3>3 DEF SchedTables
  <2>9. \A s \in Conns : u.sock[s] = IF s = c THEN NoSocket ELSE t.sock[s]
    BY <2>1, <2>7 DEF SchedTables
  <2>10. \A f \in Fds : u.handlers[f] = IF f = fd THEN Dummy ELSE t.handlers[f]
    BY <2>1, <2>7 DEF SchedTables
  <2>11. u.open = {Contact} \cup ({u.sock[s] : s \in Conns} \ {NoSocket})
    <3>1. \A s \in Conns : s # c => t.sock[s] # fd
      BY <1>2 DEF Sound
    <3>2. u.open = t.open \ {fd}
      BY <2>7
    <3>3. t.open = {Contact} \cup ({t.sock[s] : s \in Conns} \ {NoSocket})
      BY DEF Sound
    <3> QED
      BY <2>1, <2>9, <3>1, <3>2, <3>3
  <2>12. \A s \in Conns : u.sock[s] # NoSocket => u.sock[s] # fd /\ u.sock[s] \in Fds
    BY <1>2, <2>1, <2>9, DescriptorFacts DEF Sound, SchedTables
  <2>13. /\ \A s \in Conns : u.sock[s] # NoSocket => u.handlers[u.sock[s]] = s
         /\ u.handlers[Contact] = ContactHandler
    BY <2>1, <2>9, <2>10, <2>12, DescriptorFacts DEF Sound
  <2>14. \A f \in u.open : f <= u.maxFd
    BY <2>6, <2>7, <2>8
  <2>15. \A s \in Conns : u.sock[s] # Contact
    BY <2>9, DescriptorFacts DEF Sound
  <2>16. \A s, v \in Conns : s # v /\ u.sock[s] # NoSocket => u.sock[s] # u.sock[v]
    BY <2>9 DEF Sound
  <2>17. Sound(u)
    BY <2>8, <2>11, <2>13, <2>14, <2>15, <2>16 DEF Sound
  <2> QED
    BY <2>17 DEF u
<1> QED
  BY <1>1, <1>2

(* Setup_connection leaves the table good, whatever fails.                 *)
LEMMA SetupLeavesSound ==
  ASSUME NEW t, Sound(t), NEW u \in SetupOutcomes(t)
  PROVE  Sound(u)
<1> DEFINE free   == {s \in Conns : t.sock[s] = NoSocket}
           fd     == FreeFd(t)
           opened == [t EXCEPT !.open = @ \cup {fd}]
           c      == Min(free)
           mine   == [opened EXCEPT !.sock[c] = fd]
<1>1. CASE free = {}
  BY <1>1 DEF SetupOutcomes
<1>2. CASE free # {}
  <2>1. c \in Conns /\ t.sock[c] = NoSocket
    <3>1. free \in SUBSET Nat /\ free # {}
      BY <1>2, DescriptorFacts
    <3>2. Min(free) \in free
      <4> HIDE DEF free
      <4> QED
        BY <3>1, LeastIsThere
    <3> QED
      BY <3>2
  <2>2. fd \in InReach /\ fd \notin t.open
    BY <2>1, FreeIsInReach
  <2>3. u \in {t, DgramClose(opened, fd), DestroyConnection(mine, c), InstallInput(mine, c, fd)}
    BY <1>2 DEF SetupOutcomes
  <2> HIDE DEF fd, c, free
  <2>4. t \in SchedTables /\ t.inputMask = t.open
    BY DEF Sound
  <2>5. mine = [sock |-> [t.sock EXCEPT ![c] = fd], handlers |-> t.handlers,
                inputMask |-> t.inputMask, maxFd |-> t.maxFd, open |-> t.open \cup {fd},
                exited |-> t.exited]
    <3>1. opened = [sock |-> t.sock, handlers |-> t.handlers, inputMask |-> t.inputMask,
                    maxFd |-> t.maxFd, open |-> t.open \cup {fd}, exited |-> t.exited]
      BY <2>4 DEF SchedTables
    <3> HIDE DEF opened
    <3> QED
      BY <3>1
  <2>6. mine.sock[c] = fd /\ fd # NoSocket /\ InRange(fd) /\ fd \notin mine.inputMask
    BY <2>1, <2>2, <2>4, <2>5, DescriptorFacts DEF SchedTables
  <2>7. DgramClose(opened, fd) = t
    <3>1. DgramClose(opened, fd) = [t EXCEPT !.open = (t.open \cup {fd}) \ {fd}]
      BY <2>4 DEF DgramClose, SchedTables
    <3>2. (t.open \cup {fd}) \ {fd} = t.open
      BY <2>2
    <3> QED
      BY <2>4, <3>1, <3>2 DEF SchedTables
  <2>8. DestroyConnection(mine, c) = t
    <3> HIDE DEF mine
    <3>1. RemoveInput(mine, fd) = mine
      BY <2>6 DEF RemoveInput
    <3>2. DestroyConnection(mine, c) = [mine EXCEPT !.open = @ \ {fd}, !.sock[c] = NoSocket]
      BY <2>6, <3>1 DEF DestroyConnection
    <3>3. [[t.sock EXCEPT ![c] = fd] EXCEPT ![c] = NoSocket] = t.sock
      BY <2>1, <2>4 DEF SchedTables
    <3>4. (t.open \cup {fd}) \ {fd} = t.open
      BY <2>2
    <3>5. [mine EXCEPT !.open = @ \ {fd}, !.sock[c] = NoSocket]
            = [sock |-> t.sock, handlers |-> t.handlers, inputMask |-> t.inputMask,
               maxFd |-> t.maxFd, open |-> t.open, exited |-> t.exited]
      <4> DEFINE closed == [mine EXCEPT !.open = @ \ {fd}]
      <4>1. closed = [sock |-> [t.sock EXCEPT ![c] = fd], handlers |-> t.handlers,
                      inputMask |-> t.inputMask, maxFd |-> t.maxFd, open |-> t.open,
                      exited |-> t.exited]
        BY <2>5, <3>4
      <4> HIDE DEF closed
      <4>2. [closed EXCEPT !.sock = [closed.sock EXCEPT ![c] = NoSocket]]
              = [sock |-> t.sock, handlers |-> t.handlers, inputMask |-> t.inputMask,
                 maxFd |-> t.maxFd, open |-> t.open, exited |-> t.exited]
        BY <3>3, <4>1
      <4> QED
        BY <4>2 DEF closed
    <3> QED
      BY <2>4, <3>2, <3>5 DEF SchedTables
  <2>9. CASE u = InstallInput(mine, c, fd)
    <3> DEFINE max == IF fd > t.maxFd THEN fd ELSE t.maxFd
    <3> HIDE DEF mine
    <3>1. u = [mine EXCEPT !.handlers[fd] = c, !.inputMask = @ \cup {fd},
                           !.maxFd = IF fd > @ THEN fd ELSE @]
      BY <2>6, <2>9 DEF InstallInput
    <3>2. u = [sock |-> [t.sock EXCEPT ![c] = fd], handlers |-> [t.handlers EXCEPT ![fd] = c],
               inputMask |-> t.inputMask \cup {fd}, maxFd |-> max, open |-> t.open \cup {fd},
               exited |-> t.exited]
      BY <2>5, <3>1
    <3>3. max \in Int /\ fd <= max /\ \A m \in t.open : m <= max
      BY <2>2, <2>4, DescriptorFacts DEF Sound, SchedTables
    <3> HIDE DEF max
    <3>4. c \in Int
      BY <2>1, DescriptorFacts
    <3>5. u \in SchedTables /\ ~u.exited /\ u.open = u.inputMask
      BY <2>2, <2>4, <3>2, <3>3, <3>4 DEF Sound, SchedTables
    <3>6. \A s \in Conns : u.sock[s] = IF s = c THEN fd ELSE t.sock[s]
      BY <2>4, <3>2 DEF SchedTables
    <3>7. \A f \in Fds : u.handlers[f] = IF f = fd THEN c ELSE t.handlers[f]
      BY <2>4, <3>2 DEF SchedTables
    <3>8. \A s \in Conns : t.sock[s] # NoSocket => t.sock[s] \in t.open /\ t.sock[s] # fd
      BY <2>2 DEF Sound
    <3>9. u.open = {Contact} \cup ({u.sock[s] : s \in Conns} \ {NoSocket})
      <4>1. t.open = {Contact} \cup ({t.sock[s] : s \in Conns} \ {NoSocket})
        BY DEF Sound
      <4>2. u.open = t.open \cup {fd}
        BY <3>2
      <4> QED
        BY <2>1, <2>6, <3>6, <4>1, <4>2
    <3>10. fd # Contact
      BY <2>2 DEF Sound
    <3>11. /\ \A s \in Conns : u.sock[s] # NoSocket => u.handlers[u.sock[s]] = s
           /\ u.handlers[Contact] = ContactHandler
      <4>1. fd \in Fds /\ Contact \in Fds /\ t.open \subseteq Fds
        BY <2>2, <2>4, DescriptorFacts DEF SchedTables
      <4> QED
        BY <3>6, <3>7, <3>8, <3>10, <4>1 DEF Sound
    <3>12. \A f \in u.open : f <= u.maxFd
      BY <3>2, <3>3
    <3>13. \A s \in Conns : u.sock[s] # Contact
      BY <3>6, <3>10 DEF Sound
    <3>14. \A s, v \in Conns : s # v /\ u.sock[s] # NoSocket => u.sock[s] # u.sock[v]
      BY <2>1, <2>6, <3>6, <3>8 DEF Sound
    <3> QED
      BY <3>5, <3>9, <3>11, <3>12, <3>13, <3>14 DEF Sound
  <2> QED
    BY <2>3, <2>7, <2>8, <2>9
<1> QED
  BY <1>1, <1>2

\* The good tables, and a step of the loop of EndAll.
SoundTables == {t \in SchedTables : Sound(t)}
EndOne(ended) == [x \in (1..MaxConnections) \X SoundTables |->
                    IF x[1] - 1 \in ended THEN DestroyConnection(x[2], x[1] - 1) ELSE x[2]]

(* Input, whichever connections it ends.                                   *)
LEMMA EndAllLeavesSound ==
  ASSUME NEW t, Sound(t), NEW ended \in SUBSET Conns
  PROVE  Sound(EndAll(t, ended))
<1> DEFINE n == MaxConnections
           S == SoundTables
           Loop(f) == f = [k \in 0..n |->
                             IF k = 0 THEN t
                             ELSE IF k - 1 \in ended THEN DestroyConnection(f[k - 1], k - 1)
                             ELSE f[k - 1]]
<1>1. t \in S /\ n \in Nat
  BY DescriptorFacts DEF SoundTables, Sound
<1>2. EndOne(ended) \in Rounded(n, S)
  <2>1. ASSUME NEW x \in (1..n) \X S
        PROVE  (IF x[1] - 1 \in ended THEN DestroyConnection(x[2], x[1] - 1) ELSE x[2]) \in S
    <3>1. Sound(x[2])
      BY DEF SoundTables
    <3>2. CASE x[1] - 1 \in ended
      <4>1. Sound(DestroyConnection(x[2], x[1] - 1))
        BY <3>1, <3>2, DestroyLeavesSound
      <4> QED
        BY <3>2, <4>1 DEF SoundTables, Sound
    <3> QED
      BY <3>2
  <2> QED
    BY <2>1 DEF EndOne, Rounded
<1>3. PICK f : /\ f \in [0..n -> S] /\ f[0] = t
               /\ \A k \in 1..n : f[k] = EndOne(ended)[<<k, f[k - 1]>>]
  <2> HIDE DEF n, S
  <2>1. PICK f : Run(f, n, S, t, EndOne(ended))
    BY <1>1, <1>2, Iterated
  <2> QED
    BY <2>1 DEF Run
<1>4. ASSUME NEW k \in 1..n
      PROVE  f[k] = IF k - 1 \in ended THEN DestroyConnection(f[k - 1], k - 1) ELSE f[k - 1]
  <2>1. k - 1 \in 0..n /\ f[k - 1] \in S
    <3> HIDE DEF n, S
    <3> QED
      BY <1>1, <1>3
  <2>2. EndOne(ended)[<<k, f[k - 1]>>]
          = IF k - 1 \in ended THEN DestroyConnection(f[k - 1], k - 1) ELSE f[k - 1]
    BY <2>1, Zenon DEF EndOne
  <2> QED
    BY <1>3, <2>2
<1>5. Loop(f)
  <2> DEFINE g == [k \in 0..n |->
                     IF k = 0 THEN t
                     ELSE IF k - 1 \in ended THEN DestroyConnection(f[k - 1], k - 1)
                     ELSE f[k - 1]]
  <2>1. ASSUME NEW k \in 0..n PROVE f[k] = g[k]
    <3>1. k = 0 \/ k \in 1..n
      BY <1>1
    <3> QED
      BY <1>3, <1>4, <3>1
  <2>2. f = [k \in 0..n |-> f[k]]
    BY <1>3
  <2> HIDE DEF g
  <2>3. g = [k \in 0..n |-> g[k]]
    BY DEF g
  <2>4. f = g
    BY <2>1, <2>2, <2>3
  <2> QED
    BY <2>4 DEF g
<1> DEFINE upTo == CHOOSE h : Loop(h)
<1>6. Loop(upTo)
  <2> HIDE DEF Loop
  <2> QED
    BY <1>5
<1>7. EndAll(t, ended) = upTo[n]
  BY DEF EndAll
<1> HIDE DEF upTo
<1>8. \A k \in 0..n : upTo[k] = IF k = 0 THEN t
                                ELSE IF k - 1 \in ended THEN DestroyConnection(upTo[k - 1], k - 1)
                                ELSE upTo[k - 1]
  BY <1>6
<1> HIDE DEF Loop
<1> DEFINE K == {k \in 0..n : Sound(upTo[k])}
<1>9. 0 \in K
  BY <1>1, <1>8
<1>10. ASSUME NEW k \in 1..n, k - 1 \in K PROVE k \in K
  <2>1. Sound(upTo[k - 1]) /\ k \in 0..n /\ k # 0
    BY <1>10
  <2>2. CASE k - 1 \in ended
    <3>1. Sound(DestroyConnection(upTo[k - 1], k - 1))
      BY <2>1, <2>2, DestroyLeavesSound
    <3> QED
      BY <1>8, <2>1, <2>2, <3>1
  <2>3. CASE k - 1 \notin ended
    BY <1>8, <2>1, <2>3
  <2> QED
    BY <2>2, <2>3
<1>11. \A k \in 0..n : k \in K
  <2> HIDE DEF K, n
  <2> QED
    BY <1>1, <1>9, <1>10, UpTo
<1>12. n \in K
  BY <1>1, <1>11
<1> QED
  BY <1>7, <1>12

(* What a call of the scheduler's table leaves is what the variables say.  *)
LEMMA SchedulesSound ==
  ASSUME NEW t, Sound(t), Schedules(t)
  PROVE  Sound(Scheduled)'
<1>1. t = [sock |-> t.sock, handlers |-> t.handlers, inputMask |-> t.inputMask,
           maxFd |-> t.maxFd, open |-> t.open, exited |-> t.exited]
  BY DEF Sound, SchedTables
<1>2. Scheduled' = t
  BY <1>1 DEF Scheduled, Schedules
<1> QED
  BY <1>2

LEMMA SameTableSound ==
  ASSUME Sound(Scheduled), UNCHANGED schedTable
  PROVE  Sound(Scheduled)'
<1>1. Scheduled' = Scheduled
  BY DEF Scheduled, schedTable
<1> QED
  BY <1>1

LEMMA SchedInvInit ==
  ASSUME SchedInit
  PROVE  SchedInv
<1> DEFINE t == Scheduled
<1>1. t = [sock |-> [s \in Conns |-> NoSocket],
           handlers |-> [fd \in Fds |-> IF fd = Contact THEN ContactHandler ELSE Dummy],
           inputMask |-> {Contact}, maxFd |-> Contact, open |-> {Contact}, exited |-> FALSE]
  BY DEF Scheduled, SchedInit
<1> HIDE DEF t
<1>2. t \in SchedTables
  BY <1>1, DescriptorFacts DEF SchedTables, ContactHandler, Dummy
<1>3. /\ \A s \in Conns : t.sock[s] = NoSocket
      /\ t.handlers[Contact] = ContactHandler
      /\ t.open = {Contact} /\ t.inputMask = {Contact} /\ t.maxFd = Contact /\ ~t.exited
  BY <1>1, DescriptorFacts
<1>4. NoSocket # Contact /\ Contact <= Contact
  BY DescriptorFacts
<1>5. Sound(t)
  BY <1>2, <1>3, <1>4 DEF Sound
<1>6. InPlace
  BY DEF SchedInit, InPlace
<1> QED
  BY <1>5, <1>6 DEF SchedInv, t

LEMMA SchedInvStep ==
  ASSUME SchedInv, [SchedNext]_schedVars
  PROVE  SchedInv'
<1>1. Sound(Scheduled) /\ InPlace /\ Contact \in Nat
  BY DescriptorFacts DEF SchedInv
<1>2. CASE OnTimer
  <2>1. PICK ended \in SUBSET {s \in Conns : sock[s] # NoSocket} :
          /\ \E t \in SetupOutcomes(EndAll(Scheduled, ended)) : Schedules(t)
          /\ gone' = (gone \/ InHand \in ended)
    BY <1>2 DEF OnTimer
  <2>2. Sound(Scheduled)'
    <3>1. Sound(EndAll(Scheduled, ended))
      BY <1>1, <2>1, EndAllLeavesSound
    <3>2. PICK t \in SetupOutcomes(EndAll(Scheduled, ended)) : Schedules(t)
      BY <2>1
    <3>3. Sound(t)
      BY <3>1, <3>2, SetupLeavesSound
    <3> QED
      BY <3>2, <3>3, SchedulesSound
  <2>3. InHand \in ended => pc = "handling" /\ at > Contact
    <3> SUFFICES ASSUME InHand \in ended PROVE pc = "handling" /\ at > Contact
      OBVIOUS
    <3>1. InHand \in Nat
      BY <2>1, DescriptorFacts
    <3>2. pc = "handling" /\ handlers[at] \in Nat
      BY <3>1 DEF InHand, Dummy
    <3>3. at >= Contact /\ at \in Int
      BY <1>1, <3>2 DEF InPlace
    <3>4. handlers[Contact] = -2
      BY <1>1 DEF Sound, Scheduled, ContactHandler
    <3>5. at # Contact
      BY <3>2, <3>4
    <3> QED
      BY <1>1, <3>2, <3>3, <3>5
  <2>4. /\ ~blocked /\ UNCHANGED <<at, blocked, retimed>>
        /\ pc' = IF pc = "select" THEN "copy" ELSE pc
    BY <1>2 DEF OnTimer
  <2>5. InPlace'
    BY <1>1, <2>1, <2>3, <2>4 DEF InPlace
  <2> QED
    BY <2>2, <2>5 DEF SchedInv
<1>3. CASE Handle
  <2>1. Sound(Scheduled)'
    <3>1. CASE UNCHANGED schedTable
      BY <1>1, <3>1, SameTableSound
    <3>2. CASE \E s \in Conns : sock[s] # NoSocket /\ Schedules(DestroyConnection(Scheduled, s))
      BY <1>1, <3>2, DestroyLeavesSound, SchedulesSound
    <3> QED
      BY <1>3, <3>1, <3>2 DEF Handle
  <2>2. InPlace'
    BY <1>1, <1>3 DEF Handle, InPlace
  <2> QED
    BY <2>1, <2>2 DEF SchedInv
<1>4. CASE Copy \/ Select \/ Block \/ Call \/ Return \/ Round
  <2>1. UNCHANGED schedTable
    BY <1>4 DEF Copy, Select, Block, Call, Return, Round
  <2>2. Sound(Scheduled)'
    BY <1>1, <2>1, SameTableSound
  <2>3. maxFd \in Int
    BY <1>1 DEF Sound, SchedTables, Scheduled
  <2>4. InPlace'
    BY <1>1, <1>4, <2>3 DEF InPlace, Copy, Select, Block, Blocking, Call, Return, Round
  <2> QED
    BY <2>2, <2>4 DEF SchedInv
<1>5. CASE UNCHANGED schedVars
  <2>1. UNCHANGED schedTable
    BY <1>5 DEF schedVars
  <2>2. InPlace'
    BY <1>1, <1>5 DEF schedVars, InPlace
  <2> QED
    BY <1>1, <2>1, <2>2, SameTableSound DEF SchedInv
<1> QED
  BY <1>2, <1>3, <1>4, <1>5 DEF SchedNext

(* Every connection is heard, however many there are, whichever way one is *)
(* set up, fails half-way or ends, and wherever the timer signal comes;    *)
(* the table of handlers never overflows, and no connection ends while its *)
(* handler runs unless a handler has set the timer (sched.c:162, 194,      *)
(* 256).                                                                   *)
THEOREM EveryoneStaysHeard == SchedSpec => []EveryoneIsHeard
<1>1. SchedInv => EveryoneIsHeard
  BY DEF SchedInv, Sound, Scheduled, InPlace, EveryoneIsHeard
<1> QED
  BY <1>1, SchedInvInit, SchedInvStep, PTL DEF SchedSpec
-----------------------------------------------------------------------------
(***************************************************************************)
(* The round trip estimator.  EstimatorInRange is inductive as it stands:  *)
(* the estimate and the deviation are both replaced by a weighted mean of  *)
(* themselves and of a bounded value, and the rounding of the shifts never *)
(* carries them over the bound.                                            *)
(***************************************************************************)

Inv == TypeOK /\ EstimatorInRange

(* rtt_smoothed: adding the error to an estimate in range gives one, and   *)
(* the error is smaller than MAX_RTT.                                      *)
LEMMA SmoothedStep ==
  ASSUME NEW max \in Nat \ {0}, NEW rtt \in 1..max, NEW s \in 8..(8 * max)
  PROVE  /\ s + (rtt - (s \div 8)) \in 8..(8 * max)
         /\ rtt - (s \div 8) \in (1 - max)..(max - 1)
<1>1. (s \div 8) \in 1..max
  BY SMT
<1>2. s - (s \div 8) >= 7 /\ s - (s \div 8) <= 7 * max
  BY SMT
<1> QED
  BY <1>1, <1>2, SMT

(* rtt_dev: likewise.                                                      *)
LEMMA DeviationStep ==
  ASSUME NEW max \in Nat \ {0}, NEW e \in 0..(max - 1), NEW d \in 0..(4 * (max - 1))
  PROVE  d + e - (d \div 4) \in 0..(4 * (max - 1))
BY SMT

(* The timeout made of the two.                                            *)
LEMMA TimeoutStep ==
  ASSUME NEW max \in Nat \ {0}, NEW s \in 8..(8 * max), NEW d \in 0..(4 * (max - 1))
  PROVE  ((s \div 4) + d) \div 2 \in 0..(3 * max - 2)
BY SMT

(* A measurement keeps the estimator in range.                             *)
LEMMA MeasureInRange ==
  ASSUME Inv, NEW rtt \in Rtts, Measure(rtt)
  PROVE  Inv'
<1> DEFINE max == MAX_RTT
           s   == PriorEstimate(rtt)
           e   == AbsoluteError(rtt)
<1>1. max \in Nat \ {0} /\ Fps \in Nat \ {0} /\ rtt \in 1..max
  BY FpsAssumption, RttsAssumption DEF Measure, Usable, MAX_RTT
<1>2. s \in 8..(8 * max)
  <2>1. CASE rtt_smoothed = 0
    <3>1. s = 8 * rtt
      BY <2>1 DEF PriorEstimate
    <3> HIDE DEF s, max
    <3> QED
      BY <1>1, <3>1, SMT
  <2>2. CASE rtt_smoothed # 0
    BY <2>2 DEF PriorEstimate, Inv, EstimatorInRange
  <2> QED
    BY <2>1, <2>2
<1>3. Error(rtt) = rtt - (s \div 8)
  BY DEF Error
<1> HIDE DEF max, s
<1>4. /\ s + Error(rtt) \in 8..(8 * max)
      /\ Error(rtt) \in (1 - max)..(max - 1)
  BY <1>1, <1>2, <1>3, SmoothedStep
<1>5. e \in 0..(max - 1)
  BY <1>1, <1>4, SMT DEF AbsoluteError
<1> HIDE DEF e
<1>6. rtt_smoothed' = s + Error(rtt)
  BY DEF Measure, s
<1>7. rtt_dev' = rtt_dev + e - (rtt_dev \div 4)
  BY DEF Measure, e
<1>8. rtt_dev \in 0..(4 * (max - 1))
  BY DEF Inv, EstimatorInRange, max
<1>9. rtt_dev' \in 0..(4 * (max - 1))
  BY <1>1, <1>5, <1>7, <1>8, DeviationStep
<1>10. ((rtt_smoothed' \div 4) + rtt_dev') \div 2 \in 0..(3 * max - 2)
  BY <1>1, <1>4, <1>6, <1>9, TimeoutStep
<1>11. MIN_RETRANSMIT \in 0..(3 * max - 2)
  <2>1. Fps \div 8 \in 0..Fps
    BY <1>1, SMT
  <2> QED
    BY <1>1, <2>1, SMT DEF MIN_RETRANSMIT, max, MAX_RTT
<1>12. rtt_retransmit' \in 0..MaxTimeout
  BY <1>10, <1>11 DEF Measure, MaxTimeout, max
<1> QED
  <2>1. TypeOK'
    BY <1>1, <1>4, <1>6, <1>9, <1>12, SMT DEF TypeOK, MaxTimeout, max
  <2>2. EstimatorInRange'
    BY <1>1, <1>4, <1>6, <1>9, <1>12, SMT DEF EstimatorInRange, max
  <2> QED
    BY <2>1, <2>2 DEF Inv

(* Arming the retransmission timer does, too: a doubled timeout was at     *)
(* most MAX_RETRANSMIT before.                                             *)
LEMMA TransmitInRange ==
  ASSUME Inv, NEW expired \in BOOLEAN, Transmit(expired)
  PROVE  Inv'
<1>1. Fps \in Nat \ {0}
  BY FpsAssumption
<1>2. rtt_retransmit' \in 0..MaxTimeout
  BY <1>1, SMT DEF Inv, EstimatorInRange, Transmit, TimeoutAfterSend, ArmedTimeout,
                   MAX_RETRANSMIT, MaxTimeout, MAX_RTT
<1> QED
  BY <1>1, <1>2, SMT DEF Inv, TypeOK, EstimatorInRange, Transmit, MaxTimeout, MAX_RTT

(* Every behaviour keeps the estimator in range: the value Receive_ack     *)
(* stores in rtt_retransmit is never longer than MaxTimeout, and           *)
(* rtt_smoothed = 0 keeps meaning that nothing was measured.               *)
THEOREM EstimatorStaysInRange == Spec => []EstimatorInRange
<1>1. Init => Inv
  <2> SUFFICES ASSUME Init PROVE Inv
    OBVIOUS
  <2>1. Fps \in Nat \ {0}
    BY FpsAssumption
  <2>2. Fps \div 2 \in 0..Fps
    BY <2>1, SMT
  <2> QED
    BY <2>1, <2>2, SMT DEF Init, Inv, TypeOK, EstimatorInRange, DEFAULT_RETRANSMIT, MaxTimeout, MAX_RTT
<1>2. Inv /\ [Next]_vars => Inv'
  <2> SUFFICES ASSUME Inv, [Next]_vars PROVE Inv'
    OBVIOUS
  <2>1. ASSUME NEW rtt \in Rtts, Measure(rtt) PROVE Inv'
    BY <2>1, MeasureInRange
  <2>2. ASSUME NEW rtt \in Rtts, Ignore(rtt) PROVE Inv'
    BY <2>2 DEF Ignore, vars, Inv, TypeOK, EstimatorInRange
  <2>3. ASSUME NEW expired \in BOOLEAN, Transmit(expired) PROVE Inv'
    BY <2>3, TransmitInRange
  <2>4. CASE UNCHANGED vars
    BY <2>4 DEF vars, Inv, TypeOK, EstimatorInRange
  <2> QED
    BY <2>1, <2>2, <2>3, <2>4 DEF Next
<1>3. Inv => EstimatorInRange
  BY DEF Inv
<1> QED
  BY <1>1, <1>2, <1>3, PTL DEF Spec

-----------------------------------------------------------------------------
(***************************************************************************)
(* The options.  The value of an option is the setting that decides among  *)
(* those given (Decides), and one more setting replaces it exactly when    *)
(* the new one is stronger, or as strong and not kept out by an override   *)
(* (Changeable, as ChangesIt says).                                        *)
(***************************************************************************)

Origins == {"COMMAND", "DEFAULTS", "PASSWORD", "MAP"}

\* Settings that have been made.
OptionNode == [text : Seq(Int), origin : Origins, override : BOOLEAN]

\* The first of its kind counts.
Locks(s) == s.override /\ s.origin # "COMMAND"

Decides(all, d) ==
  /\ d \in DOMAIN all
  /\ \A j \in DOMAIN all : Strength(all[j]) <= Strength(all[d])
  /\ \A j \in DOMAIN all : Strength(all[j]) = Strength(all[d]) =>
       IF Locks(all[d]) THEN d <= j ELSE j <= d

LEMMA StrengthIs ==
  ASSUME NEW a \in OptionNode, NEW b \in OptionNode
  PROVE  /\ Strength(a) \in 0..6
         /\ Strength(a) = Strength(b) => (Locks(a) <=> Locks(b))
<1>1. a.origin \in Origins /\ a.override \in BOOLEAN /\ b.origin \in Origins /\ b.override \in BOOLEAN
  BY DEF OptionNode
<1> QED
  BY <1>1 DEF Origins, Strength, Locks

LEMMA ChangesIt ==
  ASSUME NEW a \in OptionNode, NEW b \in OptionNode
  PROVE  Changeable(a, b.override, b.origin)
           <=> \/ Strength(a) < Strength(b)
               \/ Strength(a) = Strength(b) /\ ~Locks(b)
<1>1. a.origin \in Origins /\ a.override \in BOOLEAN /\ b.origin \in Origins /\ b.override \in BOOLEAN
  BY DEF OptionNode
<1>2. CASE b.origin = "COMMAND"
  BY <1>1, <1>2 DEF Origins, Strength, Locks, Changeable
<1>3. CASE b.origin = "DEFAULTS"
  BY <1>1, <1>3 DEF Origins, Strength, Locks, Changeable
<1>4. CASE b.origin = "PASSWORD"
  BY <1>1, <1>4 DEF Origins, Strength, Locks, Changeable
<1>5. CASE b.origin = "MAP"
  BY <1>1, <1>5 DEF Origins, Strength, Locks, Changeable
<1> QED
  BY <1>1, <1>2, <1>3, <1>4, <1>5 DEF Origins

LEMMA DecisiveIs ==
  ASSUME NEW all \in Seq(OptionNode), NEW d, Decides(all, d)
  PROVE  all # <<>> /\ Decisive(all) = all[d].text
<1> DEFINE S == Strongest(all)
           first == Min(S)
           last == Max(S)
<1>1. DOMAIN all = 1..Len(all) /\ Len(all) \in Nat /\ d \in 1..Len(all)
      /\ \A i \in 1..Len(all) : all[i] \in OptionNode
  BY DEF Decides
<1>2. \A i \in DOMAIN all : Strength(all[i]) \in 0..6
  BY <1>1, StrengthIs
<1>3. S \in SUBSET Nat /\ d \in S /\ \A i \in S : i \in DOMAIN all
  BY <1>1 DEF Strongest, Decides
<1>4. \A i \in S : Strength(all[i]) = Strength(all[d])
  BY <1>2, <1>3 DEF Strongest, Decides
<1>5. \A i \in S : Locks(all[i]) <=> Locks(all[d])
  BY <1>1, <1>3, <1>4, StrengthIs
<1>6. \A i \in S : IF Locks(all[d]) THEN d <= i ELSE i <= d
  BY <1>3, <1>4 DEF Decides
<1> HIDE DEF S
<1>7. first \in S /\ \A i \in S : first <= i
  BY <1>3, LeastIsThere
<1>8. CASE Locks(all[d])
  <2>1. first = d /\ Locks(all[first])
    <3>1. d <= first /\ first <= d /\ first \in Nat /\ d \in Nat
      BY <1>3, <1>6, <1>7, <1>8
    <3>2. Locks(all[first])
      BY <1>5, <1>7, <1>8
    <3> QED
      BY <3>1, <3>2
  <2> QED
    BY <1>1, <2>1 DEF Decisive, Locks, S
<1>9. CASE ~Locks(all[d])
  <2>1. ~Locks(all[first])
    BY <1>5, <1>7, <1>9
  <2>2. last = d
    <3>1. \A i \in S : i <= d
      BY <1>6, <1>9
    <3>2. \A x \in S : (\A y \in S : x >= y) => x = d
      BY <1>3, <3>1
    <3>3. \E x \in S : \A y \in S : x >= y
      BY <1>3, <3>1
    <3> QED
      BY <3>2, <3>3 DEF Max
  <2> QED
    BY <1>1, <2>1, <2>2 DEF Decisive, Locks, S
<1> QED
  BY <1>8, <1>9, <1>1

(* One more setting: who decides then.                                     *)
LEMMA OneMoreDecides ==
  ASSUME NEW all \in Seq(OptionNode), NEW e \in OptionNode, NEW d, Decides(all, d)
  PROVE  IF Changeable(all[d], e.override, e.origin)
         THEN Decides(Append(all, e), Len(all) + 1)
         ELSE Decides(Append(all, e), d)
<1> DEFINE n == Len(all)
           more == Append(all, e)
<1>1. n \in Nat /\ DOMAIN all = 1..n /\ d \in 1..n
      /\ \A i \in 1..n : all[i] \in OptionNode
  BY DEF Decides
<1>2. DOMAIN more = 1..(n + 1) /\ more[n + 1] = e /\ \A i \in 1..n : more[i] = all[i]
  BY <1>1
<1>3. \A i \in 1..n : Strength(all[i]) \in 0..6
  BY <1>1, StrengthIs
<1>4. Strength(e) \in 0..6 /\ (Strength(e) = Strength(all[d]) => (Locks(e) <=> Locks(all[d])))
  BY <1>1, StrengthIs
<1> HIDE DEF n, more
<1>5. CASE Changeable(all[d], e.override, e.origin)
  <2>1. Strength(all[d]) < Strength(e) \/ (Strength(all[d]) = Strength(e) /\ ~Locks(e))
    BY <1>1, <1>5, ChangesIt
  <2>2. \A i \in 1..n : Strength(all[i]) <= Strength(all[d])
    BY <1>1 DEF Decides
  <2>3. \A i \in 1..(n + 1) : Strength(more[i]) <= Strength(more[n + 1])
    <3> SUFFICES ASSUME NEW i \in 1..(n + 1) PROVE Strength(more[i]) <= Strength(e)
      BY <1>2
    <3>1. CASE i = n + 1
      BY <1>2, <1>4, <3>1
    <3>2. CASE i # n + 1
      <4>1. i \in 1..n
        BY <1>1, <3>2
      <4> QED
        BY <1>1, <1>2, <1>3, <1>4, <2>1, <2>2, <4>1
    <3> QED
      BY <3>1, <3>2
  <2>4. ASSUME NEW i \in 1..(n + 1), Strength(more[i]) = Strength(more[n + 1])
        PROVE  IF Locks(more[n + 1]) THEN n + 1 <= i ELSE i <= n + 1
    <3>1. CASE i = n + 1
      BY <1>1, <3>1
    <3>2. CASE i # n + 1
      <4>1. i \in 1..n
        BY <1>1, <3>2
      <4>2. Strength(all[i]) = Strength(e) /\ Strength(all[i]) <= Strength(all[d])
        BY <1>2, <2>2, <2>4, <4>1
      <4>3. ~Locks(e)
        BY <1>1, <1>3, <1>4, <2>1, <4>1, <4>2
      <4> QED
        BY <1>1, <1>2, <4>1, <4>3
    <3> QED
      BY <3>1, <3>2
  <2>5. Decides(more, n + 1)
    BY <1>1, <1>2, <2>3, <2>4 DEF Decides
  <2> QED
    BY <1>5, <2>5 DEF more, n
<1>6. CASE ~Changeable(all[d], e.override, e.origin)
  <2>1. Strength(e) <= Strength(all[d]) /\ (Strength(e) = Strength(all[d]) => Locks(e))
    BY <1>1, <1>3, <1>4, <1>6, ChangesIt
  <2>2. \A i \in 1..(n + 1) : Strength(more[i]) <= Strength(more[d])
    <3> SUFFICES ASSUME NEW i \in 1..(n + 1) PROVE Strength(more[i]) <= Strength(all[d])
      BY <1>1, <1>2
    <3>1. i = n + 1 \/ i \in 1..n
      BY <1>1
    <3> QED
      BY <1>1, <1>2, <2>1, <3>1 DEF Decides
  <2>3. ASSUME NEW i \in 1..(n + 1), Strength(more[i]) = Strength(more[d])
        PROVE  IF Locks(more[d]) THEN d <= i ELSE i <= d
    <3>1. CASE i = n + 1
      <4>1. Locks(all[d])
        BY <1>1, <1>2, <1>4, <2>1, <2>3, <3>1
      <4> QED
        BY <1>1, <1>2, <3>1, <4>1
    <3>2. CASE i # n + 1
      <4>1. i \in 1..n
        BY <1>1, <3>2
      <4> QED
        BY <1>1, <1>2, <2>3, <4>1 DEF Decides
    <3> QED
      BY <3>1, <3>2
  <2>4. Decides(more, d)
    BY <1>1, <1>2, <2>2, <2>3 DEF Decides
  <2> QED
    BY <1>6, <2>4 DEF more
<1> QED
  BY <1>5, <1>6

(***************************************************************************)
(* Whatever sets an option, from a line, a macro or the command line, goes *)
(* through Option_set_value, and that keeps the table right.               *)
(***************************************************************************)

\* The value of an option is its default, or that of the setting that decides.
Stands(t, name) ==
  IF t.given[name] = <<>> THEN t.nodes[name] = Node(Default(name), "INIT", FALSE)
  ELSE \E d \in DOMAIN t.given[name] :
         Decides(t.given[name], d) /\ t.nodes[name] = t.given[name][d]

Kept(t) ==
  /\ t.given \in [Watched -> Seq(OptionNode)]
  /\ Watched \subseteq DOMAIN t.nodes
  /\ \A name \in Watched : Stands(t, name)
  /\ Macro \in DOMAIN t.nodes =>
       t.nodes[Macro].origin \in Origins /\ t.nodes[Macro].text \in FpsSettings

LEMMA OneDecides ==
  ASSUME NEW e \in OptionNode
  PROVE  Decides(Append(<<>>, e), 1) /\ Append(<<>>, e)[1] = e
<1>1. Append(<<>>, e) = <<e>>
  OBVIOUS
<1>2. DOMAIN <<e>> = {1} /\ <<e>>[1] = e
  OBVIOUS
<1>3. Strength(e) \in 0..6
  BY StrengthIs
<1> QED
  BY <1>1, <1>2, <1>3 DEF Decides

LEMMA SettingKeeps ==
  ASSUME NEW t, Kept(t), NEW name, NEW text, NEW override \in BOOLEAN, NEW origin \in Origins,
         name \in Watched => text \in Seq(Int),
         name = Macro => text \in FpsSettings
  PROVE  Kept(SetValue(t, name, text, override, origin))
<1> DEFINE new == Node(text, origin, override)
           changes == Changeable(t.nodes[name], override, origin)
           nodes == IF name \in DOMAIN t.nodes /\ ~changes THEN t.nodes
                    ELSE [n \in DOMAIN t.nodes \cup {name} |-> IF n = name THEN new ELSE t.nodes[n]]
           makes == IF name \notin Watched THEN t.given
                    ELSE [t.given EXCEPT ![name] = Append(@, new)]
<1>1. CASE Described(name) /\ origin \notin Allowed[name]
  BY <1>1 DEF SetValue
<1>2. CASE ~(Described(name) /\ origin \notin Allowed[name])
  <2>1. SetValue(t, name, text, override, origin) = [nodes |-> nodes, given |-> makes]
    BY <1>2 DEF SetValue
  <2>2. new.text = text /\ new.origin = origin /\ new.override = override
    BY DEF Node
  <2> HIDE DEF changes
  <2>3. /\ Watched \subseteq DOMAIN nodes
        /\ \A n \in Watched : n # name => nodes[n] = t.nodes[n]
        /\ name \in DOMAIN t.nodes => nodes[name] = IF changes THEN new ELSE t.nodes[name]
    BY DEF Kept
  <2>4. Macro \in DOMAIN nodes => nodes[Macro].origin \in Origins /\ nodes[Macro].text \in FpsSettings
    <3> SUFFICES ASSUME Macro \in DOMAIN nodes
                 PROVE  nodes[Macro].origin \in Origins /\ nodes[Macro].text \in FpsSettings
      OBVIOUS
    <3>1. \/ nodes[Macro] = new /\ name = Macro
          \/ nodes[Macro] = t.nodes[Macro] /\ Macro \in DOMAIN t.nodes
      OBVIOUS
    <3> HIDE DEF nodes, new
    <3> QED
      BY <2>2, <3>1 DEF Kept
  <2> HIDE DEF nodes
  <2>5. CASE name \notin Watched
    <3>1. makes = t.given
      BY <2>5
    <3>2. \A n \in Watched : nodes[n] = t.nodes[n]
      BY <2>3, <2>5
    <3> HIDE DEF makes, new
    <3>3. \A n \in Watched : Stands([nodes |-> nodes, given |-> makes], n)
      BY <3>1, <3>2 DEF Stands, Kept
    <3> QED
      BY <2>1, <2>3, <2>4, <3>1, <3>3 DEF Kept
  <2>6. CASE name \in Watched
    <3>1. new \in OptionNode
      BY <2>6 DEF Node, OptionNode
    <3>2. t.given \in [Watched -> Seq(OptionNode)] /\ name \in DOMAIN t.nodes /\ Stands(t, name)
      BY <2>6 DEF Kept
    <3>3. makes = [t.given EXCEPT ![name] = Append(t.given[name], new)]
      BY <2>6
    <3> HIDE DEF makes, new
    <3>4. /\ makes \in [Watched -> Seq(OptionNode)]
          /\ makes[name] = Append(t.given[name], new)
          /\ \A n \in Watched : n # name => makes[n] = t.given[n]
      BY <2>6, <3>1, <3>2, <3>3
    <3>5. t.given[name] \in Seq(OptionNode)
      BY <2>6, <3>2
    <3>6. Append(t.given[name], new) # <<>>
          /\ DOMAIN Append(t.given[name], new) = 1..Len(t.given[name]) + 1
          /\ Append(t.given[name], new)[Len(t.given[name]) + 1] = new
          /\ \A i \in DOMAIN t.given[name] : Append(t.given[name], new)[i] = t.given[name][i]
                                             /\ i \in 1..Len(t.given[name]) + 1
      <4>1. PICK all : all = t.given[name]
        OBVIOUS
      <4>2. all \in Seq(OptionNode)
        BY <3>5, <4>1
      <4>3. /\ Append(all, new) # <<>>
            /\ DOMAIN Append(all, new) = 1..Len(all) + 1
            /\ Append(all, new)[Len(all) + 1] = new
            /\ \A i \in DOMAIN all : Append(all, new)[i] = all[i] /\ i \in 1..Len(all) + 1
        BY <3>1, <4>2
      <4> QED
        BY <4>1, <4>3
    <3>7. \E d \in DOMAIN makes[name] : Decides(makes[name], d) /\ nodes[name] = makes[name][d]
      <4>1. CASE t.given[name] = <<>>
        <5>1. t.nodes[name].origin = "INIT"
          BY <3>2, <4>1 DEF Stands, Node
        <5>2. changes
          BY <5>1 DEF Changeable, changes
        <5>3. nodes[name] = new
          BY <2>3, <3>2, <5>2
        <5> QED
          BY <3>1, <3>4, <3>6, <4>1, <5>3, OneDecides DEF Decides
      <4>2. CASE t.given[name] # <<>>
        <5>1. PICK d \in DOMAIN t.given[name] :
                Decides(t.given[name], d) /\ t.nodes[name] = t.given[name][d]
          BY <3>2, <4>2 DEF Stands
        <5>2. changes <=> Changeable(t.given[name][d], new.override, new.origin)
          BY <2>2, <5>1 DEF changes
        <5>3. IF changes THEN Decides(makes[name], Len(t.given[name]) + 1) ELSE Decides(makes[name], d)
          BY <3>1, <3>4, <3>5, <5>1, <5>2, OneMoreDecides
        <5>4. CASE changes
          BY <2>3, <3>2, <3>4, <3>6, <5>3, <5>4 DEF Decides
        <5>5. CASE ~changes
          BY <2>3, <3>2, <3>4, <3>6, <5>1, <5>3, <5>5 DEF Decides
        <5> QED
          BY <5>4, <5>5
      <4> QED
        BY <4>1, <4>2
    <3>8. makes[name] # <<>>
      BY <3>4, <3>6
    <3>9. \A n \in Watched : Stands([nodes |-> nodes, given |-> makes], n)
      <4> SUFFICES ASSUME NEW n \in Watched
                   PROVE  Stands([nodes |-> nodes, given |-> makes], n)
        OBVIOUS
      <4>1. CASE n = name
        BY <3>7, <3>8, <4>1 DEF Stands
      <4>2. CASE n # name
        <5>1. makes[n] = t.given[n] /\ nodes[n] = t.nodes[n] /\ Stands(t, n)
          BY <2>3, <3>4, <4>2 DEF Kept
        <5> QED
          BY <5>1 DEF Stands
      <4> QED
        BY <4>1, <4>2
    <3> QED
      BY <2>1, <2>3, <2>4, <3>4, <3>9 DEF Kept
  <2> QED
    BY <2>5, <2>6
<1> QED
  BY <1>1, <1>2

LEMMA TextsAre ==
  ASSUME NEW s \in FpsSettings
  PROVE  s.name = "fps" /\ s.text \in Seq(Int) /\ s.override \in BOOLEAN
<1>1. PICK x \in Texts, o \in BOOLEAN : s = Setting("fps", <<x>>, o)
  BY DEF FpsSettings
<1>2. x \in Int
  BY OptionsAssumption
<1>3. s.name = "fps" /\ s.text = <<x>> /\ s.override = o
  BY <1>1 DEF Setting
<1> QED
  BY <1>2, <1>3

LEMMA ExpandKeeps ==
  ASSUME NEW t, Kept(t)
  PROVE  Kept(Expand(t))
<1>1. CASE Macro \notin DOMAIN t.nodes
  BY <1>1 DEF Expand
<1>2. CASE Macro \in DOMAIN t.nodes
  <2>1. t.nodes[Macro].origin \in Origins /\ t.nodes[Macro].text \in FpsSettings
    BY <1>2 DEF Kept
  <2>2. PICK s, o : s = t.nodes[Macro].text /\ o = t.nodes[Macro].origin
    OBVIOUS
  <2>3. s.name = "fps" /\ s.text \in Seq(Int) /\ s.override \in BOOLEAN /\ o \in Origins
    BY <2>1, <2>2, TextsAre
  <2>4. Kept(SetValue(t, s.name, s.text, s.override, o))
    BY <2>3, SettingKeeps DEF Macro
  <2> QED
    BY <1>2, <2>2, <2>4 DEF Expand, Plain
<1> QED
  BY <1>1, <1>2

LEMMA LineKeeps ==
  ASSUME NEW t, Kept(t), NEW line \in PlainLines \cup WrongLines,
         NEW origin \in {"DEFAULTS", "PASSWORD", "MAP"}
  PROVE  Kept(ParseLine(t, line, origin))
<1>1. origin \in Origins
  BY DEF Origins
<1>2. CASE line \in FpsSettings
  <2>1. line.kind = "set"
    BY <1>2 DEF FpsSettings, Setting
  <2>2. Kept(SetValue(t, line.name, line.text, line.override, origin))
    BY <1>1, <1>2, TextsAre, SettingKeeps DEF Macro
  <2> QED
    BY <2>1, <2>2 DEF ParseLine, Plain
<1>3. CASE line = Setting("mapData", <<1>>, FALSE)
  <2>1. line.kind = "set" /\ line.name = "mapData" /\ line.text = <<1>> /\ line.override = FALSE
    BY <1>3 DEF Setting
  <2>2. Kept(SetValue(t, line.name, line.text, line.override, origin))
    BY <1>1, <2>1, SettingKeeps DEF Macro, Watched
  <2> QED
    BY <2>1, <2>2 DEF ParseLine, Plain
<1>4. ASSUME NEW x \in Texts, NEW o \in BOOLEAN, line = Setting("password", <<x>>, o)
      PROVE  Kept(ParseLine(t, line, origin))
  <2>1. line.kind = "set" /\ line.name = "password" /\ line.text = <<x>> /\ line.override = o
    BY <1>4 DEF Setting
  <2>2. line.text \in Seq(Int)
    BY <2>1, OptionsAssumption
  <2>3. Kept(SetValue(t, line.name, line.text, line.override, origin))
    BY <1>1, <2>1, <2>2, SettingKeeps DEF Macro
  <2> QED
    BY <2>1, <2>3 DEF ParseLine, Plain
<1>5. ASSUME NEW s \in FpsSettings, line = [kind |-> "define", body |-> s]
      PROVE  Kept(ParseLine(t, line, origin))
  <2>1. line.kind = "define" /\ line.body = s
    BY <1>5
  <2>2. Kept(SetValue(t, Macro, s, FALSE, origin))
    BY <1>1, SettingKeeps DEF Macro, Watched
  <2> QED
    BY <2>1, <2>2 DEF ParseLine
<1>6. CASE line = [kind |-> "expand"]
  <2>1. line.kind = "expand"
    BY <1>6
  <2> QED
    BY <2>1, ExpandKeeps DEF ParseLine
<1>7. CASE line = [kind |-> "nothing"]
  <2>1. line.kind = "nothing"
    BY <1>7
  <2> QED
    BY <2>1 DEF ParseLine
<1>8. CASE line = [kind |-> "novalue"]
  <2>1. line.kind = "novalue"
    BY <1>8
  <2>2. <<Junk>> \in Seq(Int)
    BY DEF Junk
  <2>3. Kept(SetValue(t, "fps", <<Junk>>, FALSE, origin))
    BY <1>1, <2>2, SettingKeeps DEF Macro
  <2> QED
    BY <2>1, <2>3 DEF ParseLine
<1> DEFINE passwords == {Setting("password", <<x>>, o) : x \in Texts, o \in BOOLEAN}
           macros == {[kind |-> "define", body |-> s] : s \in FpsSettings}
           theMap == Setting("mapData", <<1>>, FALSE)
           macro == [kind |-> "expand"]
<1>9. CASE line \in passwords
  <2>1. PICK x \in Texts, o \in BOOLEAN : line = Setting("password", <<x>>, o)
    BY <1>9
  <2> QED
    BY <1>4, <2>1
<1>10. CASE line \in macros
  <2>1. PICK s \in FpsSettings : line = [kind |-> "define", body |-> s]
    BY <1>10
  <2> QED
    BY <1>5, <2>1
<1>11. PlainLines = FpsSettings \cup {theMap} \cup passwords \cup macros \cup {macro}
  BY DEF PlainLines
<1>12. (line = theMap \/ line = macro) => Kept(ParseLine(t, line, origin))
  BY <1>3, <1>6
<1>13. line \in WrongLines => Kept(ParseLine(t, line, origin))
  BY <1>7, <1>8 DEF WrongLines
<1> HIDE DEF passwords, macros, theMap, macro
<1> QED
  BY <1>2, <1>9, <1>10, <1>11, <1>12, <1>13

\* The options, and the variable behind the frame rate.
OptionsInv ==
  /\ Kept(Tables)
  /\ stage = "RUNNING" =>
       fps = IF tuned # <<>> THEN Limited(Head(tuned)) ELSE Converted(optNodes["fps"].text)
  /\ stage # "RUNNING" => tuned = <<>>

LEMMA OptionsStart == OptionsInit => OptionsInv
<1> SUFFICES ASSUME OptionsInit PROVE OptionsInv
  OBVIOUS
<1>1. given \in [Watched -> Seq(OptionNode)] /\ \A n \in Watched : given[n] = <<>>
  <2>1. <<>> \in Seq(OptionNode)
    OBVIOUS
  <2> QED
    BY <2>1 DEF OptionsInit
<1>2. DOMAIN optNodes = {"fps", "mapData", "password", "expand"}
      /\ \A n \in DOMAIN optNodes : optNodes[n] = Node(Default(n), "INIT", FALSE)
  BY DEF OptionsInit, Allowed
<1>3. Watched \subseteq DOMAIN optNodes /\ Macro \notin DOMAIN optNodes
  BY <1>2 DEF Watched, Macro
<1>4. Tables.nodes = optNodes /\ Tables.given = given
  BY DEF Tables
<1>5. Kept(Tables)
  BY <1>1, <1>2, <1>3, <1>4 DEF Kept, Stands
<1> QED
  BY <1>5 DEF OptionsInv, OptionsInit

LEMMA OptionsStep == OptionsInv /\ [OptionsNext]_optionVars => OptionsInv'
<1> SUFFICES ASSUME OptionsInv, [OptionsNext]_optionVars PROVE OptionsInv'
  OBVIOUS
<1>a. ASSUME NEW t, Kept(t), Became(t) PROVE Kept(Tables)' /\ optNodes' = t.nodes
  BY <1>a DEF Became, Tables, Kept, Stands
<1>b. Kept(Tables)
  BY DEF OptionsInv
<1>1. CASE Argument
  <2>1. Kept(Tables)'
    <3>1. "COMMAND" \in Origins
      BY DEF Origins
    <3>2. ASSUME NEW x \in Texts \cup {Junk}, Became(Plain(Tables, Setting("fps", <<x>>, TRUE), "COMMAND"))
          PROVE  Kept(Tables)'
      <4>1. <<x>> \in Seq(Int)
        BY OptionsAssumption DEF Junk
      <4>2. Kept(SetValue(Tables, "fps", <<x>>, TRUE, "COMMAND"))
        BY <1>b, <3>1, <4>1, SettingKeeps DEF Macro
      <4> QED
        BY <1>a, <3>2, <4>2 DEF Plain, Setting
    <3>3. CASE Became(Plain(Tables, Setting("mapData", <<1>>, TRUE), "COMMAND"))
      <4>1. Kept(SetValue(Tables, "mapData", <<1>>, TRUE, "COMMAND"))
        BY <1>b, <3>1, SettingKeeps DEF Macro, Watched
      <4> QED
        BY <1>a, <3>3, <4>1 DEF Plain, Setting
    <3>4. ASSUME Became(SetValue(Tables, "expand", <<Macro>>, TRUE, "COMMAND"))
          PROVE  Kept(Tables)'
      <4>1. Kept(SetValue(Tables, "expand", <<Macro>>, TRUE, "COMMAND"))
        BY <1>b, <3>1, SettingKeeps DEF Macro, Watched
      <4> QED
        BY <1>a, <3>4, <4>1
    <3> QED
      BY <1>1, <3>2, <3>3, <3>4 DEF Argument
  <2> QED
    BY <1>1, <2>1 DEF Argument, OptionsInv
<1>2. CASE ReadLine
  <2>1. PICK line \in PlainLines \cup WrongLines : Became(ParseLine(Tables, line, stage))
    BY <1>2 DEF ReadLine
  <2>2. stage \in {"DEFAULTS", "PASSWORD", "MAP"}
    BY <1>2 DEF ReadLine
  <2>3. Kept(ParseLine(Tables, line, stage))
    BY <1>b, <2>2, LineKeeps
  <2>4. Kept(Tables)'
    BY <1>a, <2>1, <2>3
  <2> QED
    BY <1>2, <2>2, <2>4 DEF ReadLine, OptionsInv
<1>3. CASE NextFile
  <2>1. stage' # "RUNNING" /\ stage # "RUNNING"
    BY <1>3 DEF NextFile, AfterPassword
  <2> QED
    BY <1>3, <2>1 DEF NextFile, OptionsInv, Kept, Stands, Tables
<1>4. CASE OptionsParse
  <2>1. PICK t : /\ t = IF optNodes["expand"].text = <<>> THEN Tables ELSE Expand(Tables)
                 /\ Became(t) /\ fps' = Converted(t.nodes["fps"].text)
    BY <1>4 DEF OptionsParse
  <2>2. Kept(t)
    BY <1>b, <2>1, ExpandKeeps
  <2>3. Kept(Tables)' /\ optNodes' = t.nodes
    BY <1>a, <2>1, <2>2
  <2> QED
    BY <1>4, <2>1, <2>3 DEF OptionsParse, OptionsInv
<1>5. CASE TuneOption
  <2>1. Kept(Tables)'
    BY <1>5, <1>b DEF TuneOption, Kept, Stands, Tables
  <2>2. PICK value \in Texts \cup {Junk, 0, MaxServerFps + 1} :
          IF value = Junk THEN UNCHANGED <<fps, tuned>>
          ELSE fps' = Limited(value) /\ tuned' = <<value>>
    BY <1>5 DEF TuneOption
  <2> QED
    BY <1>5, <2>1, <2>2 DEF TuneOption, OptionsInv
<1>6. CASE UNCHANGED optionVars
  BY <1>6 DEF optionVars, OptionsInv, Kept, Stands, Tables
<1> QED
  BY <1>1, <1>2, <1>3, <1>4, <1>5, <1>6 DEF OptionsNext

\* The value the server runs with is that of the strongest setting, in whatever
\* order the settings are made and however many they are - macros are expanded
\* long after stronger and weaker ones were read - until it is tuned
\* (option.c:327, parser.c:472).
THEOREM TheStrongestSettingCounts == OptionsSpec => []ValuesAreAsGiven
<1>1. OptionsInv => ValuesAreAsGiven
  <2> SUFFICES ASSUME OptionsInv, stage = "RUNNING"
               PROVE  /\ fps = IF tuned # <<>> THEN Limited(Head(tuned)) ELSE Converted(Effective("fps"))
                      /\ optNodes["password"].text = Effective("password")
    BY DEF ValuesAreAsGiven
  <2>1. ASSUME NEW n \in Watched PROVE optNodes[n].text = Effective(n)
    <3>1. Stands(Tables, n) /\ Tables.nodes = optNodes /\ Tables.given = given
          /\ given[n] \in Seq(OptionNode)
      BY <2>1 DEF OptionsInv, Kept, Tables
    <3>2. CASE given[n] = <<>>
      BY <3>1, <3>2 DEF Stands, Effective, Node
    <3>3. CASE given[n] # <<>>
      <4>1. PICK d : Decides(given[n], d) /\ optNodes[n] = given[n][d]
        BY <3>1, <3>3 DEF Stands
      <4>2. Decisive(given[n]) = given[n][d].text
        BY <3>1, <4>1, DecisiveIs
      <4> QED
        BY <3>3, <4>1, <4>2 DEF Effective
    <3> QED
      BY <3>2, <3>3
  <2>2. "fps" \in Watched /\ "password" \in Watched
    BY DEF Watched
  <2> QED
    BY <2>1, <2>2 DEF OptionsInv
<1> QED
  BY <1>1, OptionsStart, OptionsStep, PTL DEF OptionsSpec

(***************************************************************************)
(* What clients show of a fuel station, for any number of clients, any     *)
(* rates, and any loss, doubling and delay of frames and acknowledgements. *)
(*                                                                         *)
(* A frame that was made since last_change can be too low by what the      *)
(* station gains in silence only, and the station gains in silence for     *)
(* less than frames_per_update frames.  A bit of conn_mask is set for a    *)
(* client that shows such a frame, or for one that has logged in while the *)
(* station was full, which then gets no frames about it at all.            *)
(*                                                                         *)
(* The keys are obeyed and what is said is heard once, for any number of   *)
(* keyboard states and of things said, and any order in which their        *)
(* datagrams come.  What makes it inductive is that last_key_change is the *)
(* youngest state that came, so that prev_keyv, against which a new state  *)
(* is held key by key, is a state the client has been in.                  *)
(***************************************************************************)

Rates == /\ MaxFuel \in Nat /\ Regen \in Nat /\ RefuelRate \in Nat
         /\ Every \in Nat \ {0}

Frame == [loops : Nat, fuel : 0..MaxFuel]

FuelTypeOK ==
  /\ loops \in Nat /\ lastChange \in 0..loops /\ fuel \in 0..MaxFuel
  /\ connMask \in SUBSET Clients /\ here \in SUBSET Clients
  /\ shown \in [Clients -> 0..MaxFuel] /\ latest \in [Clients -> Nat]
  /\ frames \in [Clients -> SUBSET Frame] /\ acks \in [Clients -> SUBSET Nat]

\* Told the amount g in frame n, one is not far from what there is.
IsTrue(g, n) ==
  n > lastChange =>
    /\ g <= fuel /\ fuel <= g + Regen * (loops - n)
    /\ fuel = MaxFuel => g = MaxFuel

SilenceEnds == fuel < MaxFuel => loops - lastChange <= Every

NothingFromTheFuture ==
  \A c \in Clients :
    /\ latest[c] <= loops
    /\ \A f \in frames[c] : f.loops <= loops
    /\ \A a \in acks[c] : a <= latest[c]

SocketsAreClosed == \A c \in Clients \ here : frames[c] = {} /\ acks[c] = {}

FuelFramesAreTrue == \A c \in Clients : \A f \in frames[c] : IsTrue(f.fuel, f.loops)

ClientsAreTrue == \A c \in here : IsTrue(shown[c], latest[c])

\* Whoever is not told, and shows nothing of late, was told at login.
FullSinceLogin ==
  \A c \in here \cap connMask :
    latest[c] <= lastChange => fuel = MaxFuel /\ shown[c] = MaxFuel /\ frames[c] = {}

FuelInv ==
  /\ FuelTypeOK
  /\ SilenceEnds /\ NothingFromTheFuture /\ SocketsAreClosed
  /\ FuelFramesAreTrue /\ ClientsAreTrue /\ FullSinceLogin
-----------------------------------------------------------------------------
(* What is gained in another frame.                                        *)
LEMMA OneMore ==
  ASSUME NEW r \in Nat, NEW k \in Nat
  PROVE  r * k \in Nat /\ r * (k + 1) = r * k + r
BY SMT

(* More frames gain more.                                                  *)
LEMMA MoreIsMore ==
  ASSUME NEW r \in Nat, NEW k \in Nat, NEW n \in Nat, k <= n
  PROVE  r * k \in Nat /\ r * n \in Nat /\ r * k <= r * n
BY SMT

(* A frame of Main_loop leaves the station alone, fills it in silence, or  *)
(* changes it; full is not reached in silence.                             *)
LEMMA StationSteps ==
  ASSUME Rates, FuelTypeOK, MainLoop
  PROVE  \/ /\ lastChange' = loops /\ connMask' = {} /\ fuel' \in 0..MaxFuel
         \/ /\ lastChange' = lastChange /\ connMask' = connMask
            /\ fuel' \in {fuel, fuel + Regen} /\ fuel' \in 0..MaxFuel
            /\ fuel' = MaxFuel <=> fuel = MaxFuel
            /\ fuel' < MaxFuel => lastChange + Every > loops
<1> DEFINE more == Regenerated(Station)
           s    == IF refuelling THEN Drunk(more) ELSE more
<1>1. fuel' = s.fuel /\ lastChange' = s.lastChange /\ connMask' = s.connMask
  BY DEF MainLoop
<1>2. /\ fuel \in Int /\ fuel >= 0 /\ fuel <= MaxFuel
      /\ MaxFuel \in Nat /\ Regen \in Nat /\ RefuelRate \in Nat
      /\ loops \in Int /\ lastChange \in Int /\ Every \in Int
  BY DEF Rates, FuelTypeOK
<1>3. \/ /\ more.lastChange = loops /\ more.connMask = {}
         /\ more.fuel \in Int /\ more.fuel >= 0 /\ more.fuel <= MaxFuel
      \/ /\ more.lastChange = lastChange /\ more.connMask = connMask
         /\ more.fuel \in {fuel, fuel + Regen}
         /\ more.fuel \in Int /\ more.fuel >= 0 /\ more.fuel <= MaxFuel
         /\ more.fuel = MaxFuel <=> fuel = MaxFuel
         /\ more.fuel < MaxFuel => lastChange + Every > loops
  <2>1. CASE fuel = MaxFuel
    <3>1. more = Station
      BY <2>1 DEF Regenerated, Station
    <3> QED
      BY <1>2, <2>1, <3>1, SMT DEF Station
  <2>2. CASE fuel # MaxFuel /\ fuel + Regen >= MaxFuel
    <3>1. more = [fuel |-> MaxFuel, lastChange |-> loops, connMask |-> {}]
      BY <2>2 DEF Regenerated, Station, Changed
    <3> QED
      BY <1>2, <3>1, SMT
  <2>3. CASE fuel # MaxFuel /\ ~(fuel + Regen >= MaxFuel) /\ lastChange + Every > loops
    <3>1. more = [fuel |-> fuel + Regen, lastChange |-> lastChange, connMask |-> connMask]
      BY <2>3 DEF Regenerated, Station
    <3> QED
      BY <1>2, <2>3, <3>1, SMT
  <2>4. CASE fuel # MaxFuel /\ ~(fuel + Regen >= MaxFuel) /\ ~(lastChange + Every > loops)
    <3>1. more = [fuel |-> fuel + Regen, lastChange |-> loops, connMask |-> {}]
      BY <2>4 DEF Regenerated, Station, Changed
    <3> QED
      BY <1>2, <2>4, <3>1, SMT
  <2> QED
    BY <2>1, <2>2, <2>3, <2>4
<1> HIDE DEF more
<1>4. \/ s = more
      \/ s = [fuel |-> more.fuel - RefuelRate, lastChange |-> loops, connMask |-> {}]
         /\ more.fuel > RefuelRate
      \/ s = [fuel |-> 0, lastChange |-> loops, connMask |-> {}]
  BY DEF Drunk, Changed
<1> HIDE DEF s
<1>5. CASE s = more
  BY <1>1, <1>2, <1>3, <1>5, SMT
<1>6. CASE s = [fuel |-> more.fuel - RefuelRate, lastChange |-> loops, connMask |-> {}]
           /\ more.fuel > RefuelRate
  <2>1. more.fuel - RefuelRate \in 0..MaxFuel
    BY <1>2, <1>3, <1>6, SMT
  <2> QED
    BY <1>1, <1>6, <2>1
<1>7. CASE s = [fuel |-> 0, lastChange |-> loops, connMask |-> {}]
  <2>1. 0 \in 0..MaxFuel
    BY <1>2, SMT
  <2> QED
    BY <1>1, <1>7, <2>1
<1> QED
  BY <1>4, <1>5, <1>6, <1>7
-----------------------------------------------------------------------------
(* The frame.                                                              *)

\* IsTrue in the next state, of what is told there.
IsTrueNext(g, n) ==
  n > lastChange' =>
    /\ g <= fuel' /\ fuel' <= g + Regen * (loops' - n)
    /\ fuel' = MaxFuel => g = MaxFuel

(* What was true before a frame is true after it, or too old.              *)
LEMMA StaysTrue ==
  ASSUME Rates, FuelTypeOK, MainLoop, NEW g \in 0..MaxFuel, NEW n \in Nat, n <= loops, IsTrue(g, n)
  PROVE  IsTrueNext(g, n)
<1>1. /\ loops' = loops + 1 /\ loops \in Nat /\ loops - n \in Nat
      /\ lastChange \in Int /\ fuel \in Int /\ Regen \in Nat /\ MaxFuel \in Nat
  BY SMT DEF FuelTypeOK, MainLoop, Rates
<1>2. (loops + 1) - n = (loops - n) + 1
  BY <1>1, SMT
<1>3. CASE lastChange' = loops
  BY <1>1, <1>3, SMT DEF IsTrueNext
<1>4. CASE /\ lastChange' = lastChange /\ fuel' \in {fuel, fuel + Regen}
           /\ fuel' = MaxFuel <=> fuel = MaxFuel
  <2>1. SUFFICES ASSUME n > lastChange
                 PROVE  /\ g <= fuel' /\ fuel' <= g + Regen * (loops' - n)
                        /\ fuel' = MaxFuel => g = MaxFuel
    BY <1>4 DEF IsTrueNext
  <2>2. g <= fuel /\ fuel <= g + Regen * (loops - n) /\ (fuel = MaxFuel => g = MaxFuel)
    BY <2>1 DEF IsTrue
  <2>3. Regen * (loops - n) \in Nat /\ Regen * (loops' - n) = Regen * (loops - n) + Regen
    BY <1>1, <1>2, OneMore
  <2> DEFINE gain == Regen * (loops - n)
             more == Regen * (loops' - n)
  <2> HIDE DEF gain, more
  <2>4. g <= fuel /\ fuel <= g + gain /\ gain \in Nat /\ more = gain + Regen
    BY <2>2, <2>3 DEF gain, more
  <2>5. g <= fuel' /\ fuel' <= g + more
    BY <1>1, <1>4, <2>4, SMT
  <2> QED
    BY <1>4, <2>2, <2>5 DEF more
<1> QED
  BY <1>3, <1>4, StationSteps

(* What the frame itself says is true.                                     *)
LEMMA SaysTrue ==
  ASSUME Rates, FuelTypeOK, MainLoop
  PROVE  IsTrueNext(fuel', loops + 1)
<1>1. loops' = loops + 1 /\ loops' - (loops + 1) = 0
  BY SMT DEF FuelTypeOK, MainLoop
<1>2. Regen * 0 = 0 /\ fuel' \in Int
  BY StationSteps, SMT DEF Rates, FuelTypeOK
<1> QED
  BY <1>1, <1>2, SMT DEF IsTrueNext

LEMMA MainLoopKeeps ==
  ASSUME Rates, FuelInv, MainLoop
  PROVE  FuelInv'
<1>1. FuelTypeOK /\ SilenceEnds /\ NothingFromTheFuture /\ SocketsAreClosed
      /\ FuelFramesAreTrue /\ ClientsAreTrue /\ FullSinceLogin
  BY DEF FuelInv
<1>2. /\ loops' = loops + 1 /\ loops \in Nat
      /\ UNCHANGED <<here, shown, latest, acks>>
  BY <1>1 DEF FuelTypeOK, MainLoop
<1>3. PICK inView \in BOOLEAN : frames' = [c \in Clients |-> frames[c] \cup Sent(c, inView)]
  BY DEF MainLoop
<1>4. ASSUME NEW c \in Clients, NEW f \in frames'[c]
      PROVE  \/ f \in frames[c]
             \/ f = [loops |-> loops + 1, fuel |-> fuel'] /\ c \in here /\ c \notin connMask'
  BY <1>3 DEF Sent
<1>5. fuel' \in 0..MaxFuel /\ connMask' \in SUBSET Clients /\ lastChange' \in 0..loops'
      /\ (connMask' = connMask \/ connMask' = {})
  BY <1>1, <1>2, StationSteps, SMT DEF FuelTypeOK
<1>6. FuelTypeOK'
  <2>1. frames' \in [Clients -> SUBSET Frame]
    BY <1>1, <1>2, <1>3, <1>5, SMT DEF FuelTypeOK, Frame, Sent
  <2> QED
    BY <1>1, <1>2, <1>5, <2>1 DEF FuelTypeOK
<1>7. SilenceEnds'
  BY <1>1, <1>2, StationSteps, SMT DEF SilenceEnds, FuelTypeOK, Rates
<1>8. NothingFromTheFuture'
  <2>1. \A c \in Clients : latest'[c] <= loops' /\ \A a \in acks'[c] : a <= latest'[c]
    BY <1>1, <1>2, SMT DEF NothingFromTheFuture, FuelTypeOK
  <2>2. \A c \in Clients : \A f \in frames'[c] : f.loops <= loops'
    <3> SUFFICES ASSUME NEW c \in Clients, NEW f \in frames'[c] PROVE f.loops <= loops'
      OBVIOUS
    <3>1. CASE f \in frames[c]
      <4>1. f.loops \in Nat /\ f.loops <= loops
        BY <1>1, <3>1 DEF NothingFromTheFuture, FuelTypeOK, Frame
      <4> QED
        BY <1>2, <4>1, SMT
    <3>2. CASE f = [loops |-> loops + 1, fuel |-> fuel']
      BY <1>2, <3>2, SMT
    <3> QED
      BY <1>4, <3>1, <3>2
  <2> QED
    BY <2>1, <2>2 DEF NothingFromTheFuture
<1>9. SocketsAreClosed'
  <2> SUFFICES ASSUME NEW c \in Clients \ here PROVE frames'[c] = {} /\ acks'[c] = {}
    BY <1>2 DEF SocketsAreClosed
  <2> QED
    BY <1>1, <1>2, <1>4 DEF SocketsAreClosed
<1>10. FuelFramesAreTrue'
  <2> SUFFICES ASSUME NEW c \in Clients, NEW f \in frames'[c] PROVE IsTrueNext(f.fuel, f.loops)
    BY DEF FuelFramesAreTrue, IsTrueNext, IsTrue
  <2>1. CASE f \in frames[c]
    <3>1. f.fuel \in 0..MaxFuel /\ f.loops \in Nat /\ f.loops <= loops /\ IsTrue(f.fuel, f.loops)
      BY <1>1, <2>1 DEF NothingFromTheFuture, FuelFramesAreTrue, FuelTypeOK, Frame
    <3> QED
      BY <1>1, <3>1, StaysTrue
  <2>2. CASE f = [loops |-> loops + 1, fuel |-> fuel']
    <3>1. f.loops = loops + 1 /\ f.fuel = fuel'
      BY <2>2
    <3> QED
      BY <1>1, <3>1, SaysTrue
  <2> QED
    BY <1>4, <2>1, <2>2
<1>11. ClientsAreTrue'
  <2> SUFFICES ASSUME NEW c \in here PROVE IsTrueNext(shown[c], latest[c])
    BY <1>2 DEF ClientsAreTrue, IsTrueNext, IsTrue
  <2>1. c \in Clients
    BY <1>1 DEF FuelTypeOK
  <2>2. shown[c] \in 0..MaxFuel /\ latest[c] \in Nat /\ latest[c] <= loops /\ IsTrue(shown[c], latest[c])
    BY <1>1, <2>1 DEF FuelTypeOK, NothingFromTheFuture, ClientsAreTrue
  <2> QED
    BY <1>1, <2>2, StaysTrue
<1>12. FullSinceLogin'
  <2> SUFFICES ASSUME NEW c \in here \cap connMask', latest[c] <= lastChange'
               PROVE  fuel' = MaxFuel /\ shown[c] = MaxFuel /\ frames'[c] = {}
    BY <1>2 DEF FullSinceLogin
  <2>1. lastChange' = lastChange /\ connMask' = connMask /\ (fuel' = MaxFuel <=> fuel = MaxFuel)
    BY <1>1, StationSteps
  <2>2. c \in Clients /\ fuel = MaxFuel /\ shown[c] = MaxFuel /\ frames[c] = {}
    BY <1>1, <2>1 DEF FullSinceLogin, FuelTypeOK
  <2> QED
    BY <1>4, <2>1, <2>2
<1> QED
  BY <1>6, <1>7, <1>8, <1>9, <1>10, <1>11, <1>12 DEF FuelInv
-----------------------------------------------------------------------------
(* The clients and the network.                                            *)

LEMMA FuelInvInit ==
  ASSUME Rates, FuelInit
  PROVE  FuelInv
<1>1. 1 \in Nat /\ 1 \in 0..1 /\ MaxFuel \in 0..MaxFuel /\ 0 \in Nat
  BY SMT DEF Rates
<1>2. FuelTypeOK
  BY <1>1 DEF FuelInit, FuelTypeOK
<1>3. NothingFromTheFuture
  <2>1. 0 <= 1
    BY SMT
  <2>2. \A c \in Clients : latest[c] = 0 /\ frames[c] = {} /\ acks[c] = {}
    BY DEF FuelInit
  <2> QED
    BY <2>1, <2>2 DEF FuelInit, NothingFromTheFuture
<1> QED
  BY <1>2, <1>3, SMT DEF FuelInit, Rates, FuelInv, SilenceEnds, SocketsAreClosed, FuelFramesAreTrue,
     ClientsAreTrue, FullSinceLogin

LEMMA LoginKeeps ==
  ASSUME Rates, FuelInv, ClientLogin
  PROVE  FuelInv'
<1>1. FuelTypeOK /\ SilenceEnds /\ NothingFromTheFuture /\ SocketsAreClosed
      /\ FuelFramesAreTrue /\ ClientsAreTrue /\ FullSinceLogin
  BY DEF FuelInv
<1>2. PICK c \in Clients \ here :
        /\ here' = here \cup {c}
        /\ connMask' = IF fuel = MaxFuel THEN connMask \cup {c} ELSE connMask \ {c}
        /\ shown' = [shown EXCEPT ![c] = MaxFuel] /\ latest' = [latest EXCEPT ![c] = 0]
        /\ UNCHANGED <<loops, fuel, lastChange, refuelling, frames, acks>>
  BY DEF ClientLogin
<1>3. MaxFuel \in 0..MaxFuel /\ 0 \in Nat
  BY SMT DEF Rates
<1>4. /\ shown'[c] = MaxFuel /\ latest'[c] = 0
      /\ \A d \in Clients \ {c} : shown'[d] = shown[d] /\ latest'[d] = latest[d]
  BY <1>1, <1>2 DEF FuelTypeOK
<1>5. frames[c] = {} /\ acks[c] = {}
  BY <1>1 DEF SocketsAreClosed
<1>6. FuelTypeOK'
  BY <1>1, <1>2, <1>3 DEF FuelTypeOK
<1>7. NothingFromTheFuture'
  <2>1. 0 <= loops
    BY <1>1, SMT DEF FuelTypeOK
  <2> QED
    BY <1>1, <1>2, <1>4, <1>5, <2>1 DEF NothingFromTheFuture
<1>8. ClientsAreTrue'
  <2>1. ~(0 > lastChange)
    BY <1>1, SMT DEF FuelTypeOK
  <2>2. \A d \in here : d \in Clients \ {c}
    BY <1>1 DEF FuelTypeOK
  <2> QED
    BY <1>1, <1>2, <1>4, <2>1, <2>2 DEF ClientsAreTrue, IsTrue
<1>9. FullSinceLogin'
  <2>1. ASSUME NEW d \in here' \cap connMask', d # c, latest'[d] <= lastChange'
        PROVE  fuel' = MaxFuel /\ shown'[d] = MaxFuel /\ frames'[d] = {}
    <3>1. d \in here \cap connMask /\ d \in Clients \ {c}
      BY <1>1, <1>2, <2>1 DEF FuelTypeOK
    <3> QED
      BY <1>1, <1>2, <1>4, <2>1, <3>1 DEF FullSinceLogin
  <2>2. c \in connMask' => fuel' = MaxFuel /\ shown'[c] = MaxFuel /\ frames'[c] = {}
    BY <1>2, <1>4, <1>5
  <2> QED
    BY <2>1, <2>2 DEF FullSinceLogin
<1> QED
  BY <1>1, <1>2, <1>6, <1>7, <1>8, <1>9
     DEF FuelInv, SilenceEnds, SocketsAreClosed, FuelFramesAreTrue, IsTrue

LEMMA LeaveKeeps ==
  ASSUME Rates, FuelInv, ClientLeaves
  PROVE  FuelInv'
<1>1. FuelTypeOK /\ SilenceEnds /\ NothingFromTheFuture /\ SocketsAreClosed
      /\ FuelFramesAreTrue /\ ClientsAreTrue /\ FullSinceLogin
  BY DEF FuelInv
<1>2. PICK c \in here :
        /\ here' = here \ {c}
        /\ frames' = [frames EXCEPT ![c] = {}] /\ acks' = [acks EXCEPT ![c] = {}]
        /\ UNCHANGED <<loops, station, refuelling, shown, latest>>
  BY DEF ClientLeaves
<1>3. /\ c \in Clients /\ frames'[c] = {} /\ acks'[c] = {}
      /\ \A d \in Clients \ {c} : frames'[d] = frames[d] /\ acks'[d] = acks[d]
  BY <1>1, <1>2 DEF FuelTypeOK
<1>4. FuelTypeOK'
  BY <1>1, <1>2 DEF FuelTypeOK, station
<1>5. NothingFromTheFuture'
  BY <1>1, <1>2, <1>3 DEF NothingFromTheFuture, station
<1>6. SocketsAreClosed' /\ FuelFramesAreTrue'
  BY <1>1, <1>2, <1>3 DEF SocketsAreClosed, FuelFramesAreTrue, IsTrue, station
<1>7. ClientsAreTrue' /\ SilenceEnds'
  BY <1>1, <1>2 DEF ClientsAreTrue, SilenceEnds, IsTrue, station
<1>8. FullSinceLogin'
  BY <1>1, <1>2, <1>3 DEF FullSinceLogin, station, FuelTypeOK
<1> QED
  BY <1>4, <1>5, <1>6, <1>7, <1>8 DEF FuelInv

LEMMA ArriveKeeps ==
  ASSUME Rates, FuelInv, Arrive
  PROVE  FuelInv'
<1>1. FuelTypeOK /\ SilenceEnds /\ NothingFromTheFuture /\ SocketsAreClosed
      /\ FuelFramesAreTrue /\ ClientsAreTrue /\ FullSinceLogin
  BY DEF FuelInv
<1>0. PICK c \in here : \E f \in frames[c] :
            /\ IF f.loops > latest[c]
               THEN /\ shown' = [shown EXCEPT ![c] = f.fuel] /\ latest' = [latest EXCEPT ![c] = f.loops]
                    /\ acks' = [acks EXCEPT ![c] = @ \cup {f.loops}]
               ELSE UNCHANGED <<shown, latest, acks>>
            /\ frames' \in {frames, [frames EXCEPT ![c] = @ \ {f}]}
            /\ UNCHANGED <<loops, station, here, refuelling>>
  BY DEF Arrive
<1>2. PICK f \in frames[c] :
        /\ IF f.loops > latest[c]
           THEN /\ shown' = [shown EXCEPT ![c] = f.fuel] /\ latest' = [latest EXCEPT ![c] = f.loops]
                /\ acks' = [acks EXCEPT ![c] = @ \cup {f.loops}]
           ELSE UNCHANGED <<shown, latest, acks>>
        /\ frames' \in {frames, [frames EXCEPT ![c] = @ \ {f}]}
        /\ UNCHANGED <<loops, station, here, refuelling>>
  BY <1>0
<1>3. c \in Clients /\ f.loops \in Nat /\ f.fuel \in 0..MaxFuel
      /\ f.loops <= loops /\ IsTrue(f.fuel, f.loops)
  BY <1>1 DEF FuelTypeOK, Frame, NothingFromTheFuture, FuelFramesAreTrue
<1>4. \A d \in Clients : frames'[d] \subseteq frames[d]
  BY <1>1, <1>2, <1>3 DEF FuelTypeOK
<1>5. frames' \in [Clients -> SUBSET Frame]
  BY <1>1, <1>2, <1>3 DEF FuelTypeOK
<1>6. FuelFramesAreTrue' /\ SilenceEnds'
  BY <1>1, <1>2, <1>4 DEF FuelFramesAreTrue, IsTrue, SilenceEnds, station
<1>7. CASE f.loops > latest[c]
  <2>1. /\ shown' = [shown EXCEPT ![c] = f.fuel] /\ latest' = [latest EXCEPT ![c] = f.loops]
        /\ acks' = [acks EXCEPT ![c] = @ \cup {f.loops}]
    BY <1>2, <1>7
  <2>2. /\ shown'[c] = f.fuel /\ latest'[c] = f.loops /\ acks'[c] = acks[c] \cup {f.loops}
        /\ \A d \in Clients \ {c} : shown'[d] = shown[d] /\ latest'[d] = latest[d] /\ acks'[d] = acks[d]
    BY <1>1, <1>3, <2>1 DEF FuelTypeOK
  <2>3. FuelTypeOK'
    BY <1>1, <1>2, <1>3, <1>5, <2>1 DEF FuelTypeOK, station
  <2>4. NothingFromTheFuture'
    <3>1. \A a \in acks'[c] : a <= f.loops
      <4> SUFFICES ASSUME NEW a \in acks[c] PROVE a <= f.loops
        BY <1>3, <2>2, SMT
      <4>1. a \in Nat /\ latest[c] \in Nat /\ a <= latest[c]
        BY <1>1, <1>3 DEF FuelTypeOK, NothingFromTheFuture
      <4> QED
        BY <1>3, <1>7, <4>1, SMT
    <3> QED
      BY <1>1, <1>2, <1>3, <1>4, <2>2, <3>1 DEF NothingFromTheFuture
  <2>5. SocketsAreClosed'
    BY <1>1, <1>2, <1>4, <2>2 DEF SocketsAreClosed
  <2>6. ClientsAreTrue'
    <3> SUFFICES ASSUME NEW d \in here PROVE IsTrue(shown'[d], latest'[d])
      BY <1>2 DEF ClientsAreTrue, IsTrue, station
    <3>1. CASE d = c
      BY <1>3, <2>2, <3>1
    <3>2. CASE d # c
      BY <1>1, <2>2, <3>2 DEF ClientsAreTrue, FuelTypeOK
    <3> QED
      BY <3>1, <3>2
  <2>7. FullSinceLogin'
    <3> SUFFICES ASSUME NEW d \in here \cap connMask, latest'[d] <= lastChange
                 PROVE  fuel = MaxFuel /\ shown'[d] = MaxFuel /\ frames'[d] = {}
      BY <1>2 DEF FullSinceLogin, station
    <3>1. d \in Clients
      BY <1>1 DEF FuelTypeOK
    <3>2. d # c
      <4> SUFFICES ASSUME d = c PROVE FALSE
        OBVIOUS
      <4>1. latest[c] <= lastChange
        BY <1>1, <1>3, <1>7, <2>2, SMT DEF FuelTypeOK
      <4> QED
        BY <1>1, <1>2, <4>1 DEF FullSinceLogin
    <3> QED
      BY <1>1, <1>4, <2>2, <3>1, <3>2 DEF FullSinceLogin
  <2> QED
    BY <1>6, <2>3, <2>4, <2>5, <2>6, <2>7 DEF FuelInv
<1>8. CASE ~(f.loops > latest[c])
  <2>1. UNCHANGED <<shown, latest, acks>>
    BY <1>2, <1>8
  <2>2. FuelTypeOK'
    BY <1>1, <1>2, <1>5, <2>1 DEF FuelTypeOK, station
  <2>3. NothingFromTheFuture' /\ SocketsAreClosed'
    BY <1>1, <1>2, <1>4, <2>1 DEF NothingFromTheFuture, SocketsAreClosed
  <2>4. ClientsAreTrue' /\ FullSinceLogin'
    BY <1>1, <1>2, <1>4, <2>1 DEF ClientsAreTrue, FullSinceLogin, IsTrue, station, FuelTypeOK
  <2> QED
    BY <1>6, <2>2, <2>3, <2>4 DEF FuelInv
<1> QED
  BY <1>7, <1>8

LEMMA AckKeeps ==
  ASSUME Rates, FuelInv, AckFuel
  PROVE  FuelInv'
<1>1. FuelTypeOK /\ SilenceEnds /\ NothingFromTheFuture /\ SocketsAreClosed
      /\ FuelFramesAreTrue /\ ClientsAreTrue /\ FullSinceLogin
  BY DEF FuelInv
<1>0. PICK c \in here : \E ack \in acks[c] :
            /\ connMask' = IF Newer(ack) THEN connMask \cup {c} ELSE connMask
            /\ acks' \in {acks, [acks EXCEPT ![c] = @ \ {ack}]}
            /\ UNCHANGED <<loops, fuel, lastChange, here, refuelling, shown, latest, frames>>
  BY DEF AckFuel
<1>2. PICK ack \in acks[c] :
        /\ connMask' = IF Newer(ack) THEN connMask \cup {c} ELSE connMask
        /\ acks' \in {acks, [acks EXCEPT ![c] = @ \ {ack}]}
        /\ UNCHANGED <<loops, fuel, lastChange, here, refuelling, shown, latest, frames>>
  BY <1>0
<1>3. c \in Clients /\ ack \in Nat /\ latest[c] \in Nat /\ ack <= latest[c]
  BY <1>1 DEF FuelTypeOK, NothingFromTheFuture
<1>4. \A d \in Clients : acks'[d] \subseteq acks[d]
  BY <1>1, <1>2, <1>3 DEF FuelTypeOK
<1>5. FuelTypeOK'
  BY <1>1, <1>2, <1>3 DEF FuelTypeOK
<1>6. NothingFromTheFuture' /\ SocketsAreClosed'
  BY <1>1, <1>2, <1>4 DEF NothingFromTheFuture, SocketsAreClosed
<1>7. SilenceEnds' /\ FuelFramesAreTrue' /\ ClientsAreTrue'
  BY <1>1, <1>2 DEF SilenceEnds, FuelFramesAreTrue, ClientsAreTrue, IsTrue
<1>8. FullSinceLogin'
  <2>1. Newer(ack) => ~(latest[c] <= lastChange)
    BY <1>1, <1>3, SMT DEF Newer, FuelTypeOK
  <2> QED
    BY <1>1, <1>2, <2>1 DEF FullSinceLogin
<1> QED
  BY <1>5, <1>6, <1>7, <1>8 DEF FuelInv

LEMMA FuelInvStep ==
  ASSUME Rates, FuelInv, [FuelNext]_fuelVars
  PROVE  FuelInv'
<1>1. CASE Refuel \/ UNCHANGED fuelVars
  BY <1>1 DEF Refuel, fuelVars, station, FuelInv, FuelTypeOK, SilenceEnds, NothingFromTheFuture,
     SocketsAreClosed, FuelFramesAreTrue, ClientsAreTrue, FullSinceLogin, IsTrue
<1> QED
  BY <1>1, MainLoopKeeps, LoginKeeps, LeaveKeeps, ArriveKeeps, AckKeeps DEF FuelNext
-----------------------------------------------------------------------------
LEMMA InvShows ==
  ASSUME Rates, FuelInv
  PROVE  ShownFuelIsTrue
<1>1. FuelTypeOK /\ SilenceEnds /\ NothingFromTheFuture /\ ClientsAreTrue /\ FullSinceLogin
  BY DEF FuelInv
<1> SUFFICES ASSUME NEW c \in here \cap connMask
             PROVE  /\ shown[c] <= fuel /\ fuel <= shown[c] + Regen * Every
                    /\ fuel = MaxFuel => shown[c] = MaxFuel
  BY DEF ShownFuelIsTrue
<1>2. /\ shown[c] \in 0..MaxFuel /\ latest[c] \in Nat /\ latest[c] <= loops
      /\ fuel \in 0..MaxFuel /\ loops \in Nat /\ lastChange \in Nat
      /\ MaxFuel \in Nat /\ Regen \in Nat /\ Every \in Nat
  BY <1>1, SMT DEF FuelTypeOK, NothingFromTheFuture, Rates
<1>3. Regen * Every \in Nat
  BY <1>2, SMT
<1> DEFINE most == Regen * Every
<1> HIDE DEF most
<1>4. CASE fuel = MaxFuel /\ shown[c] = MaxFuel
  BY <1>2, <1>3, <1>4, SMT
<1>5. CASE latest[c] > lastChange
  <2>1. /\ shown[c] <= fuel /\ fuel <= shown[c] + Regen * (loops - latest[c])
        /\ fuel = MaxFuel => shown[c] = MaxFuel
    BY <1>1, <1>5 DEF ClientsAreTrue, IsTrue
  <2>2. SUFFICES ASSUME fuel < MaxFuel PROVE fuel <= shown[c] + Regen * Every
    BY <1>2, <1>4, <2>1, SMT
  <2>3. loops - latest[c] \in Nat /\ loops - latest[c] <= Every
    BY <1>1, <1>2, <1>5, <2>2, SMT DEF SilenceEnds
  <2>4. Regen * (loops - latest[c]) \in Nat /\ Regen * (loops - latest[c]) <= Regen * Every
    BY <1>2, <2>3, MoreIsMore
  <2> DEFINE gain == Regen * (loops - latest[c])
  <2>5. fuel <= shown[c] + gain /\ gain \in Nat /\ gain <= most
    BY <2>1, <2>4 DEF most
  <2> HIDE DEF gain
  <2>6. fuel <= shown[c] + most
    BY <1>2, <1>3, <2>5, SMT DEF most
  <2> QED
    BY <2>6 DEF most
<1>6. CASE latest[c] <= lastChange
  BY <1>1, <1>4, <1>6 DEF FullSinceLogin
<1> QED
  BY <1>2, <1>5, <1>6, SMT

(* The server stops telling a client about the fuel only while the client  *)
(* shows it, for every rate of regeneration and refuelling.                *)
THEOREM FuelStaysTrue ==
  ASSUME Rates
  PROVE  FuelSpec => []ShownFuelIsTrue
<1>1. FuelInit => FuelInv
  BY FuelInvInit
<1>2. FuelInv /\ [FuelNext]_fuelVars => FuelInv'
  BY FuelInvStep
<1>3. FuelInv => ShownFuelIsTrue
  BY InvShows
<1> QED
  BY <1>1, <1>2, <1>3, PTL DEF FuelSpec
-----------------------------------------------------------------------------
InputTypeOK ==
  /\ wanted \in Seq(SUBSET Keys)
  /\ prevKeys \in SUBSET Keys
  /\ youngest \in 0..Len(wanted)
  /\ thrusting \in BOOLEAN /\ shooting \in BOOLEAN /\ usesRefuel \in BOOLEAN /\ fs \in BOOLEAN

KeysInv ==
  /\ InputTypeOK
  /\ lastKeyChange = youngest
  /\ KeysAreObeyed

TalkInv ==
  /\ said \in Nat /\ talkSeq \in Nat /\ heard \in Seq(Nat)
  /\ \A i \in DOMAIN heard : heard[i] <= talkSeq
  /\ HeardOnce

LEMMA MaxOfTwo ==
  ASSUME NEW a \in Int, NEW b \in Int
  PROVE  Max({a, b}) = IF a > b THEN a ELSE b
BY SMT DEF Max
(* What a sequence has stays where it is when something is appended.       *)
LEMMA Appended ==
  ASSUME NEW S, NEW s \in Seq(S), NEW e \in S
  PROVE  /\ Append(s, e) \in Seq(S)
         /\ Len(s) \in Nat /\ Len(Append(s, e)) = Len(s) + 1
         /\ \A i \in 1..Len(s) : Append(s, e)[i] = s[i]
BY SMT
-----------------------------------------------------------------------------
(* The keyboard.                                                           *)

(* A handled state leaves every latch as its key is.                       *)
LEMMA Handled ==
  ASSUME KeysInv, NEW held \in SUBSET Keys, HandleKeyboard(held)
  PROVE  /\ prevKeys' = held
         /\ thrusting' \in BOOLEAN /\ (thrusting' => "thrust" \in held)
         /\ shooting' \in BOOLEAN /\ (shooting' <=> "fire" \in held)
         /\ usesRefuel' \in BOOLEAN /\ fs' \in BOOLEAN
         /\ usesRefuel' => fs' /\ "refuel" \in held
         /\ turnacc' \in {0, Turned(held)}
<1>1. prevKeys' = held
  BY DEF HandleKeyboard
<1>2. thrusting' \in BOOLEAN /\ (thrusting' => "thrust" \in held)
  BY DEF HandleKeyboard, Latch, KeysInv, InputTypeOK, KeysAreObeyed
<1>3. shooting' \in BOOLEAN /\ (shooting' <=> "fire" \in held)
  BY DEF HandleKeyboard, Latch, KeysInv, InputTypeOK, KeysAreObeyed
<1>4. /\ usesRefuel' \in BOOLEAN /\ fs' \in BOOLEAN
      /\ usesRefuel' => fs' /\ "refuel" \in held
  <2>1. PICK near \in BOOLEAN :
          /\ usesRefuel' = ((usesRefuel \/ ("refuel" \in held \ prevKeys /\ near))
                            /\ ~("refuel" \in prevKeys \ held))
          /\ fs' = ((fs \/ ("refuel" \in held \ prevKeys /\ near))
                    /\ ~("refuel" \in prevKeys \ held))
    BY DEF HandleKeyboard
  <2>2. /\ usesRefuel \in BOOLEAN /\ fs \in BOOLEAN
        /\ usesRefuel => fs /\ "refuel" \in prevKeys
    BY DEF KeysInv, InputTypeOK, KeysAreObeyed
  <2> QED
    BY <2>1, <2>2
<1>5. turnacc' \in {0, Turned(held)}
  <2>1. CASE SymDiff(held, prevKeys) \cap {"left", "right"} = {}
    <3>1. ("left" \in held <=> "left" \in prevKeys) /\ ("right" \in held <=> "right" \in prevKeys)
      BY <2>1 DEF SymDiff
    <3>2. Turned(held) = Turned(prevKeys)
      BY <3>1 DEF Turned
    <3>3. turnacc' = turnacc
      BY <2>1 DEF HandleKeyboard
    <3> QED
      BY <3>2, <3>3 DEF KeysInv, KeysAreObeyed
  <2>2. CASE SymDiff(held, prevKeys) \cap {"left", "right"} # {}
    BY <2>2 DEF HandleKeyboard
  <2> QED
    BY <2>1, <2>2
<1> QED
  BY <1>1, <1>2, <1>3, <1>4, <1>5

LEMMA KeysInit == InputInit => KeysInv
<1> SUFFICES ASSUME InputInit PROVE KeysInv
  OBVIOUS
<1>1. <<>> \in Seq(SUBSET Keys) /\ 0 \in 0..Len(<<>>)
  BY SMT
<1>2. InputTypeOK
  BY <1>1 DEF InputInit, InputTypeOK
<1>3. KeysAreObeyed
  BY SMT DEF InputInit, KeysAreObeyed
<1> QED
  BY <1>2, <1>3 DEF InputInit, KeysInv

LEMMA KeysStep ==
  ASSUME KeysInv, [InputNext]_inputVars
  PROVE  KeysInv'
<1> USE DEF ship, talk
<1>0. InputTypeOK /\ KeysAreObeyed /\ lastKeyChange = youngest
  BY DEF KeysInv
<1>1. CASE ChangeKeys
  <2>1. PICK k \in Keys : wanted' = Append(wanted, SymDiff(KeysNow, {k}))
    BY <1>1 DEF ChangeKeys
  <2>2. KeysNow \in SUBSET Keys
    BY <1>0, SMT DEF InputTypeOK, KeysNow, Last
  <2>3. SymDiff(KeysNow, {k}) \in SUBSET Keys
    BY <2>2 DEF SymDiff
  <2>4. /\ wanted' \in Seq(SUBSET Keys) /\ youngest \in 0..Len(wanted')
        /\ youngest > 0 => wanted'[youngest] = wanted[youngest]
    <3>1. wanted \in Seq(SUBSET Keys) /\ youngest \in 0..Len(wanted)
      BY <1>0 DEF InputTypeOK
    <3>2. /\ wanted' \in Seq(SUBSET Keys)
          /\ Len(wanted) \in Nat /\ Len(wanted') = Len(wanted) + 1
          /\ \A i \in 1..Len(wanted) : wanted'[i] = wanted[i]
      BY <2>1, <2>3, <3>1, Appended
    <3>3. youngest \in 0..Len(wanted') /\ (youngest > 0 => youngest \in 1..Len(wanted))
      BY <3>1, <3>2, SMT
    <3> QED
      BY <3>2, <3>3
  <2>5. UNCHANGED <<lastKeyChange, prevKeys, youngest, ship>>
    BY <1>1 DEF ChangeKeys
  <2> QED
    BY <1>0, <2>4, <2>5 DEF KeysInv, InputTypeOK, KeysAreObeyed
<1>2. CASE ReceiveKeyboard
  <2>1. PICK change \in DOMAIN wanted :
          /\ youngest' = Max({change, youngest})
          /\ IF IsNews(change)
             THEN lastKeyChange' = change /\ HandleKeyboard(wanted[change])
             ELSE UNCHANGED <<lastKeyChange, prevKeys, ship>>
    BY <1>2 DEF ReceiveKeyboard
  <2>2. wanted' = wanted
    BY <1>2 DEF ReceiveKeyboard
  <2>3. /\ change \in 1..Len(wanted) /\ change \in Int /\ youngest \in Int
        /\ wanted[change] \in SUBSET Keys
    BY <1>0, SMT DEF InputTypeOK
  <2>4. youngest' = IF change > youngest THEN change ELSE youngest
    BY <2>1, <2>3, MaxOfTwo
  <2>5. CASE IsNews(change)
    <3>1. youngest' = change /\ lastKeyChange' = change
      BY <1>0, <2>1, <2>4, <2>5 DEF IsNews
    <3>2. HandleKeyboard(wanted[change])
      BY <2>1, <2>5
    <3>3. youngest' \in 0..Len(wanted)
      BY <1>0, <2>3, <3>1, SMT DEF InputTypeOK
    <3>4. /\ prevKeys' = wanted[change]
          /\ thrusting' \in BOOLEAN /\ (thrusting' => "thrust" \in prevKeys')
          /\ shooting' \in BOOLEAN /\ (shooting' <=> "fire" \in prevKeys')
          /\ usesRefuel' \in BOOLEAN /\ fs' \in BOOLEAN
          /\ usesRefuel' => fs' /\ "refuel" \in prevKeys'
          /\ turnacc' \in {0, Turned(prevKeys')}
      BY <2>3, <3>2, Handled
    <3>5. Turned(prevKeys') = Turned(prevKeys)'
      BY DEF Turned
    <3> QED
      BY <1>0, <2>2, <2>3, <3>1, <3>3, <3>4, <3>5 DEF KeysInv, InputTypeOK, KeysAreObeyed
  <2>6. CASE ~IsNews(change)
    <3>1. youngest' = youngest
      BY <1>0, <2>4, <2>6 DEF IsNews
    <3> QED
      BY <1>0, <2>1, <2>2, <2>6, <3>1 DEF KeysInv, InputTypeOK, KeysAreObeyed
  <2> QED
    BY <2>5, <2>6
<1>3. CASE FuelChanges
  <2>1. /\ UNCHANGED <<wanted, lastKeyChange, prevKeys, youngest, shooting, fs, turnacc>>
        /\ usesRefuel' \in {usesRefuel, FALSE} /\ thrusting' \in {thrusting, FALSE}
    BY <1>3 DEF FuelChanges
  <2>2. InputTypeOK'
    BY <1>0, <2>1 DEF InputTypeOK
  <2>3. KeysAreObeyed'
    <3>1. (thrusting' => thrusting) /\ (usesRefuel' => usesRefuel)
      <4>1. CASE usesRefuel' = FALSE /\ thrusting' = thrusting
        BY <4>1, Zenon
      <4>2. CASE thrusting' = FALSE /\ usesRefuel' = usesRefuel
        BY <4>2, Zenon
      <4> QED
        BY <1>3, <4>1, <4>2 DEF FuelChanges
    <3>2. /\ thrusting' => "thrust" \in prevKeys
          /\ usesRefuel' => fs /\ "refuel" \in prevKeys
      BY <1>0, <3>1 DEF KeysAreObeyed
    <3>3. /\ youngest > 0 => prevKeys = wanted[youngest]
          /\ shooting <=> "fire" \in prevKeys
          /\ turnacc \in {0, Turned(prevKeys)}
      BY <1>0 DEF KeysAreObeyed
    <3> QED
      BY <2>1, <3>2, <3>3, Zenon DEF KeysAreObeyed
  <2> QED
    BY <1>0, <2>1, <2>2, <2>3 DEF KeysInv
<1>4. CASE GoHome
  <2>1. UNCHANGED <<wanted, lastKeyChange, prevKeys, youngest, thrusting, shooting, usesRefuel, fs>>
        /\ turnacc' = 0
    BY <1>4 DEF GoHome
  <2> QED
    BY <1>0, <2>1 DEF KeysInv, InputTypeOK, KeysAreObeyed
<1>5. CASE Say \/ TwoAtOnce \/ ReceiveTalk \/ Die \/ NextRound \/ UNCHANGED inputVars
  <2>1. UNCHANGED <<wanted, lastKeyChange, prevKeys, youngest, ship>>
    BY <1>5 DEF Say, TwoAtOnce, ReceiveTalk, Die, NextRound, inputVars
  <2> QED
    BY <1>0, <2>1 DEF KeysInv, InputTypeOK, KeysAreObeyed
<1> QED
  BY <1>1, <1>2, <1>3, <1>4, <1>5 DEF InputNext

(* The ship does what the youngest keyboard state says that has come, and  *)
(* nothing else.                                                           *)
THEOREM KeysStayObeyed == InputSpec => []KeysAreObeyed
<1>1. KeysInv => KeysAreObeyed
  BY DEF KeysInv
<1> QED
  BY <1>1, KeysInit, KeysStep, PTL DEF InputSpec
-----------------------------------------------------------------------------
(* The talk.                                                               *)

LEMMA TalkInit == InputInit => TalkInv
BY SMT DEF InputInit, TalkInv, HeardOnce

LEMMA TalkStep ==
  ASSUME TalkInv, [InputNext]_inputVars
  PROVE  TalkInv'
<1> USE DEF talk
<1>0. /\ said \in Nat /\ talkSeq \in Nat /\ heard \in Seq(Nat)
      /\ \A i \in DOMAIN heard : heard[i] <= talkSeq
      /\ HeardOnce
  BY DEF TalkInv
<1>1. CASE Say
  BY <1>0, <1>1, SMT DEF Say, TalkInv, HeardOnce
<1>2. ASSUME NEW seq \in 1..said, seq > talkSeq,
             talkSeq' = seq, acked' = Append(acked, seq), heard' = Append(heard, seq), said' = said
      PROVE  TalkInv'
  <2>1. seq \in Nat /\ Len(heard) \in Nat
    BY <1>0, SMT
  <2>2. /\ heard' \in Seq(Nat)
        /\ DOMAIN heard = 1..Len(heard) /\ DOMAIN heard' = 1..(Len(heard) + 1)
        /\ heard'[Len(heard) + 1] = seq
        /\ \A i \in 1..Len(heard) : heard'[i] = heard[i]
    BY <1>0, <1>2, <2>1, SMT
  <2>3. \A i \in DOMAIN heard' : heard'[i] <= talkSeq'
    BY <1>0, <1>2, <2>1, <2>2, SMT
  <2>4. \A i, j \in DOMAIN heard' : i < j => heard'[i] < heard'[j]
    <3> SUFFICES ASSUME NEW i \in DOMAIN heard', NEW j \in DOMAIN heard', i < j
                 PROVE  heard'[i] < heard'[j]
      OBVIOUS
    <3>1. i \in 1..Len(heard) /\ heard'[i] = heard[i]
      BY <2>1, <2>2, SMT
    <3>2. CASE j = Len(heard) + 1
      BY <1>0, <1>2, <2>1, <2>2, <3>1, <3>2, SMT
    <3>3. CASE j \in 1..Len(heard)
      BY <1>0, <2>2, <3>1, <3>3 DEF HeardOnce
    <3> QED
      BY <2>1, <2>2, <3>2, <3>3, SMT
  <2>5. acked' = heard'
    BY <1>0, <1>2 DEF HeardOnce
  <2> QED
    BY <1>0, <1>2, <2>1, <2>2, <2>3, <2>4, <2>5 DEF TalkInv, HeardOnce
<1>3. CASE UNCHANGED talk
  BY <1>0, <1>3 DEF TalkInv, HeardOnce
<1>4. CASE ReceiveTalk
  <2>1. said' = said
    BY <1>4 DEF ReceiveTalk
  <2>2. \/ UNCHANGED <<talkSeq, acked, heard>>
        \/ \E seq \in 1..said : /\ seq > talkSeq /\ talkSeq' = seq
                                /\ acked' = Append(acked, seq) /\ heard' = Append(heard, seq)
    BY <1>4 DEF ReceiveTalk, Unheard
  <2> QED
    BY <1>2, <1>3, <2>1, <2>2
<1>5. CASE ChangeKeys \/ ReceiveKeyboard \/ TwoAtOnce \/ FuelChanges \/ Die \/ GoHome \/ NextRound
           \/ UNCHANGED inputVars
  <2>1. UNCHANGED talk
    BY <1>5 DEF ChangeKeys, ReceiveKeyboard, TwoAtOnce, FuelChanges, Die, GoHome, NextRound, inputVars
  <2> QED
    BY <1>3, <2>1
<1> QED
  BY <1>1, <1>4, <1>5 DEF InputNext

(* What is said is done at most once, in order, and acknowledged exactly   *)
(* when it is done.                                                        *)
THEOREM TalkIsHeardOnce == InputSpec => []HeardOnce
<1>1. TalkInv => HeardOnce
  BY DEF TalkInv
<1> QED
  BY <1>1, TalkInit, TalkStep, PTL DEF InputSpec
-----------------------------------------------------------------------------
(***************************************************************************)
(* Frames.  A packet is followed from call to call: the ships (ShipsAreIn),*)
(* the radar (RadarIsIn) and drawer by drawer the shots (ShotsAreIn).      *)
(* What it needs is that a drawer holds only shots whose offset leads back *)
(* to their place, each once (Filed): the offsets are those around the     *)
(* world from the corner of the view (AlongAnAxis), and an area is found   *)
(* again from its number (PairOfAreas).  That each is there once bounds    *)
(* the bytes of the shots (FiledCount).  The frames of a cycle are counted *)
(* against the client's divisor (Shared).                                  *)
(***************************************************************************)

ScreenItems == [what : {"ship", "shot", "radar"}, of : Int, at : Int \X Int]
Packets     == [len : Nat, items : SUBSET ScreenItems]

SceneTypes ==
  /\ wraps \in BOOLEAN /\ bufferSize \in FrameRooms /\ display \in Displays
  /\ shipAt \in [Seats -> Pixels] /\ shotAt \in [Shots -> Pixels]
  /\ condition \in [Seats -> {"alive", "dead", "returning"}]
  /\ lockedOn \in [Seats -> Seats \cup {Nowhere}]
-----------------------------------------------------------------------------
LEMMA FrameFacts ==
  /\ PixelsX \in Nat \ {0} /\ PixelsY \in Nat \ {0} /\ NumSeats \in Nat \ {0} /\ NumShots \in Nat
  /\ AreaSize \in Nat \ {0} /\ MaxView \in Nat \ {0} /\ PerArea \in Nat
  /\ WriteSpare \in Nat /\ WriteSpare >= 5
  /\ FrameFps \in Nat \ {0} /\ FrameDivisor \in Nat \ {0}
BY FrameAssumption

(* Where the view is: numbers.                                             *)
LEMMA ViewNumbers ==
  ASSUME SceneTypes, NEW c \in Seats, NEW k \in Axes
  PROVE  /\ SeenFrom(c) \in Seats /\ Extent(k) \in Nat \ {0}
         /\ ViewSize(c, k) \in Nat \ {0} /\ ViewSize(c, k) <= MaxView
         /\ Corner(c, k) \in Int /\ Corner(c, k) < Extent(k)
         /\ NearWorld(c, k) \in Int /\ RealWorld(c, k) \in Int
<1>1. SeenFrom(c) \in Seats
  BY DEF SceneTypes, SeenFrom
<1>2. Extent(k) \in Nat \ {0}
  BY FrameFacts DEF Extent
<1>3. ViewSize(c, k) \in Nat \ {0} /\ ViewSize(c, k) <= MaxView
  <2>1. display \in [Seats -> [size : (1..MaxView) \X (1..MaxView), fps : Nat \ {0}]]
    BY FrameAssumption DEF SceneTypes
  <2>2. display[c].size \in (1..MaxView) \X (1..MaxView)
    BY <2>1
  <2>3. display[c].size[k] \in 1..MaxView
    BY <2>2 DEF Axes
  <2> QED
    BY <2>3, FrameFacts DEF ViewSize
<1>4. shipAt[SeenFrom(c)][k] \in 0..Extent(k) - 1
  <2>1. shipAt[SeenFrom(c)] \in (0..PixelsX - 1) \X (0..PixelsY - 1)
    BY <1>1 DEF SceneTypes, Pixels
  <2> QED
    BY <2>1 DEF Axes, Extent
<1>5. Corner(c, k) \in Int /\ Corner(c, k) < Extent(k)
  <2>1. ViewSize(c, k) \div 2 \in Nat
    BY <1>3
  <2> QED
    BY <1>2, <1>4, <2>1 DEF Corner
<1>6. NearWorld(c, k) \in Int /\ RealWorld(c, k) \in Int
  BY <1>2, <1>3, <1>5 DEF NearWorld, RealWorld
<1> QED
  BY <1>1, <1>2, <1>3, <1>5, <1>6

(* Along one axis: what is in the view or in the part of it next to this   *)
(* world is seen around the world; the offset from the corner is within    *)
(* the view, and leads back to the place.                                  *)
OnAxis(around, extent, size, low, p, near, real) ==
  /\ Between(p, near, size) \/ Between(p, real, size) =>
       /\ \E n \in IF around THEN {-1, 0, 1} ELSE {0} : Between(p + n * extent, low, size)
       /\ Wrapped(p - near, extent) \in 0..size - 1
       /\ (IF around THEN (low + Wrapped(p - near, extent)) % extent
           ELSE low + Wrapped(p - near, extent)) = p
  /\ (around => size <= extent)
     /\ (\E n \in IF around THEN {-1, 0, 1} ELSE {0} : Between(p + n * extent, low, size)) =>
       Between(p, near, size) \/ Between(p, real, size)

LEMMA AlongAnAxis ==
  ASSUME NEW around \in BOOLEAN, NEW extent \in Nat \ {0}, NEW size \in Nat \ {0},
         NEW low \in Int, low < extent, NEW p \in 0..extent - 1, NEW near, NEW real,
         near = IF around /\ low < 0 /\ low + size < extent THEN low + extent ELSE low,
         real = IF around /\ low > 0 /\ low + size >= extent THEN low - extent ELSE low
  PROVE  OnAxis(around, extent, size, low, p, near, real)
<1> DEFINE x == Wrapped(p - near, extent)
<1>0. near \in Int /\ real \in Int /\ x \in Int
  BY DEF Wrapped
<1>1. CASE ~around
  <2>1. near = low /\ real = low
    BY <1>1
  <2> QED
    BY <1>1, <2>1 DEF OnAxis, Between, Wrapped
<1>2. CASE around
  <2>1. ASSUME Between(p, near, size) \/ Between(p, real, size)
        PROVE  /\ Between(p - extent, low, size) \/ Between(p, low, size) \/ Between(p + extent, low, size)
               /\ x \in 0..size - 1
               /\ low + x = p - extent \/ low + x = p \/ low + x = p + extent
    BY <1>2, <2>1 DEF Between, Wrapped
  <2>2. ASSUME size <= extent,
               Between(p - extent, low, size) \/ Between(p, low, size) \/ Between(p + extent, low, size)
        PROVE  Between(p, near, size) \/ Between(p, real, size)
    BY <1>2, <2>2 DEF Between
  <2>3. (\E n \in {-1, 0, 1} : Between(p + n * extent, low, size)) <=>
          Between(p - extent, low, size) \/ Between(p, low, size) \/ Between(p + extent, low, size)
    <3>1. p + (-1) * extent = p - extent /\ p + 0 * extent = p /\ p + 1 * extent = p + extent
      BY SMT
    <3> QED
      BY <3>1
  <2>4. ASSUME NEW n \in {-1, 0, 1}, low + x = p + n * extent PROVE (low + x) % extent = p
    <3>1. low + x = extent * n + p
      BY <2>4, SMT
    <3> QED
      BY <1>0, <3>1, Remainder
  <2>5. (low + x = p - extent \/ low + x = p \/ low + x = p + extent) => (low + x) % extent = p
    <3>1. p + (-1) * extent = p - extent /\ p + 0 * extent = p /\ p + 1 * extent = p + extent
      BY SMT
    <3> QED
      BY <2>4, <3>1
  <2> QED
    BY <1>2, <2>1, <2>2, <2>3, <2>5 DEF OnAxis
<1> QED
  BY <1>1, <1>2

(* A number of areas that is large enough for a size.                      *)
LEMMA EnoughAreas ==
  ASSUME NEW a \in Nat \ {0}, NEW s \in Nat \ {0}, NEW v \in Nat, s <= v, NEW x \in 0..s - 1
  PROVE  /\ (s + a - 1) \div a \in Nat \ {0} /\ (v + a - 1) \div a \in Nat
         /\ (s + a - 1) \div a <= (v + a - 1) \div a
         /\ x \div a \in 0..(s + a - 1) \div a - 1
         /\ (x \div a) * a + (x % a) = x /\ x % a \in 0..a - 1
<1> DEFINE q == x \div a
           r == x % a
           n == (s + a - 1) \div a
           t == (s + a - 1) % a
           m == (v + a - 1) \div a
           u == (v + a - 1) % a
<1>0. x \in Int /\ s + a - 1 \in Int /\ v + a - 1 \in Int
  OBVIOUS
<1>1. x = a * q + r /\ r \in 0..a - 1 /\ q \in Int
  BY <1>0, Division
<1>2. s + a - 1 = a * n + t /\ t \in 0..a - 1 /\ n \in Int
  BY <1>0, Division
<1>3. v + a - 1 = a * m + u /\ u \in 0..a - 1 /\ m \in Int
  BY <1>0, Division
<1> HIDE DEF q, r, n, t, m, u
<1>4. \A i, j \in Int : i < j => a * i + a <= a * j
  <2>1. ASSUME NEW i \in Int, NEW j \in Int, i < j PROVE a * i + a <= a * j
    <3>1. j - i >= 1 => a * (j - i) >= a
      BY <2>1, SMT
    <3> QED
      BY <2>1, <3>1, SMT
  <2> QED
    BY <2>1
<1>5. a * 0 = 0 /\ q * a = a * q
  BY <1>1, SMT
<1>6. q < n
  <2>1. n < q \/ n = q \/ q < n
    BY <1>1, <1>2
  <2>2. n < q => a * n + a <= a * q
    BY <1>1, <1>2, <1>4
  <2>3. a * n \in Int /\ a * q \in Int
    BY <1>1, <1>2, SMT
  <2> HIDE DEF q, n
  <2> QED
    BY <1>1, <1>2, <2>1, <2>2, <2>3
<1>7. q >= 0
  <2>1. q < 0 => a * q + a <= a * 0
    BY <1>1, <1>4
  <2>2. a * q \in Int
    BY <1>1, SMT
  <2> QED
    BY <1>1, <1>5, <2>1, <2>2
<1>8. n <= m
  <2>1. m < n => a * m + a <= a * n
    BY <1>2, <1>3, <1>4
  <2>2. a * n \in Int /\ a * m \in Int
    BY <1>2, <1>3, SMT
  <2> QED
    BY <1>2, <1>3, <2>1, <2>2
<1>9. x \div a = q /\ x % a = r /\ (s + a - 1) \div a = n /\ (v + a - 1) \div a = m
  BY DEF q, r, n, m
<1>10. q * a + r = x /\ n > 0 /\ m \in Nat /\ q \in 0..n - 1
  BY <1>1, <1>2, <1>3, <1>5, <1>6, <1>7, <1>8
<1> QED
  BY <1>1, <1>2, <1>8, <1>9, <1>10

(* A pair of numbers as one, and back.                                     *)
LEMMA PairOfAreas ==
  ASSUME NEW wide \in Nat \ {0}, NEW high \in Nat \ {0}, NEW most \in Nat, wide <= most, high <= most,
         NEW i \in 0..wide - 1, NEW j \in 0..high - 1
  PROVE  /\ j * wide + i \in 0..most * most - 1
         /\ (j * wide + i) % wide = i /\ (j * wide + i) \div wide = j
<1> DEFINE k == j * wide + i
<1>1. k \in Nat /\ k = wide * j + i
  BY SMT
<1>2. k % wide = i
  BY <1>1, Remainder
<1>3. k \div wide = j
  <2> DEFINE d == k \div wide
  <2>1. k = wide * d + (k % wide) /\ d \in Int
    BY <1>1, Division
  <2> HIDE DEF d
  <2>2. wide * d = wide * j
    BY <1>1, <1>2, <2>1, SMT
  <2>3. d = j
    BY <2>1, <2>2, SMT
  <2> QED
    BY <2>3 DEF d
<1>4. k < most * most
  <2>1. k < j * wide + wide
    BY SMT
  <2>2. j * wide + wide = (j + 1) * wide
    BY SMT
  <2>3. (j + 1) * wide <= most * wide
    BY SMT
  <2>4. most * wide <= most * most
    BY SMT
  <2>5. (j + 1) * wide \in Int /\ most * wide \in Int /\ most * most \in Int
    BY SMT
  <2> QED
    BY <1>1, <2>1, <2>2, <2>3, <2>4, <2>5
<1>5. most * most \in Int
  BY SMT
<1> QED
  BY <1>1, <1>2, <1>3, <1>4, <1>5

(* What is in view is seen, and its offsets lead back to it.               *)
LEMMA SightIs ==
  ASSUME SceneTypes, NEW c \in Seats, NEW p \in Pixels
  PROVE  /\ InView(c, p) =>
              /\ Seen(c, p)
              /\ \A k \in Axes :
                   /\ FromCorner(c, p, k) \in 0..ViewSize(c, k) - 1
                   /\ (IF wraps THEN (Corner(c, k) + FromCorner(c, p, k)) % Extent(k)
                       ELSE Corner(c, k) + FromCorner(c, p, k)) = p[k]
         /\ ViewFits(c) /\ Seen(c, p) => InView(c, p)
<1> DEFINE Around(k) == \E n \in IF wraps THEN {-1, 0, 1} ELSE {0} :
                          Between(p[k] + n * Extent(k), Corner(c, k), ViewSize(c, k))
           Inside(k) == \/ Between(p[k], NearWorld(c, k), ViewSize(c, k))
                        \/ Between(p[k], RealWorld(c, k), ViewSize(c, k))
           Back(k) == /\ FromCorner(c, p, k) \in 0..ViewSize(c, k) - 1
                      /\ (IF wraps THEN (Corner(c, k) + FromCorner(c, p, k)) % Extent(k)
                          ELSE Corner(c, k) + FromCorner(c, p, k)) = p[k]
<1>1. ASSUME NEW k \in Axes
      PROVE  /\ Inside(k) => Around(k) /\ Back(k)
             /\ (wraps => ViewSize(c, k) <= Extent(k)) /\ Around(k) => Inside(k)
  <2> DEFINE extent == Extent(k)
             size == ViewSize(c, k)
             low == Corner(c, k)
             near == NearWorld(c, k)
             real == RealWorld(c, k)
             q == p[k]
  <2>1. q \in 0..extent - 1
    BY DEF Pixels, Axes, Extent
  <2>2. /\ wraps \in BOOLEAN /\ extent \in Nat \ {0} /\ size \in Nat \ {0}
        /\ low \in Int /\ low < extent
    BY ViewNumbers DEF SceneTypes
  <2>3. /\ near = IF wraps /\ low < 0 /\ low + size < extent THEN low + extent ELSE low
        /\ real = IF wraps /\ low > 0 /\ low + size >= extent THEN low - extent ELSE low
    BY DEF NearWorld, RealWorld
  <2>4. FromCorner(c, p, k) = Wrapped(q - near, extent)
    BY DEF FromCorner
  <2>5. /\ Inside(k) <=> Between(q, near, size) \/ Between(q, real, size)
        /\ Around(k) <=> \E n \in IF wraps THEN {-1, 0, 1} ELSE {0} : Between(q + n * extent, low, size)
        /\ Back(k) <=> /\ Wrapped(q - near, extent) \in 0..size - 1
                      /\ (IF wraps THEN (low + Wrapped(q - near, extent)) % extent
                          ELSE low + Wrapped(q - near, extent)) = q
    BY <2>4
  <2> HIDE DEF extent, size, low, near, real, q, Inside, Around, Back
  <2>6. OnAxis(wraps, extent, size, low, q, near, real)
    BY <2>1, <2>2, <2>3, AlongAnAxis
  <2>7. size = ViewSize(c, k) /\ extent = Extent(k)
    BY DEF size, extent
  <2> QED
    BY <2>5, <2>6, <2>7, Zenon DEF OnAxis
<1>2. InView(c, p) <=> \A k \in Axes : Inside(k)
  BY DEF InView
<1>3. Seen(c, p) <=> \A k \in Axes : Around(k)
  BY DEF Seen
<1>4. ViewFits(c) <=> \A k \in Axes : (wraps => ViewSize(c, k) <= Extent(k))
  BY DEF ViewFits
<1> HIDE DEF Around, Inside
<1> QED
  BY <1>1, <1>2, <1>3, <1>4
-----------------------------------------------------------------------------
AreaNumbers == 0..NumAreas - 1
Entries     == [of : Shots, at : (0..AreaSize - 1) \X (0..AreaSize - 1)]
DrawerSets  == [AreaNumbers -> Seq(Entries)]

\* What DEBRIS_STORE writes down, and what the client shall see of it.
Offset(c, s) ==
  [of |-> s, at |-> <<FromCorner(c, shotAt[s], 1) % AreaSize, FromCorner(c, shotAt[s], 2) % AreaSize>>]
Spot(s) == [what |-> "shot", of |-> s, at |-> shotAt[s]]

(* The drawer of a shot in view, and what the client makes of its offset.  *)
LEMMA OffsetIs ==
  ASSUME SceneTypes, NEW c \in Seats, NEW s \in Shots, InView(c, shotAt[s])
  PROVE  /\ AreaOf(c, shotAt[s]) \in AreaNumbers /\ Offset(c, s) \in Entries
         /\ Placed(c, AreaOf(c, shotAt[s]), Offset(c, s)) = Spot(s)
<1> DEFINE p == shotAt[s]
           x == FromCorner(c, p, 1)
           y == FromCorner(c, p, 2)
           wide == AreasOf(c, 1)
           high == AreasOf(c, 2)
           i == x \div AreaSize
           j == y \div AreaSize
           k == AreaOf(c, p)
           spot(a) == Corner(c, a) + <<i, j>>[a] * AreaSize + <<x % AreaSize, y % AreaSize>>[a]
           there(a) == IF wraps THEN spot(a) % Extent(a) ELSE spot(a)
<1>1. p \in Pixels /\ 1 \in Axes /\ 2 \in Axes
  BY DEF SceneTypes, Axes
<1>2. /\ x \in 0..ViewSize(c, 1) - 1 /\ y \in 0..ViewSize(c, 2) - 1
      /\ (IF wraps THEN (Corner(c, 1) + x) % Extent(1) ELSE Corner(c, 1) + x) = p[1]
      /\ (IF wraps THEN (Corner(c, 2) + y) % Extent(2) ELSE Corner(c, 2) + y) = p[2]
  <2>1. \A a \in Axes : /\ FromCorner(c, p, a) \in 0..ViewSize(c, a) - 1
                        /\ (IF wraps THEN (Corner(c, a) + FromCorner(c, p, a)) % Extent(a)
                            ELSE Corner(c, a) + FromCorner(c, p, a)) = p[a]
    BY <1>1, SightIs
  <2> QED
    BY <1>1, <2>1
<1>3. /\ ViewSize(c, 1) \in Nat \ {0} /\ ViewSize(c, 2) \in Nat \ {0}
      /\ ViewSize(c, 1) <= MaxView /\ ViewSize(c, 2) <= MaxView
      /\ Corner(c, 1) \in Int /\ Corner(c, 2) \in Int
  BY <1>1, ViewNumbers
<1>4. /\ wide \in Nat \ {0} /\ wide <= MaxAreas /\ i \in 0..wide - 1 /\ i * AreaSize + (x % AreaSize) = x
      /\ x % AreaSize \in 0..AreaSize - 1 /\ MaxAreas \in Nat
  BY <1>2, <1>3, FrameFacts, EnoughAreas DEF AreasOf, MaxAreas
<1>5. /\ high \in Nat \ {0} /\ high <= MaxAreas /\ j \in 0..high - 1 /\ j * AreaSize + (y % AreaSize) = y
      /\ y % AreaSize \in 0..AreaSize - 1
  BY <1>2, <1>3, FrameFacts, EnoughAreas DEF AreasOf, MaxAreas
<1>6. k = (j % high) * wide + (i % wide)
  BY DEF AreaOf
<1>7. Offset(c, s) = [of |-> s, at |-> <<x % AreaSize, y % AreaSize>>]
  BY DEF Offset
<1> HIDE DEF x, y, wide, high, i, j, k
<1>8. j % high = j /\ i % wide = i
  <2>1. j = high * 0 + j /\ i = wide * 0 + i /\ j \in Int /\ i \in Int
    BY <1>4, <1>5, SMT
  <2> QED
    BY <1>4, <1>5, <2>1, Remainder
<1>9. k \in AreaNumbers /\ k % wide = i /\ k \div wide = j
  BY <1>4, <1>5, <1>6, <1>8, PairOfAreas DEF AreaNumbers, NumAreas
<1>10. Placed(c, k, Offset(c, s)) = [what |-> "shot", of |-> s, at |-> <<there(1), there(2)>>]
  BY <1>7, <1>9 DEF Placed, wide
<1>11. spot(1) = Corner(c, 1) + x /\ spot(2) = Corner(c, 2) + y
  BY <1>2, <1>3, <1>4, <1>5, FrameFacts
<1>12. there(1) = p[1] /\ there(2) = p[2]
  BY <1>2, <1>11
<1>13. p = <<p[1], p[2]>>
  BY <1>1 DEF Pixels
<1>14. Offset(c, s) \in Entries
  BY <1>4, <1>5, <1>7 DEF Entries
<1>15. k = AreaOf(c, p)
  BY DEF k
<1> QED
  BY <1>9, <1>10, <1>12, <1>13, <1>14, <1>15 DEF Spot

LEMMA StoredIs ==
  ASSUME SceneTypes, NEW c \in Seats, NEW s \in Shots, InView(c, shotAt[s]), NEW bs \in DrawerSets
  PROVE  LET k == AreaOf(c, shotAt[s]) IN
         /\ Len(bs[k]) >= PerArea => Stored(bs, c, s) = bs
         /\ ~(Len(bs[k]) >= PerArea) => Stored(bs, c, s) = [bs EXCEPT ![k] = Append(bs[k], Offset(c, s))]
<1>1. shotAt[s] \in Pixels /\ 1 \in Axes /\ 2 \in Axes
  BY DEF SceneTypes, Axes
<1>2. FromCorner(c, shotAt[s], 1) \in 0..ViewSize(c, 1) - 1 /\ FromCorner(c, shotAt[s], 2) \in 0..ViewSize(c, 2) - 1
  BY <1>1, SightIs
<1> QED
  BY <1>2 DEF Stored, Offset

\* The drawers hold the shots of a set that are in view, each once and in the
\* drawer that leads back to it, or are full.
Filed(c, T, bs) ==
  /\ bs \in DrawerSets
  /\ \A k \in AreaNumbers : \A i \in 1..Len(bs[k]) :
       /\ bs[k][i].of \in T /\ InView(c, shotAt[bs[k][i].of])
       /\ Placed(c, k, bs[k][i]) = Spot(bs[k][i].of)
  /\ \A k, l \in AreaNumbers : \A i \in 1..Len(bs[k]), j \in 1..Len(bs[l]) :
       bs[k][i].of = bs[l][j].of => k = l /\ i = j
  /\ \A s \in T : InView(c, shotAt[s]) =>
       \E k \in AreaNumbers : Len(bs[k]) >= PerArea \/ \E i \in 1..Len(bs[k]) : bs[k][i].of = s

LEMMA StoredKeeps ==
  ASSUME SceneTypes, NEW c \in Seats, NEW s \in Shots, InView(c, shotAt[s]),
         NEW T \in SUBSET Shots, s \notin T, NEW bs, Filed(c, T, bs)
  PROVE  Filed(c, T \cup {s}, Stored(bs, c, s))
<1> DEFINE k == AreaOf(c, shotAt[s])
           e == Offset(c, s)
<1>1. k \in AreaNumbers /\ e \in Entries /\ Placed(c, k, e) = Spot(s) /\ e.of = s
  BY OffsetIs DEF Offset
<1>2. bs \in DrawerSets
  BY DEF Filed
<1>3. /\ Len(bs[k]) >= PerArea => Stored(bs, c, s) = bs
      /\ ~(Len(bs[k]) >= PerArea) => Stored(bs, c, s) = [bs EXCEPT ![k] = Append(bs[k], e)]
  BY <1>2, StoredIs
<1> HIDE DEF k, e
<1>4. CASE Len(bs[k]) >= PerArea
  BY <1>1, <1>3, <1>4 DEF Filed
<1>5. CASE ~(Len(bs[k]) >= PerArea)
  <2> DEFINE us == [bs EXCEPT ![k] = Append(bs[k], e)]
             n == Len(bs[k]) + 1
  <2>1. bs[k] \in Seq(Entries) /\ n \in Nat \ {0}
    BY <1>1, <1>2 DEF DrawerSets
  <2>2. /\ us \in DrawerSets /\ us[k] = Append(bs[k], e) /\ \A l \in AreaNumbers \ {k} : us[l] = bs[l]
    BY <1>1, <1>2, <2>1 DEF DrawerSets
  <2>3. Len(us[k]) = n /\ us[k][n] = e /\ \A i \in 1..n - 1 : us[k][i] = bs[k][i]
    BY <1>1, <2>1, <2>2
  <2> HIDE DEF us
  <2>4. ASSUME NEW l \in AreaNumbers, NEW i \in 1..Len(us[l])
        PROVE  \/ l = k /\ i = n /\ us[l][i] = e
               \/ i \in 1..Len(bs[l]) /\ us[l][i] = bs[l][i]
    <3>1. CASE l = k
      BY <2>1, <2>3, <2>4, <3>1
    <3>2. CASE l # k
      BY <2>2, <2>4, <3>2
    <3> QED
      BY <3>1, <3>2
  <2>5. ASSUME NEW l \in AreaNumbers PROVE Len(us[l]) \in Nat /\ Len(bs[l]) \in Nat /\ Len(us[l]) >= Len(bs[l])
    <3>1. bs[l] \in Seq(Entries) /\ us[l] \in Seq(Entries)
      BY <1>2, <2>2 DEF DrawerSets
    <3>2. Len(us[l]) = Len(bs[l]) \/ l = k
      BY <2>2
    <3> QED
      BY <2>3, <3>1, <3>2
  <2>6. ASSUME NEW l \in AreaNumbers, NEW i \in 1..Len(us[l])
        PROVE  /\ us[l][i].of \in T \cup {s} /\ InView(c, shotAt[us[l][i].of])
               /\ Placed(c, l, us[l][i]) = Spot(us[l][i].of)
    <3>1. CASE l = k /\ i = n /\ us[l][i] = e
      BY <1>1, <3>1
    <3>2. CASE i \in 1..Len(bs[l]) /\ us[l][i] = bs[l][i]
      BY <3>2 DEF Filed
    <3> QED
      BY <2>4, <3>1, <3>2
  <2>7. ASSUME NEW l \in AreaNumbers, NEW m \in AreaNumbers, NEW i \in 1..Len(us[l]), NEW j \in 1..Len(us[m]),
               us[l][i].of = us[m][j].of
        PROVE  l = m /\ i = j
    <3>1. CASE /\ i \in 1..Len(bs[l]) /\ us[l][i] = bs[l][i]
               /\ j \in 1..Len(bs[m]) /\ us[m][j] = bs[m][j]
      BY <2>7, <3>1 DEF Filed
    <3>2. CASE l = k /\ i = n /\ us[l][i] = e /\ m = k /\ j = n
      BY <3>2
    <3>3. ASSUME NEW h \in AreaNumbers, NEW g \in 1..Len(bs[h]) PROVE bs[h][g].of # s
      BY DEF Filed
    <3> QED
      BY <1>1, <2>4, <2>7, <3>1, <3>2, <3>3
  <2>8. ASSUME NEW t \in T \cup {s}, InView(c, shotAt[t])
        PROVE  \E l \in AreaNumbers : Len(us[l]) >= PerArea \/ \E i \in 1..Len(us[l]) : us[l][i].of = t
    <3>1. CASE t = s
      <4>1. n \in 1..Len(us[k]) /\ us[k][n].of = t
        BY <1>1, <2>1, <2>3, <3>1
      <4> QED
        BY <1>1, <4>1
    <3>2. CASE t \in T
      <4>1. PICK l \in AreaNumbers : Len(bs[l]) >= PerArea \/ \E i \in 1..Len(bs[l]) : bs[l][i].of = t
        BY <2>8, <3>2 DEF Filed
      <4>2. CASE Len(bs[l]) >= PerArea
        BY <2>5, <4>2, FrameFacts
      <4>3. ASSUME NEW i \in 1..Len(bs[l]), bs[l][i].of = t PROVE i \in 1..Len(us[l]) /\ us[l][i].of = t
        <5>1. us[l][i] = bs[l][i]
          BY <2>1, <2>2, <2>3
        <5> QED
          BY <2>5, <4>3, <5>1
      <4> QED
        BY <4>1, <4>2, <4>3
    <3> QED
      BY <3>1, <3>2
  <2>9. Filed(c, T \cup {s}, us)
    BY <2>2, <2>6, <2>7, <2>8 DEF Filed
  <2> QED
    BY <1>3, <1>5, <2>9 DEF us
<1> QED
  BY <1>4, <1>5

LEMMA StoredTyped ==
  ASSUME SceneTypes, NEW c \in Seats, NEW s \in Shots, InView(c, shotAt[s]), NEW bs \in DrawerSets
  PROVE  Stored(bs, c, s) \in DrawerSets
<1> DEFINE k == AreaOf(c, shotAt[s])
           e == Offset(c, s)
<1>1. k \in AreaNumbers /\ e \in Entries
  BY OffsetIs
<1>2. Stored(bs, c, s) = bs \/ Stored(bs, c, s) = [bs EXCEPT ![k] = Append(bs[k], e)]
  BY StoredIs
<1> HIDE DEF k, e
<1>3. Append(bs[k], e) \in Seq(Entries)
  BY <1>1 DEF DrawerSets
<1> QED
  BY <1>2, <1>3 DEF DrawerSets

CollectStep(c, order) == [x \in (1..NumShots) \X DrawerSets |-> Spotted(c, order[x[1]], x[2])]

(* The loop over Obj[] keeps to the loop's equations.                      *)
LEMMA CollectedIs ==
  ASSUME SceneTypes, NEW c \in Seats, NEW order \in Orders, drawers \in DrawerSets
  PROVE  \E f : /\ f \in [0..NumShots -> DrawerSets] /\ f[0] = drawers /\ Collected(c, order) = f[NumShots]
                /\ \A j \in 1..NumShots : f[j] = Spotted(c, order[j], f[j - 1])
<1> DEFINE Loop(h) == h = [j \in 0..NumShots |->
                             IF j = 0 THEN drawers ELSE Spotted(c, order[j], h[j - 1])]
<1>0. NumShots \in Nat
  BY FrameFacts
<1>1. CollectStep(c, order) \in Rounded(NumShots, DrawerSets)
  <2>1. ASSUME NEW x \in (1..NumShots) \X DrawerSets PROVE (Spotted(c, order[x[1]], x[2])) \in DrawerSets
    <3>1. order[x[1]] \in Shots /\ x[2] \in DrawerSets
      BY DEF Orders, Shots
    <3>2. InView(c, shotAt[order[x[1]]]) => Stored(x[2], c, order[x[1]]) \in DrawerSets
      BY <3>1, StoredTyped
    <3> QED
      BY <3>1, <3>2 DEF Spotted
  <2> QED
    BY <2>1 DEF CollectStep, Rounded
<1>2. PICK f : /\ f \in [0..NumShots -> DrawerSets] /\ f[0] = drawers
               /\ \A j \in 1..NumShots : f[j] = CollectStep(c, order)[<<j, f[j - 1]>>]
  <2>1. PICK f : Run(f, NumShots, DrawerSets, drawers, CollectStep(c, order))
    BY <1>0, <1>1, Iterated
  <2> QED
    BY <2>1 DEF Run
<1>3. ASSUME NEW j \in 1..NumShots PROVE f[j] = Spotted(c, order[j], f[j - 1])
  <2>1. f[j - 1] \in DrawerSets
    BY <1>0, <1>2
  <2>2. <<j, f[j - 1]>> \in (1..NumShots) \X DrawerSets
    BY <2>1
  <2>3. CollectStep(c, order)[<<j, f[j - 1]>>] = Spotted(c, order[j], f[j - 1])
    BY <2>2, Zenon DEF CollectStep
  <2> QED
    BY <1>2, <2>3
<1>4. Loop(f)
  <2> DEFINE g == [j \in 0..NumShots |-> IF j = 0 THEN drawers ELSE Spotted(c, order[j], f[j - 1])]
  <2>1. ASSUME NEW j \in 0..NumShots PROVE f[j] = g[j]
    <3>1. j = 0 \/ j \in 1..NumShots
      BY <1>0
    <3> QED
      BY <1>2, <1>3, <3>1
  <2>2. f = [j \in 0..NumShots |-> f[j]]
    BY <1>2
  <2> HIDE DEF g
  <2>3. g = [j \in 0..NumShots |-> g[j]]
    BY DEF g
  <2>4. f = g
    BY <2>1, <2>2, <2>3
  <2> QED
    BY <2>4 DEF g
<1> DEFINE after == CHOOSE h : Loop(h)
<1>5. Loop(after)
  <2> HIDE DEF Loop
  <2> QED
    BY <1>4
<1>6. Collected(c, order) = after[NumShots]
  BY DEF Collected
<1> HIDE DEF after
<1>7. \A j \in 0..NumShots : after[j] = IF j = 0 THEN drawers ELSE Spotted(c, order[j], after[j - 1])
  BY <1>5
<1>8. \A j \in 0..NumShots : after[j] = f[j]
  <2> DEFINE Same == {j \in 0..NumShots : after[j] = f[j]}
  <2>1. 0 \in Same
    BY <1>0, <1>2, <1>7
  <2>2. ASSUME NEW j \in 1..NumShots, j - 1 \in Same PROVE j \in Same
    <3>1. j \in 0..NumShots /\ j # 0 /\ after[j - 1] = f[j - 1]
      BY <1>0, <2>2
    <3>2. after[j] = Spotted(c, order[j], after[j - 1])
      BY <1>7, <3>1
    <3> QED
      BY <1>3, <3>1, <3>2
  <2> HIDE DEF Same
  <2>3. \A j \in 0..NumShots : j \in Same
    BY <1>0, <2>1, <2>2, UpTo
  <2> QED
    BY <2>3 DEF Same
<1>9. NumShots \in 0..NumShots
  BY <1>0
<1> QED
  BY <1>2, <1>3, <1>6, <1>8, <1>9

(* An order of all shots names each of them.                               *)
LEMMA OrderNamesAll ==
  ASSUME NEW order \in Orders, NEW s \in Shots
  PROVE  \E j \in 1..NumShots : order[j] = s
<1>1. IsFiniteSet(Shots)
  BY FrameFacts, FS_Interval DEF Shots
<1>2. order \in Injection(Shots, Shots)
  BY DEF Orders, Injection, IsInjective
<1>3. order \in Surjection(Shots, Shots)
  BY <1>1, <1>2, FS_Injection
<1> QED
  BY <1>3 DEF Surjection, Shots

(* What Frame_shots leaves in the drawers.                                 *)
LEMMA CollectedKeeps ==
  ASSUME SceneTypes, NEW c \in Seats, NEW order \in Orders, drawers = Cleared
  PROVE  Filed(c, Shots, Collected(c, order))
<1>1. Cleared \in DrawerSets /\ \A k \in AreaNumbers : Len(Cleared[k]) = 0
  BY DEF Cleared, DrawerSets, AreaNumbers
<1>2. PICK f : /\ f \in [0..NumShots -> DrawerSets] /\ f[0] = drawers /\ Collected(c, order) = f[NumShots]
               /\ \A j \in 1..NumShots :
                    f[j] = IF InView(c, shotAt[order[j]]) THEN Stored(f[j - 1], c, order[j]) ELSE f[j - 1]
  BY <1>1, CollectedIs DEF Spotted
<1> DEFINE Past(j) == {order[i] : i \in 1..j}
           Done == {j \in 0..NumShots : Filed(c, Past(j), f[j])}
<1>3. 0 \in Done
  <2>1. Past(0) = {} /\ 0 \in 0..NumShots
    BY FrameFacts
  <2>2. Filed(c, {}, Cleared)
    BY <1>1 DEF Filed
  <2> QED
    BY <1>2, <2>1, <2>2
<1>4. ASSUME NEW j \in 1..NumShots, j - 1 \in Done PROVE j \in Done
  <2>1. j \in 0..NumShots /\ Filed(c, Past(j - 1), f[j - 1])
    BY <1>4
  <2>2. Past(j) = Past(j - 1) \cup {order[j]}
    <3>1. 1..j = (1..j - 1) \cup {j}
      BY FrameFacts
    <3> QED
      BY <3>1
  <2>3. order[j] \in Shots /\ order[j] \notin Past(j - 1) /\ Past(j - 1) \subseteq Shots
    BY FrameFacts DEF Orders, Shots
  <2> HIDE DEF Past
  <2>4. CASE InView(c, shotAt[order[j]])
    <3>1. f[j] = Stored(f[j - 1], c, order[j])
      BY <1>2, <2>4
    <3> QED
      BY <2>1, <2>2, <2>3, <2>4, <3>1, StoredKeeps
  <2>5. CASE ~InView(c, shotAt[order[j]])
    <3>1. f[j] = f[j - 1]
      BY <1>2, <2>5
    <3>2. Filed(c, Past(j - 1) \cup {order[j]}, f[j - 1])
      BY <2>1, <2>5 DEF Filed
    <3> QED
      BY <2>1, <2>2, <3>1, <3>2
  <2> QED
    BY <2>4, <2>5
<1> HIDE DEF Done
<1>5. NumShots \in Done
  <2>1. NumShots \in Nat
    BY FrameFacts
  <2>2. \A j \in 1..NumShots : j - 1 \in Done => j \in Done
    BY <1>4
  <2>3. \A j \in 0..NumShots : j \in Done
    BY <1>3, <2>1, <2>2, UpTo
  <2> QED
    BY <2>1, <2>3
<1>6. Past(NumShots) = Shots
  <2>1. Past(NumShots) \subseteq Shots
    BY DEF Orders, Shots
  <2> QED
    BY <2>1, OrderNamesAll
<1> QED
  BY <1>2, <1>5, <1>6 DEF Done
-----------------------------------------------------------------------------
LEMMA EmptyPacket == [len |-> Started, items |-> {}] \in Packets
BY DEF Packets, Started

LEMMA PlaceTyped ==
  ASSUME NEW p \in Pixels
  PROVE  p \in Int \X Int
BY FrameFacts DEF Pixels

LEMMA ShipIsAnItem ==
  ASSUME SceneTypes, NEW o \in Seats
  PROVE  Ship(o) \in ScreenItems /\ Blip(o) \in ScreenItems
<1>1. shipAt[o] \in Int \X Int /\ o \in Int
  BY FrameFacts, PlaceTyped DEF SceneTypes, Seats
<1> QED
  BY <1>1 DEF Ship, Blip, ScreenItems

LEMMA SpotIsAnItem ==
  ASSUME SceneTypes, NEW s \in Shots
  PROVE  Spot(s) \in ScreenItems
<1>1. shotAt[s] \in Int \X Int /\ s \in Int
  BY FrameFacts, PlaceTyped DEF SceneTypes, Shots
<1> QED
  BY <1>1 DEF Spot, ScreenItems

LEMMA PackedTyped ==
  ASSUME NEW w \in Packets, NEW i \in ScreenItems
  PROVE  Packed(w, 9, i) \in Packets
<1>1. w.len \in Nat /\ w.len + 9 \in Nat /\ w.items \cup {i} \in SUBSET ScreenItems
  BY DEF Packets
<1>2. [len |-> w.len + 9, items |-> w.items \cup {i}] \in Packets
  BY <1>1 DEF Packets
<1> QED
  BY <1>2 DEF Packed

LEMMA RoomIs ==
  ASSUME SceneTypes
  PROVE  bufferSize \in Nat /\ bufferSize > Started + WriteSpare /\ Started = 42
BY FrameAssumption DEF SceneTypes, Started

ShipsStep(c) == [x \in (1..NumSeats) \X Packets |-> Sighted(c, x[1], x[2])]

(* Frame_ships keeps to the loop's equations.                              *)
LEMMA ShipsSentIs ==
  ASSUME SceneTypes, NEW c \in Seats
  PROVE  \E f : /\ f \in [0..NumSeats -> Packets] /\ f[0] = [len |-> Started, items |-> {}]
                /\ ShipsSent(c) = f[NumSeats]
                /\ \A o \in 1..NumSeats : f[o] = Sighted(c, o, f[o - 1])
<1> DEFINE Loop(h) == h = [o \in 0..NumSeats |->
                             IF o = 0 THEN [len |-> Started, items |-> {}] ELSE Sighted(c, o, h[o - 1])]
<1>0. NumSeats \in Nat
  BY FrameFacts
<1>1. ShipsStep(c) \in Rounded(NumSeats, Packets)
  <2>1. ASSUME NEW x \in (1..NumSeats) \X Packets PROVE (Sighted(c, x[1], x[2])) \in Packets
    <3>1. x[1] \in Seats /\ x[2] \in Packets
      BY DEF Seats
    <3> QED
      BY <3>1, ShipIsAnItem, PackedTyped DEF Sighted
  <2> QED
    BY <2>1 DEF ShipsStep, Rounded
<1>2. PICK f : /\ f \in [0..NumSeats -> Packets] /\ f[0] = [len |-> Started, items |-> {}]
               /\ \A o \in 1..NumSeats : f[o] = ShipsStep(c)[<<o, f[o - 1]>>]
  <2>1. PICK f : Run(f, NumSeats, Packets, [len |-> Started, items |-> {}], ShipsStep(c))
    BY <1>0, <1>1, Iterated, EmptyPacket
  <2> QED
    BY <2>1 DEF Run
<1>3. ASSUME NEW o \in 1..NumSeats PROVE f[o] = Sighted(c, o, f[o - 1])
  <2>1. f[o - 1] \in Packets
    BY <1>0, <1>2
  <2>2. <<o, f[o - 1]>> \in (1..NumSeats) \X Packets
    BY <2>1
  <2>3. ShipsStep(c)[<<o, f[o - 1]>>] = Sighted(c, o, f[o - 1])
    BY <2>2, Zenon DEF ShipsStep
  <2> QED
    BY <1>2, <2>3
<1>4. Loop(f)
  <2> DEFINE g == [o \in 0..NumSeats |-> IF o = 0 THEN [len |-> Started, items |-> {}] ELSE Sighted(c, o, f[o - 1])]
  <2>1. ASSUME NEW o \in 0..NumSeats PROVE f[o] = g[o]
    <3>1. o = 0 \/ o \in 1..NumSeats
      BY <1>0
    <3> QED
      BY <1>2, <1>3, <3>1
  <2>2. f = [o \in 0..NumSeats |-> f[o]]
    BY <1>2
  <2> HIDE DEF g
  <2>3. g = [o \in 0..NumSeats |-> g[o]]
    BY DEF g
  <2>4. f = g
    BY <2>1, <2>2, <2>3
  <2> QED
    BY <2>4 DEF g
<1> DEFINE after == CHOOSE h : Loop(h)
<1>5. Loop(after)
  <2> HIDE DEF Loop
  <2> QED
    BY <1>4
<1>6. ShipsSent(c) = after[NumSeats]
  BY DEF ShipsSent
<1> HIDE DEF after
<1>7. \A o \in 0..NumSeats : after[o] = IF o = 0 THEN [len |-> Started, items |-> {}] ELSE Sighted(c, o, after[o - 1])
  BY <1>5
<1>8. \A o \in 0..NumSeats : after[o] = f[o]
  <2> DEFINE Same == {o \in 0..NumSeats : after[o] = f[o]}
  <2>1. 0 \in Same
    <3>1. 0 \in 0..NumSeats
      BY <1>0
    <3>2. after[0] = [len |-> Started, items |-> {}]
      BY <1>7, <3>1, Zenon
    <3>3. f[0] = [len |-> Started, items |-> {}]
      BY <1>2
    <3> QED
      BY <3>1, <3>2, <3>3, Zenon
  <2>2. ASSUME NEW o \in 1..NumSeats, o - 1 \in Same PROVE o \in Same
    <3>1. o \in 0..NumSeats /\ o # 0 /\ after[o - 1] = f[o - 1]
      BY <1>0, <2>2
    <3>2. after[o] = Sighted(c, o, after[o - 1])
      BY <1>7, <3>1
    <3> QED
      BY <1>3, <3>1, <3>2
  <2> HIDE DEF Same
  <2>3. \A o \in 0..NumSeats : o \in Same
    BY <1>0, <2>1, <2>2, UpTo
  <2> QED
    BY <2>3 DEF Same
<1>9. NumSeats \in 0..NumSeats
  BY <1>0
<1> QED
  BY <1>2, <1>3, <1>6, <1>8, <1>9

\* A packet with the ships up to o that are in view.
ShipsAreIn(c, o, w) ==
  /\ w \in Packets /\ w.len < bufferSize - WriteSpare /\ w.len <= Started + 9 * o
  /\ \A i \in w.items : \E p \in 1..o : i = Ship(p) /\ condition[p] = "alive" /\ InView(c, shipAt[p])
  /\ bufferSize >= Enough =>
       \A p \in 1..o : condition[p] = "alive" /\ InView(c, shipAt[p]) => Ship(p) \in w.items

LEMMA ShipsAreSent ==
  ASSUME SceneTypes, NEW c \in Seats
  PROVE  ShipsAreIn(c, NumSeats, ShipsSent(c))
<1>1. PICK f : /\ f \in [0..NumSeats -> Packets] /\ f[0] = [len |-> Started, items |-> {}]
               /\ ShipsSent(c) = f[NumSeats]
               /\ \A o \in 1..NumSeats :
                    f[o] = IF condition[o] = "alive" /\ InView(c, shipAt[o])
                           THEN Packed(f[o - 1], 9, Ship(o)) ELSE f[o - 1]
  BY ShipsSentIs DEF Sighted
<1> DEFINE Done == {o \in 0..NumSeats : ShipsAreIn(c, o, f[o])}
<1>2. 0 \in Done
  <2>1. 0 \in 0..NumSeats
    BY FrameFacts
  <2>2. f[0].len = Started /\ f[0].items = {} /\ f[0] \in Packets
    <3>1. f[0] = [len |-> Started, items |-> {}]
      BY <1>1
    <3> QED
      BY <3>1, EmptyPacket
  <2>3. ShipsAreIn(c, 0, f[0])
    BY <2>2, RoomIs, FrameFacts DEF ShipsAreIn
  <2> QED
    BY <2>1, <2>3
<1>3. ASSUME NEW o \in 1..NumSeats, o - 1 \in Done PROVE o \in Done
  <2> DEFINE w == f[o - 1]
             n == w.len
             come == condition[o] = "alive" /\ InView(c, shipAt[o])
  <2>1. /\ o \in 0..NumSeats /\ o - 1 \in 0..NumSeats /\ ShipsAreIn(c, o - 1, w) /\ o \in Seats
        /\ f[o] \in Packets
    BY <1>1, <1>3, FrameFacts DEF Seats
  <2>2. f[o] = IF come THEN Packed(w, 9, Ship(o)) ELSE w
    BY <1>1
  <2>3. w.items \subseteq f[o].items
    BY <2>2 DEF Packed
  <2>4. n \in Nat /\ n < bufferSize - WriteSpare /\ n <= Started + 9 * (o - 1)
    BY <2>1 DEF ShipsAreIn, Packets
  <2>5. f[o].len < bufferSize - WriteSpare /\ f[o].len <= Started + 9 * o
    <3>1. CASE f[o] = w
      BY <2>4, <3>1, RoomIs
    <3>2. CASE n + 9 < bufferSize - WriteSpare /\ f[o].len = n + 9
      BY <2>4, <3>2, RoomIs
    <3> QED
      BY <2>2, <3>1, <3>2 DEF Packed
  <2>6. ASSUME NEW i \in f[o].items
        PROVE  \E p \in 1..o : i = Ship(p) /\ condition[p] = "alive" /\ InView(c, shipAt[p])
    <3>1. i \in w.items \/ (i = Ship(o) /\ come)
      BY <2>2 DEF Packed
    <3>2. i \in w.items => \E p \in 1..o - 1 : i = Ship(p) /\ condition[p] = "alive" /\ InView(c, shipAt[p])
      BY <2>1 DEF ShipsAreIn
    <3>3. o \in 1..o /\ 1..o - 1 \subseteq 1..o
      BY FrameFacts
    <3> QED
      BY <3>1, <3>2, <3>3
  <2>7. ASSUME bufferSize >= Enough, NEW p \in 1..o, condition[p] = "alive", InView(c, shipAt[p])
        PROVE  Ship(p) \in f[o].items
    <3>1. CASE p = o
      <4>1. n + 9 < bufferSize - WriteSpare
        BY <2>1, <2>4, <2>7, RoomIs, FrameFacts DEF Enough
      <4> QED
        BY <2>2, <2>7, <3>1, <4>1 DEF Packed
    <3>2. CASE p # o
      <4>1. p \in 1..o - 1
        BY <3>2
      <4> QED
        BY <2>1, <2>3, <2>7, <4>1 DEF ShipsAreIn
    <3> QED
      BY <3>1, <3>2
  <2>8. ShipsAreIn(c, o, f[o])
    BY <2>1, <2>5, <2>6, <2>7 DEF ShipsAreIn
  <2> QED
    BY <2>1, <2>8
<1> HIDE DEF Done
<1>4. NumSeats \in Done
  <2>1. NumSeats \in Nat
    BY FrameFacts
  <2>2. \A o \in 1..NumSeats : o - 1 \in Done => o \in Done
    BY <1>3
  <2>3. \A o \in 0..NumSeats : o \in Done
    BY <1>2, <2>1, <2>2, UpTo
  <2> QED
    BY <2>1, <2>3
<1> QED
  BY <1>1, <1>4 DEF Done

\* A packet with the ships and the blips, of which some may find no room.
RadarIsIn(blips, w, u) ==
  /\ u \in Packets /\ u.len < bufferSize - WriteSpare
  /\ w.items \subseteq u.items
  /\ \A i \in u.items : i \in w.items \/ \E o \in blips : i = Blip(o)
  /\ bufferSize >= Enough => u.len <= Started + 12 * NumSeats + 2 /\ \A o \in blips : Blip(o) \in u.items

LEMMA RadarIsSent ==
  ASSUME SceneTypes, NEW c \in Seats, NEW w, ShipsAreIn(c, NumSeats, w),
         NEW blips \in SUBSET Seats, NEW onRadar \in SUBSET blips,
         Cardinality(onRadar) = BlipsThatFit(w, Cardinality(blips))
  PROVE  RadarIsIn(blips, w, RadarSent(w, Cardinality(blips), onRadar))
<1> DEFINE n == Cardinality(blips)
           m == Cardinality(onRadar)
           len == w.len
           avail == Avail(w)
           u == RadarSent(w, n, onRadar)
           v == [len |-> len + 2 + 3 * m, items |-> w.items \cup {Blip(o) : o \in onRadar}]
<1> SUFFICES RadarIsIn(blips, w, u)
  OBVIOUS
<1>1. IsFiniteSet(Seats) /\ Cardinality(Seats) = NumSeats
  BY FrameFacts, FS_Interval DEF Seats
<1>2. IsFiniteSet(blips) /\ n \in Nat /\ n <= NumSeats
  BY <1>1, FS_Subset, FS_CardinalityType
<1>3. m \in Nat /\ m <= n /\ (m = n => onRadar = blips)
  BY <1>2, FS_Subset, FS_CardinalityType
<1>4. w \in Packets /\ len \in Nat /\ len < bufferSize - WriteSpare /\ len <= Started + 9 * NumSeats
  BY DEF ShipsAreIn, Packets
<1>5. avail = bufferSize - len - WriteSpare - 3 /\ bufferSize \in Nat /\ WriteSpare \in Nat /\ NumSeats \in Nat
      /\ Started = 42
  BY RoomIs, FrameFacts DEF Avail
<1>6. m = IF 3 * n < avail THEN n ELSE IF avail > 3 THEN (avail - 2) \div 3 ELSE 0
  BY DEF BlipsThatFit
<1>7. u = IF n = 0 \/ (3 * n >= avail /\ avail <= 3) THEN w ELSE v
  BY DEF RadarSent
<1>8. n = 0 => blips = {}
  BY <1>2, FS_EmptySet
<1>9. \A o \in blips : Blip(o) \in ScreenItems
  BY ShipIsAnItem
<1>10. bufferSize >= Enough => 3 * n < avail
  BY <1>2, <1>4, <1>5, FrameFacts DEF Enough
<1> HIDE DEF n, m, len, avail, u, v
<1>11. CASE u = w
  <2>1. bufferSize >= Enough => n = 0
    <3>1. ASSUME bufferSize >= Enough, n # 0 PROVE FALSE
      <4>1. u = v
        BY <1>2, <1>5, <1>7, <1>10, <3>1, <1>4
      <4>2. v.len = len + 2 + 3 * m /\ w.len = len
        BY DEF v, len
      <4> QED
        BY <1>3, <1>4, <1>11, <4>1, <4>2
    <3> QED
      BY <3>1
  <2>2. bufferSize >= Enough => u.len <= Started + 12 * NumSeats + 2 /\ \A o \in blips : Blip(o) \in u.items
    BY <1>4, <1>5, <1>8, <1>11, <2>1 DEF len
  <2> QED
    BY <1>4, <1>11, <2>2 DEF RadarIsIn, len
<1>12. CASE u = v /\ n # 0 /\ ~(3 * n >= avail /\ avail <= 3)
  <2>1. u.len = len + 2 + 3 * m /\ u.items = w.items \cup {Blip(o) : o \in onRadar}
    BY <1>12 DEF v
  <2>2. u.len \in Nat /\ u.len < bufferSize - WriteSpare
    <3>1. CASE 3 * n < avail
      BY <1>2, <1>3, <1>4, <1>5, <1>6, <2>1, <3>1
    <3>2. CASE ~(3 * n < avail)
      <4>1. avail \in Int /\ avail > 3 /\ m = (avail - 2) \div 3
        BY <1>2, <1>4, <1>5, <1>6, <1>12, <3>2
      <4>2. 3 * m <= avail - 2
        BY <4>1
      <4> QED
        BY <1>3, <1>4, <1>5, <2>1, <4>1, <4>2
    <3> QED
      BY <3>1, <3>2
  <2>3. w.items \subseteq ScreenItems
    BY <1>4 DEF Packets
  <2>4. u \in Packets
    <3>1. len + 2 + 3 * m \in Nat
      BY <1>3, <1>4
    <3>2. w.items \cup {Blip(o) : o \in onRadar} \subseteq ScreenItems
      BY <1>9, <2>3
    <3> QED
      BY <1>12, <3>1, <3>2 DEF v, Packets
  <2>5. bufferSize >= Enough => u.len <= Started + 12 * NumSeats + 2 /\ \A o \in blips : Blip(o) \in u.items
    <3>1. ASSUME bufferSize >= Enough PROVE m = n /\ onRadar = blips
      BY <1>3, <1>6, <1>10, <3>1
    <3> QED
      BY <1>2, <1>3, <1>4, <1>5, <2>1, <3>1
  <2>6. \A i \in u.items : i \in w.items \/ \E o \in blips : i = Blip(o)
    BY <2>1
  <2> QED
    BY <2>1, <2>2, <2>4, <2>5, <2>6 DEF RadarIsIn
<1> QED
  BY <1>7, <1>11, <1>12
-----------------------------------------------------------------------------
LEMMA AreasAreNumbered == NumAreas \in Nat
<1>1. MaxAreas \in Nat
  BY FrameFacts, EnoughAreas DEF MaxAreas
<1> QED
  BY <1>1, SMT DEF NumAreas

\* The part of a drawer that is sent.
Part(c, bs, k, n) == {Placed(c, k, bs[k][j]) : j \in 1..n}

(* What of a drawer is sent finds room, and all of it if there is enough.  *)
LEMMA AreaIsSent ==
  ASSUME SceneTypes, NEW c \in Seats, NEW bs, Filed(c, Shots, bs), NEW k \in AreaNumbers,
         NEW w \in Packets, w.len < bufferSize - WriteSpare
  PROVE  LET u == AreaSent(c, bs, w, k) IN
         /\ u \in Packets /\ u.len < bufferSize - WriteSpare
         /\ w.items \subseteq u.items
         /\ \A i \in u.items : i \in w.items \/ \E s \in Shots : InView(c, shotAt[s]) /\ i = Spot(s)
         /\ w.len + 5 * Len(bs[k]) < bufferSize - WriteSpare =>
              /\ u.len <= w.len + 5 * Len(bs[k])
              /\ \A j \in 1..Len(bs[k]) : Spot(bs[k][j].of) \in u.items
<1> DEFINE u == AreaSent(c, bs, w, k)
           n == Len(bs[k])
           m == ShotsThatFit(w, n)
           len == w.len
           avail == Avail(w)
           v == [len |-> len + 3 + 2 * m, items |-> w.items \cup Part(c, bs, k, m)]
<1>1. n \in Nat /\ (bs[k] = <<>> <=> n = 0)
  <2>1. bs[k] \in Seq(Entries)
    BY DEF Filed, DrawerSets
  <2> QED
    BY <2>1
<1>2. len \in Nat /\ len < bufferSize - WriteSpare /\ w.items \subseteq ScreenItems
  BY DEF Packets
<1>3. avail = bufferSize - len - WriteSpare - 3 /\ bufferSize \in Nat /\ WriteSpare \in Nat
  BY RoomIs, FrameFacts DEF Avail
<1>4. m = IF 2 * n < avail THEN n ELSE IF avail > 2 THEN (avail - 1) \div 2 ELSE 0
  BY DEF ShotsThatFit
<1>5. u = IF n = 0 \/ m = 0 THEN w ELSE v
  BY <1>1 DEF AreaSent, Part
<1>6. \A j \in 1..n : /\ Placed(c, k, bs[k][j]) = Spot(bs[k][j].of) /\ bs[k][j].of \in Shots
                      /\ InView(c, shotAt[bs[k][j].of])
  BY DEF Filed
<1>7. v.len = len + 3 + 2 * m /\ v.items = w.items \cup Part(c, bs, k, m) /\ w.len = len
  OBVIOUS
<1> SUFFICES /\ u \in Packets /\ u.len < bufferSize - WriteSpare
             /\ w.items \subseteq u.items
             /\ \A i \in u.items : i \in w.items \/ \E s \in Shots : InView(c, shotAt[s]) /\ i = Spot(s)
             /\ len + 5 * n < bufferSize - WriteSpare =>
                  u.len <= len + 5 * n /\ \A j \in 1..n : Spot(bs[k][j].of) \in u.items
  OBVIOUS
<1> HIDE DEF u, n, m, len, avail
<1>8. m \in Nat /\ m <= n /\ len + 3 + 2 * m \in Nat /\ (m # 0 => len + 3 + 2 * m < bufferSize - WriteSpare)
  <2>1. CASE 2 * n < avail
    BY <1>1, <1>2, <1>3, <1>4, <2>1
  <2>2. CASE ~(2 * n < avail) /\ avail > 2
    <3>1. avail \in Int /\ m = (avail - 1) \div 2
      BY <1>2, <1>3, <1>4, <2>2
    <3>2. m \in Nat /\ 2 * m <= avail - 1
      BY <2>2, <3>1
    <3> QED
      BY <1>1, <1>2, <1>3, <2>2, <3>1, <3>2
  <2>3. CASE ~(2 * n < avail) /\ ~(avail > 2)
    BY <1>1, <1>2, <1>3, <1>4, <2>3
  <2> QED
    BY <2>1, <2>2, <2>3
<1>9. len + 5 * n < bufferSize - WriteSpare => n = 0 \/ (m = n /\ 2 * n < avail)
  BY <1>1, <1>2, <1>3, <1>4
<1>10. ASSUME NEW i \in Part(c, bs, k, m)
       PROVE  /\ i \in ScreenItems
              /\ \E s \in Shots : InView(c, shotAt[s]) /\ i = Spot(s)
  <2>1. PICK j \in 1..m : i = Placed(c, k, bs[k][j])
    BY DEF Part
  <2>2. j \in 1..n
    BY <1>1, <1>8
  <2>3. i = Spot(bs[k][j].of) /\ bs[k][j].of \in Shots /\ InView(c, shotAt[bs[k][j].of])
    BY <1>6, <2>1, <2>2
  <2> QED
    BY <2>3, SpotIsAnItem
<1>11. CASE n = 0 \/ m = 0
  <2>1. u = w
    BY <1>5, <1>11
  <2>2. len + 5 * n < bufferSize - WriteSpare => n = 0
    BY <1>9, <1>11
  <2> QED
    BY <1>1, <1>2, <2>1, <2>2 DEF len
<1>12. CASE n # 0 /\ m # 0
  <2>1. u = v
    BY <1>5, <1>12
  <2>2. u \in Packets
    <3>1. w.items \cup Part(c, bs, k, m) \subseteq ScreenItems
      BY <1>2, <1>10
    <3> QED
      BY <1>8, <2>1, <3>1 DEF Packets
  <2>3. u.len = len + 3 + 2 * m /\ u.items = w.items \cup Part(c, bs, k, m)
    BY <1>7, <2>1
  <2> HIDE DEF v
  <2>4. u.len < bufferSize - WriteSpare
    BY <1>8, <1>12, <2>3
  <2>5. ASSUME len + 5 * n < bufferSize - WriteSpare
        PROVE  u.len <= len + 5 * n /\ \A j \in 1..n : Spot(bs[k][j].of) \in u.items
    <3>1. m = n
      BY <1>9, <1>12, <2>5
    <3>2. u.len <= len + 5 * n
      BY <1>1, <1>2, <1>12, <2>3, <3>1
    <3>3. ASSUME NEW j \in 1..n PROVE Spot(bs[k][j].of) \in Part(c, bs, k, m)
      BY <1>6, <3>1 DEF Part
    <3> QED
      BY <2>3, <3>2, <3>3
  <2> QED
    BY <1>10, <2>2, <2>3, <2>4, <2>5
<1> QED
  BY <1>11, <1>12

Fitting == {w \in Packets : w.len < bufferSize - WriteSpare}

AreaStep(c, bs) == [x \in (1..NumAreas) \X Fitting |-> AreaSent(c, bs, x[2], x[1] - 1)]

(* fastshot_end keeps to the loop's equations.                             *)
LEMMA ShotsSentIs ==
  ASSUME SceneTypes, NEW c \in Seats, NEW bs, Filed(c, Shots, bs), NEW w \in Fitting
  PROVE  \E f : /\ f \in [0..NumAreas -> Fitting] /\ f[0] = w /\ ShotsSent(c, bs, w) = f[NumAreas]
                /\ \A k \in 1..NumAreas : f[k] = AreaSent(c, bs, f[k - 1], k - 1)
<1> DEFINE Loop(h) == h = [k \in 0..NumAreas |->
                             IF k = 0 THEN w ELSE AreaSent(c, bs, h[k - 1], k - 1)]
<1>0. NumAreas \in Nat
  BY AreasAreNumbered
<1>1. AreaStep(c, bs) \in Rounded(NumAreas, Fitting)
  <2>1. ASSUME NEW x \in (1..NumAreas) \X Fitting PROVE (AreaSent(c, bs, x[2], x[1] - 1)) \in Fitting
    <3>1. x[1] - 1 \in AreaNumbers /\ x[2] \in Packets /\ x[2].len < bufferSize - WriteSpare
      BY AreasAreNumbered DEF AreaNumbers, Fitting
    <3>2. /\ AreaSent(c, bs, x[2], x[1] - 1) \in Packets
          /\ AreaSent(c, bs, x[2], x[1] - 1).len < bufferSize - WriteSpare
      BY <3>1, AreaIsSent
    <3> QED
      BY <3>2 DEF Fitting
  <2> QED
    BY <2>1 DEF AreaStep, Rounded
<1>2. PICK f : /\ f \in [0..NumAreas -> Fitting] /\ f[0] = w
               /\ \A k \in 1..NumAreas : f[k] = AreaStep(c, bs)[<<k, f[k - 1]>>]
  <2>1. PICK f : Run(f, NumAreas, Fitting, w, AreaStep(c, bs))
    BY <1>0, <1>1, Iterated
  <2> QED
    BY <2>1 DEF Run
<1>3. ASSUME NEW k \in 1..NumAreas PROVE f[k] = AreaSent(c, bs, f[k - 1], k - 1)
  <2>1. f[k - 1] \in Fitting
    BY <1>0, <1>2
  <2>2. <<k, f[k - 1]>> \in (1..NumAreas) \X Fitting
    BY <2>1
  <2>3. AreaStep(c, bs)[<<k, f[k - 1]>>] = AreaSent(c, bs, f[k - 1], k - 1)
    BY <2>2, Zenon DEF AreaStep
  <2> QED
    BY <1>2, <2>3
<1>4. Loop(f)
  <2> DEFINE g == [k \in 0..NumAreas |-> IF k = 0 THEN w ELSE AreaSent(c, bs, f[k - 1], k - 1)]
  <2>1. ASSUME NEW k \in 0..NumAreas PROVE f[k] = g[k]
    <3>1. k = 0 \/ k \in 1..NumAreas
      BY <1>0
    <3> QED
      BY <1>2, <1>3, <3>1
  <2>2. f = [k \in 0..NumAreas |-> f[k]]
    BY <1>2
  <2> HIDE DEF g
  <2>3. g = [k \in 0..NumAreas |-> g[k]]
    BY DEF g
  <2>4. f = g
    BY <2>1, <2>2, <2>3
  <2> QED
    BY <2>4 DEF g
<1> DEFINE after == CHOOSE h : Loop(h)
<1>5. Loop(after)
  <2> HIDE DEF Loop
  <2> QED
    BY <1>4
<1>6. ShotsSent(c, bs, w) = after[NumAreas]
  BY DEF ShotsSent
<1> HIDE DEF after
<1>7. \A k \in 0..NumAreas : after[k] = IF k = 0 THEN w ELSE AreaSent(c, bs, after[k - 1], k - 1)
  BY <1>5
<1>8. \A k \in 0..NumAreas : after[k] = f[k]
  <2> DEFINE Same == {k \in 0..NumAreas : after[k] = f[k]}
  <2>1. 0 \in Same
    BY <1>0, <1>2, <1>7
  <2>2. ASSUME NEW k \in 1..NumAreas, k - 1 \in Same PROVE k \in Same
    <3>1. k \in 0..NumAreas /\ k # 0 /\ after[k - 1] = f[k - 1]
      BY <1>0, <2>2
    <3>2. after[k] = AreaSent(c, bs, after[k - 1], k - 1)
      BY <1>7, <3>1
    <3> QED
      BY <1>3, <3>1, <3>2
  <2> HIDE DEF Same
  <2>3. \A k \in 0..NumAreas : k \in Same
    BY <1>0, <2>1, <2>2, UpTo
  <2> QED
    BY <2>3 DEF Same
<1>9. NumAreas \in 0..NumAreas
  BY <1>0
<1> QED
  BY <1>2, <1>3, <1>6, <1>8, <1>9

\* The shots in one drawer, and in the first k.
FiledIn(bs, k) == {bs[k][i].of : i \in 1..Len(bs[k])}
FiledBelow(bs, k) ==
  {s \in Shots : \E l \in AreaNumbers : l < k /\ \E i \in 1..Len(bs[l]) : bs[l][i].of = s}

(* A drawer holds as many shots as its length says, and none of another    *)
(* drawer.                                                                 *)
LEMMA FiledCount ==
  ASSUME NEW c, NEW bs, Filed(c, Shots, bs), NEW k \in AreaNumbers
  PROVE  /\ FiledIn(bs, k) \subseteq Shots /\ Cardinality(FiledIn(bs, k)) = Len(bs[k])
         /\ FiledBelow(bs, k + 1) = FiledBelow(bs, k) \cup FiledIn(bs, k)
         /\ IsFiniteSet(FiledBelow(bs, k)) /\ Cardinality(FiledBelow(bs, k)) \in Nat
         /\ Cardinality(FiledBelow(bs, k + 1)) = Cardinality(FiledBelow(bs, k)) + Len(bs[k])
         /\ Cardinality(FiledBelow(bs, k + 1)) <= NumShots
<1> DEFINE n == Len(bs[k])
           In == FiledIn(bs, k)
           Below == FiledBelow(bs, k)
           Upto == FiledBelow(bs, k + 1)
           name == [i \in 1..n |-> bs[k][i].of]
<1>1. n \in Nat /\ k \in Int
  <2>1. bs[k] \in Seq(Entries)
    BY DEF Filed, DrawerSets
  <2> QED
    BY <2>1, AreasAreNumbered DEF AreaNumbers
<1>2. \A i \in 1..n : bs[k][i].of \in Shots
  BY DEF Filed
<1>3. IsFiniteSet(Shots) /\ Cardinality(Shots) = NumShots
  BY FrameFacts, FS_Interval DEF Shots
<1>4. In \subseteq Shots
  BY <1>2 DEF FiledIn
<1>5. Cardinality(In) = n
  <2>1. name \in Bijection(1..n, In)
    <3>1. name \in [1..n -> In] /\ \A s \in In : \E i \in 1..n : name[i] = s
      BY DEF FiledIn
    <3>2. \A i, j \in 1..n : name[i] = name[j] => i = j
      BY DEF Filed
    <3> HIDE DEF name, n, In
    <3> QED
      BY <3>1, <3>2 DEF Bijection, Injection, IsInjective, Surjection
  <2>2. IsFiniteSet(1..n) /\ Cardinality(1..n) = n
    BY <1>1, FS_Interval
  <2>3. ExistsBijection(1..n, In)
    BY <2>1 DEF ExistsBijection
  <2> QED
    BY <2>2, <2>3, FS_Bijection
<1>6. Upto = Below \cup In
  <2>1. \A l \in AreaNumbers : l < k + 1 <=> l < k \/ l = k
    BY <1>1, AreasAreNumbered DEF AreaNumbers
  <2> QED
    BY <1>2, <2>1 DEF FiledIn, FiledBelow
<1>7. Below \cap In = {}
  <2> SUFFICES ASSUME NEW s \in Below, s \in In PROVE FALSE
    OBVIOUS
  <2>1. PICK l \in AreaNumbers : l < k /\ \E i \in 1..Len(bs[l]) : bs[l][i].of = s
    BY DEF FiledBelow
  <2>2. PICK i \in 1..Len(bs[l]) : bs[l][i].of = s
    BY <2>1
  <2>3. PICK j \in 1..Len(bs[k]) : bs[k][j].of = s
    BY DEF FiledIn
  <2>4. l = k
    BY <2>2, <2>3 DEF Filed
  <2> QED
    BY <1>1, <2>1, <2>4
<1>8. Below \subseteq Shots /\ Upto \subseteq Shots
  BY DEF FiledBelow
<1> HIDE DEF Below, Upto, In, n
<1>9. IsFiniteSet(Below) /\ IsFiniteSet(In) /\ IsFiniteSet(Upto)
  BY <1>3, <1>4, <1>8, FS_Subset
<1>10. Cardinality(Below) \in Nat /\ Cardinality(Upto) <= NumShots
  BY <1>3, <1>8, <1>9, FS_Subset, FS_CardinalityType
<1>11. Cardinality(Upto) = Cardinality(Below) + Cardinality(In) - Cardinality(Below \cap In)
  BY <1>6, <1>9, FS_Union
<1>12. Cardinality(Below \cap In) = 0
  BY <1>7, FS_EmptySet
<1>13. Cardinality(Upto) = Cardinality(Below) + n
  BY <1>1, <1>5, <1>10, <1>11, <1>12
<1> QED
  BY <1>4, <1>5, <1>6, <1>9, <1>10, <1>13 DEF Below, Upto, In, n

\* A packet with what found room of the first k drawers.
ShotsAreIn(c, bs, w, k, u) ==
  /\ u \in Packets /\ u.len < bufferSize - WriteSpare
  /\ w.items \subseteq u.items
  /\ \A i \in u.items : i \in w.items \/ \E s \in Shots : InView(c, shotAt[s]) /\ i = Spot(s)
  /\ bufferSize >= Enough =>
       /\ u.len <= w.len + 5 * Cardinality(FiledBelow(bs, k))
       /\ \A s \in FiledBelow(bs, k) : Spot(s) \in u.items

LEMMA ShotsAreSent ==
  ASSUME SceneTypes, NEW c \in Seats, NEW bs, Filed(c, Shots, bs),
         NEW w \in Packets, w.len < bufferSize - WriteSpare,
         bufferSize >= Enough => w.len <= Started + 12 * NumSeats + 2
  PROVE  ShotsAreIn(c, bs, w, NumAreas, ShotsSent(c, bs, w))
<1>1. PICK f : /\ f \in [0..NumAreas -> Fitting] /\ f[0] = w /\ ShotsSent(c, bs, w) = f[NumAreas]
               /\ \A k \in 1..NumAreas : f[k] = AreaSent(c, bs, f[k - 1], k - 1)
  <2>1. w \in Fitting
    BY DEF Fitting
  <2> QED
    BY <2>1, ShotsSentIs
<1> DEFINE Done == {k \in 0..NumAreas : ShotsAreIn(c, bs, w, k, f[k])}
<1>2. 0 \in Done
  <2>1. 0 \in 0..NumAreas
    BY AreasAreNumbered
  <2>2. FiledBelow(bs, 0) = {}
    BY AreasAreNumbered DEF FiledBelow, AreaNumbers
  <2>3. Cardinality(FiledBelow(bs, 0)) = 0
    BY <2>2, FS_EmptySet
  <2>4. w.len <= w.len + 5 * Cardinality(FiledBelow(bs, 0))
    BY <2>3 DEF Packets
  <2>5. ShotsAreIn(c, bs, w, 0, w)
    BY <2>2, <2>4 DEF ShotsAreIn
  <2> QED
    BY <1>1, <2>1, <2>5
<1>3. ASSUME NEW k \in 1..NumAreas, k - 1 \in Done PROVE k \in Done
  <2> DEFINE l == k - 1
             v == f[l]
             u == f[k]
             n == Len(bs[l])
             before == Cardinality(FiledBelow(bs, l))
             past == Cardinality(FiledBelow(bs, k))
  <2>1. k \in 0..NumAreas /\ l \in AreaNumbers /\ ShotsAreIn(c, bs, w, l, v) /\ l + 1 = k
    BY <1>3, AreasAreNumbered DEF AreaNumbers
  <2>2. u = AreaSent(c, bs, v, l)
    BY <1>1
  <2>3. v \in Packets /\ v.len < bufferSize - WriteSpare
    BY <2>1 DEF ShotsAreIn
  <2>4. /\ FiledIn(bs, l) \subseteq Shots
        /\ FiledBelow(bs, l + 1) = FiledBelow(bs, l) \cup FiledIn(bs, l)
        /\ before \in Nat /\ Cardinality(FiledBelow(bs, l + 1)) = before + n
        /\ Cardinality(FiledBelow(bs, l + 1)) <= NumShots
    BY <2>1, FiledCount
  <2> HIDE DEF l
  <2>5. /\ u \in Packets /\ u.len < bufferSize - WriteSpare
        /\ v.items \subseteq u.items
        /\ \A i \in u.items : i \in v.items \/ \E s \in Shots : InView(c, shotAt[s]) /\ i = Spot(s)
        /\ v.len + 5 * n < bufferSize - WriteSpare =>
             u.len <= v.len + 5 * n /\ \A j \in 1..n : Spot(bs[l][j].of) \in u.items
    BY <2>1, <2>2, <2>3, AreaIsSent
  <2>6. past = before + n /\ past <= NumShots /\ before \in Nat /\ n \in Nat
        /\ FiledBelow(bs, k) = FiledBelow(bs, l) \cup FiledIn(bs, l)
    <3>1. bs[l] \in Seq(Entries)
      BY <2>1 DEF Filed, DrawerSets
    <3> QED
      BY <2>1, <2>4, <3>1
  <2>7. /\ w.items \subseteq v.items
        /\ \A i \in v.items : i \in w.items \/ \E s \in Shots : InView(c, shotAt[s]) /\ i = Spot(s)
        /\ bufferSize >= Enough => v.len <= w.len + 5 * before /\ \A s \in FiledBelow(bs, l) : Spot(s) \in v.items
    BY <2>1 DEF ShotsAreIn
  <2>8. v.len \in Nat /\ u.len \in Nat /\ w.len \in Nat
    BY <2>3, <2>5 DEF Packets
  <2> HIDE DEF u, v, n, before, past
  <2>9. ASSUME bufferSize >= Enough
        PROVE  u.len <= w.len + 5 * past /\ \A s \in FiledBelow(bs, k) : Spot(s) \in u.items
    <3>1. v.len + 5 * n < bufferSize - WriteSpare
      BY <2>6, <2>7, <2>8, <2>9, RoomIs, FrameFacts DEF Enough
    <3>2. u.len <= w.len + 5 * past
      BY <2>5, <2>6, <2>7, <2>8, <2>9, <3>1
    <3>3. ASSUME NEW s \in FiledIn(bs, l) PROVE Spot(s) \in u.items
      <4>1. PICK j \in 1..n : s = bs[l][j].of
        BY DEF FiledIn, n
      <4> QED
        BY <2>5, <3>1, <4>1
    <3> QED
      BY <2>5, <2>6, <2>7, <2>9, <3>2, <3>3
  <2>10. ShotsAreIn(c, bs, w, k, u)
    BY <2>5, <2>7, <2>9 DEF ShotsAreIn, past
  <2> QED
    BY <2>1, <2>10 DEF u
<1> HIDE DEF Done
<1>4. NumAreas \in Done
  <2>1. \A k \in 1..NumAreas : k - 1 \in Done => k \in Done
    BY <1>3
  <2>2. \A k \in 0..NumAreas : k \in Done
    BY <1>2, <2>1, AreasAreNumbered, UpTo
  <2> QED
    BY <2>2, AreasAreNumbered
<1> QED
  BY <1>1, <1>4 DEF Done
-----------------------------------------------------------------------------
(* What is in view is in a packet that was filled in this order, and that  *)
(* packet has room for the end of the frame.                               *)
LEMMA FrameIsMade ==
  ASSUME SceneTypes, drawers = Cleared, NEW c \in Seats, NEW order \in Orders, NEW blink,
         NEW onRadar \in SUBSET Blips(c, blink),
         Cardinality(onRadar) = BlipsThatFit(ShipsSent(c), Cardinality(Blips(c, blink)))
  PROVE  LET f == EndOfFrame(ShotsSent(c, Collected(c, order),
                                       RadarSent(ShipsSent(c), Cardinality(Blips(c, blink)), onRadar))) IN
         f.got = "frame" /\ FrameIsTrue(c, f)
<1> DEFINE bs == Collected(c, order)
           w == ShipsSent(c)
           blips == Blips(c, blink)
           v == RadarSent(w, Cardinality(blips), onRadar)
           u == ShotsSent(c, bs, v)
           f == EndOfFrame(u)
           items == u.items
<1> SUFFICES f.got = "frame" /\ FrameIsTrue(c, f)
  OBVIOUS
<1>1. Filed(c, Shots, bs)
  BY CollectedKeeps
<1>2. ShipsAreIn(c, NumSeats, w)
  BY ShipsAreSent
<1>3. blips \subseteq Seats
  <2>1. SeenFrom(c) \in Seats /\ Radars \in [Seats -> SUBSET Seats]
    BY FrameAssumption DEF SceneTypes, SeenFrom
  <2> QED
    BY <2>1 DEF Blips
<1> HIDE DEF bs, w, blips
<1>4. RadarIsIn(blips, w, v)
  BY <1>2, <1>3, RadarIsSent DEF w, blips
<1>5. ShotsAreIn(c, bs, v, NumAreas, u)
  BY <1>1, <1>4, ShotsAreSent DEF RadarIsIn
<1> HIDE DEF v, u
<1>6. f = Whole(items) /\ f.got = "frame" /\ f.items = items /\ f # Broken
  <2>1. u.len + 5 < bufferSize
    BY <1>5, RoomIs, FrameFacts DEF ShotsAreIn, Packets
  <2> QED
    BY <2>1 DEF EndOfFrame, Whole, Broken
<1> HIDE DEF f, items
<1>7. ASSUME NEW o \in Seats, InView(c, shipAt[o]) PROVE Seen(c, shipAt[o])
  <2>1. shipAt[o] \in Pixels
    BY DEF SceneTypes
  <2> QED
    BY <1>7, <2>1, SightIs
<1>8. ASSUME NEW s \in Shots, InView(c, shotAt[s]) PROVE Seen(c, shotAt[s])
  <2>1. shotAt[s] \in Pixels
    BY DEF SceneTypes
  <2> QED
    BY <1>8, <2>1, SightIs
<1>9. TruthIsShown(c, items)
  <2> SUFFICES ASSUME NEW i \in items
               PROVE  \/ /\ i.what = "ship" /\ i.of \in Seats /\ condition[i.of] = "alive"
                         /\ i.at = shipAt[i.of] /\ Seen(c, i.at)
                      \/ /\ i.what = "shot" /\ i.of \in Shots
                         /\ i.at = shotAt[i.of] /\ Seen(c, i.at)
                      \/ /\ i.what = "radar" /\ i.of \in Radars[SeenFrom(c)] \ {c} /\ condition[i.of] = "alive"
                         /\ i.at = shipAt[i.of]
    BY DEF TruthIsShown
  <2>1. \/ \E p \in 1..NumSeats : i = Ship(p) /\ condition[p] = "alive" /\ InView(c, shipAt[p])
        \/ \E o \in blips : i = Blip(o)
        \/ \E s \in Shots : InView(c, shotAt[s]) /\ i = Spot(s)
    BY <1>2, <1>4, <1>5 DEF ShipsAreIn, RadarIsIn, ShotsAreIn, items
  <2>2. ASSUME NEW p \in 1..NumSeats, i = Ship(p), condition[p] = "alive", InView(c, shipAt[p])
        PROVE  /\ i.what = "ship" /\ i.of \in Seats /\ condition[i.of] = "alive"
               /\ i.at = shipAt[i.of] /\ Seen(c, i.at)
    <3>1. i.what = "ship" /\ i.of = p /\ i.at = shipAt[p] /\ p \in Seats
      BY <2>2 DEF Ship, Seats
    <3> QED
      BY <1>7, <2>2, <3>1
  <2>3. ASSUME NEW o \in blips, i = Blip(o)
        PROVE  /\ i.what = "radar" /\ i.of \in Radars[SeenFrom(c)] \ {c} /\ condition[i.of] = "alive"
               /\ i.at = shipAt[i.of]
    <3>1. i.what = "radar" /\ i.of = o /\ i.at = shipAt[o]
      BY <2>3 DEF Blip
    <3> QED
      BY <2>3, <3>1 DEF blips, Blips
  <2>4. ASSUME NEW s \in Shots, InView(c, shotAt[s]), i = Spot(s)
        PROVE  i.what = "shot" /\ i.of \in Shots /\ i.at = shotAt[i.of] /\ Seen(c, i.at)
    <3>1. i.what = "shot" /\ i.of = s /\ i.at = shotAt[s]
      BY <2>4 DEF Spot
    <3> QED
      BY <1>8, <2>4, <3>1
  <2> QED
    BY <2>1, <2>2, <2>3, <2>4, Zenon
<1>10. ASSUME bufferSize >= Enough, NEW o \in Seats, condition[o] = "alive", InView(c, shipAt[o])
       PROVE  Shows(items, "ship", o)
  <2>1. Ship(o) \in items
    BY <1>2, <1>4, <1>5, <1>10 DEF ShipsAreIn, RadarIsIn, ShotsAreIn, items, Seats
  <2>2. Ship(o).what = "ship" /\ Ship(o).of = o
    BY DEF Ship
  <2> QED
    BY <2>1, <2>2 DEF Shows
<1>11. ASSUME bufferSize >= Enough, NEW o \in blips PROVE Shows(items, "radar", o)
  <2>1. Blip(o) \in items
    BY <1>4, <1>5, <1>11 DEF RadarIsIn, ShotsAreIn, items
  <2>2. Blip(o).what = "radar" /\ Blip(o).of = o
    BY DEF Blip
  <2> QED
    BY <2>1, <2>2 DEF Shows
<1>12. ASSUME bufferSize >= Enough, NEW k \in AreaNumbers, NEW i \in 1..Len(bs[k])
       PROVE  bs[k][i].of \in Shots /\ Shows(items, "shot", bs[k][i].of)
  <2> DEFINE s == bs[k][i].of
  <2>1. s \in Shots
    BY <1>1 DEF Filed
  <2>2. s \in FiledBelow(bs, NumAreas)
    <3>1. k < NumAreas
      BY AreasAreNumbered DEF AreaNumbers
    <3> QED
      BY <2>1, <3>1 DEF FiledBelow
  <2> HIDE DEF s
  <2>3. Spot(s) \in items
    BY <1>5, <1>12, <2>2 DEF ShotsAreIn, items
  <2>4. Spot(s).what = "shot" /\ Spot(s).of = s
    BY DEF Spot
  <2>5. Shows(items, "shot", s)
    BY <2>3, <2>4 DEF Shows
  <2> QED
    BY <2>1, <2>5 DEF s
<1>13. ASSUME bufferSize >= Enough, NEW s \in Shots, InView(c, shotAt[s])
       PROVE  Shows(items, "shot", s) \/ Cardinality({t \in Shots : Shows(items, "shot", t)}) >= PerArea
  <2> DEFINE there == {t \in Shots : Shows(items, "shot", t)}
  <2>1. PICK k \in AreaNumbers : Len(bs[k]) >= PerArea \/ \E i \in 1..Len(bs[k]) : bs[k][i].of = s
    BY <1>1, <1>13 DEF Filed
  <2>2. CASE \E i \in 1..Len(bs[k]) : bs[k][i].of = s
    BY <1>12, <1>13, <2>2
  <2>3. CASE Len(bs[k]) >= PerArea
    <3>1. FiledIn(bs, k) \subseteq there
      BY <1>12, <1>13 DEF FiledIn
    <3>2. Cardinality(FiledIn(bs, k)) = Len(bs[k])
      BY <1>1, FiledCount
    <3>3. IsFiniteSet(there)
      <4>1. IsFiniteSet(Shots)
        BY FrameFacts, FS_Interval DEF Shots
      <4> QED
        BY <4>1, FS_Subset
    <3> HIDE DEF there
    <3>4. Cardinality(FiledIn(bs, k)) <= Cardinality(there) /\ Cardinality(there) \in Nat
      BY <3>1, <3>3, FS_Subset, FS_CardinalityType
    <3>5. Len(bs[k]) \in Nat
      <4>1. bs[k] \in Seq(Entries)
        BY <1>1 DEF Filed, DrawerSets
      <4> QED
        BY <4>1
    <3>6. Cardinality(there) >= PerArea
      BY <2>3, <3>2, <3>4, <3>5, FrameFacts
    <3> QED
      BY <3>6 DEF there
  <2> QED
    BY <2>1, <2>2, <2>3
<1>14. ASSUME bufferSize >= Enough, ViewFits(c) PROVE AllIsShown(c, items)
  <2>1. ASSUME NEW o \in Seats, condition[o] = "alive", Seen(c, shipAt[o]) PROVE Shows(items, "ship", o)
    <3>1. shipAt[o] \in Pixels
      BY DEF SceneTypes
    <3> QED
      BY <1>10, <1>14, <2>1, <3>1, SightIs
  <2>2. ASSUME NEW s \in Shots, Seen(c, shotAt[s])
        PROVE  Shows(items, "shot", s) \/ Cardinality({t \in Shots : Shows(items, "shot", t)}) >= PerArea
    <3>1. shotAt[s] \in Pixels
      BY DEF SceneTypes
    <3> QED
      BY <1>13, <1>14, <2>2, <3>1, SightIs
  <2> QED
    BY <2>1, <2>2 DEF AllIsShown
<1>15. ASSUME bufferSize >= Enough PROVE RadarIsShown(c, items)
  <2> SUFFICES ASSUME NEW o \in Radars[SeenFrom(c)] \ {c, lockedOn[SeenFrom(c)]},
                      condition[o] = "alive", OnRadar(shipAt[o])
               PROVE  Shows(items, "radar", o)
    BY DEF RadarIsShown
  <2>1. o \in blips
    BY DEF blips, Blips
  <2> QED
    BY <1>11, <1>15, <2>1
<1> QED
  BY <1>6, <1>9, <1>14, <1>15 DEF FrameIsTrue
-----------------------------------------------------------------------------
Factors == Nat \ {0}

LEMMA TwoIsAFactor == 2 \in Factors
BY DEF Factors

DivisorStep(rate) == [x \in (1..FrameFps) \X Factors |-> Widened(rate, x[2])]

(* The search for a divisor keeps to the loop's equations.                 *)
LEMMA DivisorIs ==
  ASSUME NEW rate \in Factors, rate < FrameFps
  PROVE  \E f : /\ f \in [0..FrameFps -> Factors] /\ f[0] = 2 /\ Divisor(rate) = f[FrameFps]
                /\ \A n \in 1..FrameFps : f[n] = Widened(rate, f[n - 1])
<1> DEFINE Loop(h) == h = [n \in 0..FrameFps |->
                             IF n = 0 THEN 2 ELSE Widened(rate, h[n - 1])]
<1>0. FrameFps \in Nat
  BY FrameFacts
<1>1. DivisorStep(rate) \in Rounded(FrameFps, Factors)
  <2>1. ASSUME NEW x \in (1..FrameFps) \X Factors PROVE (Widened(rate, x[2])) \in Factors
    BY DEF Factors, Widened
  <2> QED
    BY <2>1 DEF DivisorStep, Rounded
<1>2. PICK f : /\ f \in [0..FrameFps -> Factors] /\ f[0] = 2
               /\ \A n \in 1..FrameFps : f[n] = DivisorStep(rate)[<<n, f[n - 1]>>]
  <2>1. PICK f : Run(f, FrameFps, Factors, 2, DivisorStep(rate))
    BY <1>0, <1>1, Iterated, TwoIsAFactor
  <2> QED
    BY <2>1 DEF Run
<1>3. ASSUME NEW n \in 1..FrameFps PROVE f[n] = Widened(rate, f[n - 1])
  <2>1. f[n - 1] \in Factors
    BY <1>0, <1>2
  <2>2. <<n, f[n - 1]>> \in (1..FrameFps) \X Factors
    BY <2>1
  <2>3. DivisorStep(rate)[<<n, f[n - 1]>>] = Widened(rate, f[n - 1])
    BY <2>2, Zenon DEF DivisorStep
  <2> QED
    BY <1>2, <2>3
<1>4. Loop(f)
  <2> DEFINE g == [n \in 0..FrameFps |-> IF n = 0 THEN 2 ELSE Widened(rate, f[n - 1])]
  <2>1. ASSUME NEW n \in 0..FrameFps PROVE f[n] = g[n]
    <3>1. n = 0 \/ n \in 1..FrameFps
      BY <1>0
    <3> QED
      BY <1>2, <1>3, <3>1
  <2>2. f = [n \in 0..FrameFps |-> f[n]]
    BY <1>2
  <2> HIDE DEF g
  <2>3. g = [n \in 0..FrameFps |-> g[n]]
    BY DEF g
  <2>4. f = g
    BY <2>1, <2>2, <2>3
  <2> QED
    BY <2>4 DEF g
<1> DEFINE after == CHOOSE h : Loop(h)
<1>5. Loop(after)
  <2> HIDE DEF Loop
  <2> QED
    BY <1>4
<1>6. Divisor(rate) = after[FrameFps]
  BY DEF Divisor
<1> HIDE DEF after
<1>7. \A n \in 0..FrameFps : after[n] = IF n = 0 THEN 2 ELSE Widened(rate, after[n - 1])
  BY <1>5
<1>8. \A n \in 0..FrameFps : after[n] = f[n]
  <2> DEFINE Same == {n \in 0..FrameFps : after[n] = f[n]}
  <2>1. 0 \in Same
    BY <1>0, <1>2, <1>7
  <2>2. ASSUME NEW n \in 1..FrameFps, n - 1 \in Same PROVE n \in Same
    <3>1. n \in 0..FrameFps /\ n # 0 /\ after[n - 1] = f[n - 1]
      BY <1>0, <2>2
    <3>2. after[n] = Widened(rate, after[n - 1])
      BY <1>7, <3>1
    <3> QED
      BY <1>3, <3>1, <3>2
  <2> HIDE DEF Same
  <2>3. \A n \in 0..FrameFps : n \in Same
    BY <1>0, <2>1, <2>2, UpTo
  <2> QED
    BY <2>3 DEF Same
<1>9. FrameFps \in 0..FrameFps
  BY <1>0
<1> QED
  BY <1>2, <1>3, <1>6, <1>8, <1>9

\* A divisor is the smallest power of two that is large enough.
Serves(rate, m) ==
  /\ rate * m >= FrameFps
  /\ m = 2 \/ \E h \in Factors : m = 2 * h /\ rate * h < FrameFps

LEMMA DivisorServes ==
  ASSUME NEW rate \in Factors
  PROVE  /\ Divisor(rate) \in Factors
         /\ rate < FrameFps => Serves(rate, Divisor(rate))
         /\ ~(rate < FrameFps) => Divisor(rate) = 1
<1>1. CASE ~(rate < FrameFps)
  BY <1>1 DEF Divisor, Factors
<1>2. CASE rate < FrameFps
  <2>1. PICK f : /\ f \in [0..FrameFps -> Factors] /\ f[0] = 2 /\ Divisor(rate) = f[FrameFps]
                 /\ \A n \in 1..FrameFps : f[n] = IF FrameFps > rate * f[n - 1] THEN 2 * f[n - 1] ELSE f[n - 1]
    BY <1>2, DivisorIs DEF Widened
  <2> DEFINE Fine(n) == /\ f[n] >= n + 2 \/ rate * f[n] >= FrameFps
                        /\ f[n] = 2 \/ \E h \in Factors : f[n] = 2 * h /\ rate * h < FrameFps
             Done == {n \in 0..FrameFps : Fine(n)}
  <2>2. 0 \in Done
    BY <2>1, FrameFacts
  <2>3. ASSUME NEW n \in 1..FrameFps, n - 1 \in Done PROVE n \in Done
    <3> DEFINE g == f[n - 1]
               h == f[n]
    <3>1. g \in Factors /\ h \in Factors /\ n \in 0..FrameFps /\ n \in Nat
      BY <2>1, FrameFacts
    <3>2. h = IF FrameFps > rate * g THEN 2 * g ELSE g
      BY <2>1
    <3>3. /\ g >= n + 1 \/ rate * g >= FrameFps
          /\ g = 2 \/ \E e \in Factors : g = 2 * e /\ rate * e < FrameFps
      BY <2>3
    <3>4. rate * g \in Nat
      BY <3>1, SMT DEF Factors
    <3> HIDE DEF g, h
    <3>5. CASE FrameFps > rate * g
      <4>1. h = 2 * g /\ g >= n + 1
        BY <3>2, <3>3, <3>4, <3>5, FrameFacts
      <4>2. h >= n + 2
        BY <3>1, <4>1 DEF Factors
      <4>3. \E e \in Factors : h = 2 * e /\ rate * e < FrameFps
        BY <3>1, <3>4, <3>5, <4>1, FrameFacts
      <4> QED
        BY <3>1, <4>2, <4>3 DEF h
    <3>6. CASE ~(FrameFps > rate * g)
      <4>1. h = g /\ rate * h >= FrameFps
        BY <3>2, <3>4, <3>6, FrameFacts
      <4> QED
        BY <3>1, <3>3, <4>1 DEF h
    <3> QED
      BY <3>5, <3>6
  <2> HIDE DEF Done
  <2>4. FrameFps \in Done
    <3>1. FrameFps \in Nat
      BY FrameFacts
    <3>2. \A n \in 1..FrameFps : n - 1 \in Done => n \in Done
      BY <2>3
    <3>3. \A n \in 0..FrameFps : n \in Done
      BY <2>2, <3>1, <3>2, UpTo
    <3> QED
      BY <3>1, <3>3
  <2> DEFINE m == f[FrameFps]
  <2>5. m \in Factors /\ Fine(FrameFps)
    BY <2>1, <2>4, FrameFacts DEF Done
  <2>6. m >= FrameFps + 2 \/ rate * m >= FrameFps
    BY <2>5
  <2>7. m = 2 \/ \E h \in Factors : m = 2 * h /\ rate * h < FrameFps
    BY <2>5
  <2> HIDE DEF m, Fine
  <2>8. rate * m >= m /\ rate * m \in Nat
    <3>1. rate - 1 \in Nat /\ m \in Nat
      BY <2>5 DEF Factors
    <3>2. (rate - 1) * m >= 0 /\ (rate - 1) * m = rate * m - m
      BY <3>1, SMT DEF Factors
    <3>3. rate * m \in Nat
      BY <3>1, SMT DEF Factors
    <3> QED
      BY <3>1, <3>2, <3>3
  <2>9. rate * m >= FrameFps
    BY <2>5, <2>6, <2>8, FrameFacts DEF Factors
  <2> QED
    BY <1>2, <2>1, <2>5, <2>7, <2>9 DEF Serves, m
<1> QED
  BY <1>1, <1>2

\* So many frames of n are for a client with this divisor.
Shared(n, got, m) == (got - 1) * m < n /\ n <= got * m

(* Every frame is for the client, or not yet.                              *)
LEMMA SharedGoesOn ==
  ASSUME NEW n \in Nat, NEW got \in Nat, NEW m \in Factors, Shared(n, got, m)
  PROVE  IF n % m = 0 THEN Shared(n + 1, got + 1, m) ELSE Shared(n + 1, got, m)
<1> DEFINE q == n \div m
           r == n % m
<1>0. n \in Int /\ m \in Nat \ {0}
  BY DEF Factors
<1>1. n = m * q + r /\ r \in 0..m - 1 /\ q \in Int /\ m \in Nat \ {0}
  BY <1>0, Division
<1> HIDE DEF q, r
<1>2. (got - 1) * m = got * m - m /\ got * m \in Nat /\ (got + 1) * m = got * m + m
  BY <1>1, SMT
<1>3. n % m = r
  BY DEF r
<1>4. CASE r = 0
  <2>1. m * q \in Int /\ n = m * q
    BY <1>1, <1>4
  <2>2. q > got - 1
    <3>1. q <= got - 1 => m * q <= (got - 1) * m
      BY <1>1, SMT
    <3> QED
      BY <1>1, <1>2, <2>1, <3>1 DEF Shared
  <2>3. q <= got
    <3>1. q >= got + 1 => m * q >= (got + 1) * m
      BY <1>1, SMT
    <3> QED
      BY <1>1, <1>2, <2>1, <3>1 DEF Shared
  <2>4. q = got
    BY <1>1, <2>2, <2>3
  <2>5. n = got * m
    BY <1>1, <2>1, <2>4, SMT
  <2>6. (got + 1 - 1) * m = got * m
    BY <1>1, SMT
  <2>7. Shared(n + 1, got + 1, m)
    BY <1>1, <1>2, <2>5, <2>6 DEF Shared
  <2> QED
    BY <1>3, <1>4, <2>7
<1>5. CASE r # 0
  <2>1. n # got * m
    <3>1. ASSUME n = got * m PROVE FALSE
      <4>1. n = m * got + 0 /\ 0 \in 0..m - 1 /\ got \in Int /\ n \in Int
        BY <1>1, <3>1, SMT
      <4>2. n % m = 0
        BY <1>1, <4>1, Remainder
      <4> QED
        BY <1>3, <1>5, <4>2
    <3> QED
      BY <3>1
  <2>2. Shared(n + 1, got, m)
    BY <1>1, <1>2, <2>1 DEF Shared
  <2> QED
    BY <1>3, <1>5, <2>2
<1> QED
  BY <1>4, <1>5

(* With such a share of the frames of a cycle a client gets what it wants. *)
LEMMA ShareServes ==
  ASSUME NEW rate \in Factors, NEW got \in Nat, Shared(FrameDivisor, got, Divisor(rate))
  PROVE  LET wish == IF rate < FrameFps THEN rate ELSE FrameFps IN
         /\ 2 * got * FrameFps >= FrameDivisor * wish
         /\ (got - 1) * FrameFps < FrameDivisor * wish
<1> DEFINE m == Divisor(rate)
           wish == IF rate < FrameFps THEN rate ELSE FrameFps
           d == FrameDivisor
           ff == FrameFps
<1>1. /\ m \in Factors /\ d \in Factors /\ ff \in Factors /\ wish \in Factors
      /\ (got - 1) * m < d /\ d <= got * m
  BY DivisorServes, FrameFacts DEF Shared, Factors
<1>2. \/ m = 1 /\ wish = ff
      \/ wish * m >= ff /\ m = 2 /\ wish < ff
      \/ wish * m >= ff /\ \E h \in Factors : m = 2 * h /\ wish * h < ff
  BY DivisorServes DEF Serves
<1> SUFFICES 2 * got * ff >= d * wish /\ (got - 1) * ff < d * wish
  OBVIOUS
<1> HIDE DEF m, wish, d, ff
<1>3. \A a, b, e \in Nat : a <= b => a * e <= b * e
  <2> SUFFICES ASSUME NEW a \in Nat, NEW b \in Nat, NEW e \in Nat, a <= b PROVE a * e <= b * e
    OBVIOUS
  <2>1. (b - a) * e >= 0 /\ (b - a) * e = b * e - a * e /\ a * e \in Int /\ b * e \in Int
    BY SMT
  <2> QED
    BY <2>1
<1>4. m \in Nat /\ d \in Nat /\ ff \in Nat /\ wish \in Nat /\ m >= 1 /\ d >= 1 /\ ff >= 1 /\ wish >= 1
  BY <1>1 DEF Factors
<1>5. wish * m <= 2 * ff /\ wish * m >= ff
  <2>1. CASE m = 1 /\ wish = ff
    BY <1>4, <2>1
  <2>2. CASE wish * m >= ff /\ m = 2 /\ wish < ff
    BY <1>4, <2>2
  <2>3. ASSUME wish * m >= ff, NEW h \in Factors, m = 2 * h, wish * h < ff
        PROVE  wish * m <= 2 * ff
    <3>1. wish * m = 2 * (wish * h) /\ wish * h \in Nat
      BY <1>4, <2>3, SMT DEF Factors
    <3> QED
      BY <1>4, <2>3, <3>1
  <2> QED
    BY <1>2, <2>1, <2>2, <2>3
<1>6. 2 * got * ff >= d * wish
  <2>1. d * wish <= (got * m) * wish
    <3>1. got * m \in Nat
      BY <1>4, SMT
    <3> QED
      BY <1>1, <1>3, <1>4, <3>1
  <2>2. (got * m) * wish = (wish * m) * got /\ wish * m \in Nat
    BY <1>4, SMT
  <2>3. (wish * m) * got <= (2 * ff) * got
    <3>1. 2 * ff \in Nat
      BY <1>4
    <3> QED
      BY <1>3, <1>5, <2>2, <3>1
  <2>4. (2 * ff) * got = 2 * got * ff /\ (wish * m) * got \in Int /\ d * wish \in Int /\ 2 * got * ff \in Int
    BY <1>4, SMT
  <2> QED
    BY <2>1, <2>2, <2>3, <2>4
<1>7. (got - 1) * ff < d * wish
  <2>1. CASE got = 0
    <3>1. (got - 1) * ff = -ff /\ d * wish >= 0
      BY <1>4, <2>1, SMT
    <3>2. d * wish \in Int
      BY <1>4, SMT
    <3> QED
      BY <1>4, <3>1, <3>2
  <2>2. CASE got >= 1
    <3> DEFINE g == got - 1
    <3>1. g \in Nat /\ g * m < d
      BY <1>1, <2>2
    <3> HIDE DEF g
    <3>2. ff * g <= (wish * m) * g
      <4>1. wish * m \in Nat
        BY <1>4, SMT
      <4> QED
        BY <1>3, <1>4, <1>5, <3>1, <4>1
    <3>3. (wish * m) * g = (g * m) * wish
      BY <1>4, <3>1, SMT
    <3>4. (g * m) * wish + wish <= d * wish
      <4>1. g * m \in Nat /\ g * m + 1 <= d /\ g * m + 1 \in Nat
        BY <1>4, <3>1, SMT
      <4>2. (g * m + 1) * wish <= d * wish
        BY <1>3, <1>4, <4>1
      <4>3. (g * m + 1) * wish = (g * m) * wish + wish
        BY <1>4, <4>1, SMT
      <4> QED
        BY <4>2, <4>3
    <3>5. ff * g \in Int /\ (g * m) * wish \in Int /\ d * wish \in Int /\ g * ff = ff * g
      BY <1>4, <3>1, SMT
    <3>6. g * ff < d * wish
      BY <1>4, <3>2, <3>3, <3>4, <3>5
    <3> QED
      BY <3>6 DEF g
  <2> QED
    BY <2>1, <2>2
<1> QED
  BY <1>6, <1>7
-----------------------------------------------------------------------------
\* How many frames of this cycle were for the client, or not.
FramesPast(c) == frameCycle + (IF upNext = 0 \/ c < upNext THEN 1 ELSE 0)

FrameInv ==
  /\ SceneTypes /\ drawers = Cleared
  /\ upNext \in 0..NumSeats /\ frameCycle \in 0..FrameDivisor - 1
  /\ framesGot \in [Seats -> Nat] /\ DOMAIN screen = Seats
  /\ \A c \in Seats : screen[c] # NoFrame => FrameIsTrue(c, screen[c])
  /\ \A c \in Seats \ Bots : Shared(FramesPast(c), framesGot[c], Divisor(display[c].fps))

LEMMA WishIs ==
  ASSUME SceneTypes, NEW c \in Seats
  PROVE  display[c].fps \in Factors
<1>1. display \in [Seats -> [size : (1..MaxView) \X (1..MaxView), fps : Nat \ {0}]]
  BY FrameAssumption DEF SceneTypes
<1> QED
  BY <1>1 DEF Factors

(* Another frame does not change what a frame showed.                      *)
LEMMA TruthStays ==
  ASSUME UNCHANGED scene, NEW c, NEW f, FrameIsTrue(c, f)
  PROVE  FrameIsTrue(c, f)'
<1>1. /\ wraps' = wraps /\ shipAt' = shipAt /\ shotAt' = shotAt /\ condition' = condition
      /\ lockedOn' = lockedOn /\ display' = display /\ bufferSize' = bufferSize
  BY DEF scene
<1>2. \A p : Seen(c, p)' <=> Seen(c, p)
  BY <1>1 DEF Seen, Corner, SeenFrom, ViewSize
<1>3. SeenFrom(c)' = SeenFrom(c) /\ (ViewFits(c)' <=> ViewFits(c))
  BY <1>1 DEF SeenFrom, ViewFits, ViewSize
<1>4. TruthIsShown(c, f.items) => TruthIsShown(c, f.items)'
  BY <1>1, <1>2, <1>3 DEF TruthIsShown
<1>5. AllIsShown(c, f.items) => AllIsShown(c, f.items)'
  BY <1>1, <1>2 DEF AllIsShown
<1>6. RadarIsShown(c, f.items) => RadarIsShown(c, f.items)'
  BY <1>1, <1>3 DEF RadarIsShown
<1> QED
  BY <1>1, <1>3, <1>4, <1>5, <1>6 DEF FrameIsTrue

LEMMA FirstFrame == FrameInit => FrameInv
<1> SUFFICES ASSUME FrameInit PROVE FrameInv
  OBVIOUS
<1>1. <<0, 0>> \in Pixels
  BY FrameFacts DEF Pixels
<1>2. SceneTypes
  BY <1>1 DEF FrameInit, SceneTypes
<1>3. drawers = Cleared /\ upNext \in 0..NumSeats /\ frameCycle \in 0..FrameDivisor - 1
  BY FrameFacts DEF FrameInit
<1>4. framesGot \in [Seats -> Nat] /\ DOMAIN screen = Seats /\ \A c \in Seats : screen[c] = NoFrame
  BY DEF FrameInit
<1>5. ASSUME NEW c \in Seats \ Bots PROVE Shared(FramesPast(c), framesGot[c], Divisor(display[c].fps))
  <2>1. Divisor(display[c].fps) \in Factors
    BY <1>2, WishIs, DivisorServes
  <2>2. FramesPast(c) = 0 /\ framesGot[c] = 0
    BY FrameFacts DEF FrameInit, FramesPast, Seats
  <2>3. (0 - 1) * Divisor(display[c].fps) < 0 /\ 0 <= 0 * Divisor(display[c].fps)
    BY <2>1, SMT DEF Factors
  <2> QED
    BY <2>2, <2>3 DEF Shared
<1> QED
  BY <1>2, <1>3, <1>4, <1>5 DEF FrameInv

LEMMA FrameUpdateKeeps ==
  ASSUME FrameInv, FrameUpdate
  PROVE  FrameInv'
<1> DEFINE t == upNext
<1>1. t \in Seats /\ UNCHANGED scene /\ frameCycle' = frameCycle /\ t' = (IF t = NumSeats THEN 0 ELSE t + 1)
  BY DEF FrameInv, FrameUpdate, Seats
<1>2. /\ wraps' = wraps /\ shipAt' = shipAt /\ shotAt' = shotAt /\ condition' = condition
      /\ lockedOn' = lockedOn /\ display' = display /\ bufferSize' = bufferSize
  BY <1>1 DEF scene
<1>3. SceneTypes'
  BY <1>2 DEF FrameInv, SceneTypes
<1>4. t' \in 0..NumSeats /\ frameCycle' \in 0..FrameDivisor - 1
  BY <1>1, FrameFacts DEF FrameInv, Seats
<1>5. /\ drawers' = Cleared /\ DOMAIN screen' = Seats
      /\ \A c \in Seats : screen'[c] # NoFrame => FrameIsTrue(c, screen'[c])
  <2>1. CASE ~GetsAFrame(t)
    <3>1. screen' = screen /\ drawers' = drawers
      BY <2>1 DEF FrameUpdate
    <3> QED
      BY <3>1 DEF FrameInv
  <2>2. CASE GetsAFrame(t)
    <3>1. SendFrame(t)
      BY <2>2 DEF FrameUpdate
    <3> DEFINE Made(order, blink, onRadar) ==
                 /\ Cardinality(onRadar) = BlipsThatFit(ShipsSent(t), Cardinality(Blips(t, blink)))
                 /\ screen' = [screen EXCEPT ![t] =
                                 EndOfFrame(ShotsSent(t, Collected(t, order),
                                              RadarSent(ShipsSent(t), Cardinality(Blips(t, blink)), onRadar)))]
                 /\ drawers' = Drained(Collected(t, order))
    <3>2. \E order \in Orders, blink \in BOOLEAN :
            \E onRadar \in SUBSET Blips(t, blink) : Made(order, blink, onRadar)
      BY <3>1 DEF SendFrame
    <3>3. PICK order \in Orders, blink \in BOOLEAN :
            \E onRadar \in SUBSET Blips(t, blink) : Made(order, blink, onRadar)
      BY <3>2
    <3>4. PICK onRadar \in SUBSET Blips(t, blink) : Made(order, blink, onRadar)
      BY <3>3
    <3> DEFINE f == EndOfFrame(ShotsSent(t, Collected(t, order),
                                         RadarSent(ShipsSent(t), Cardinality(Blips(t, blink)), onRadar)))
    <3>5. FrameIsTrue(t, f)
      BY <1>1, <3>4, FrameIsMade DEF FrameInv
    <3>6. screen' = [screen EXCEPT ![t] = f]
      BY <3>4
    <3> HIDE DEF f
    <3>7. DOMAIN screen' = Seats /\ screen'[t] = f /\ \A c \in Seats \ {t} : screen'[c] = screen[c]
      BY <1>1, <3>6 DEF FrameInv
    <3>8. drawers' = Cleared
      BY <3>4 DEF Drained
    <3> QED
      BY <3>5, <3>7, <3>8 DEF FrameInv
  <2> QED
    BY <2>1, <2>2
<1>6. ASSUME NEW c \in Seats, screen'[c] # NoFrame PROVE FrameIsTrue(c, screen[c])'
  <2> DEFINE f == screen'[c]
  <2>1. FrameIsTrue(c, f)
    BY <1>5, <1>6
  <2> HIDE DEF f
  <2>2. ASSUME NEW g, FrameIsTrue(c, g) PROVE FrameIsTrue(c, g)'
    BY <1>1, <2>2, TruthStays
  <2> QED
    BY <2>1, <2>2 DEF f
<1>7. framesGot' \in [Seats -> Nat]
  <2>1. framesGot \in [Seats -> Nat]
    BY DEF FrameInv
  <2> QED
    BY <1>1, <2>1 DEF FrameUpdate
<1>8. ASSUME NEW c \in Seats \ Bots
      PROVE  Shared(FramesPast(c)', framesGot'[c], Divisor(display'[c].fps))
  <2> DEFINE m == Divisor(display[c].fps)
  <2>1. m \in Factors /\ Divisor(display'[c].fps) = m
    BY <1>2, WishIs, DivisorServes DEF FrameInv
  <2>2. /\ Shared(FramesPast(c), framesGot[c], m) /\ framesGot[c] \in Nat /\ framesGot \in [Seats -> Nat]
        /\ frameCycle \in Nat /\ c \in 1..NumSeats
    BY DEF FrameInv, Seats
  <2>3. CASE c = t
    <3>1. FramesPast(c) = frameCycle /\ FramesPast(c)' = frameCycle + 1
      BY <1>1, <2>2, <2>3, FrameFacts DEF FramesPast, Seats
    <3>2. framesGot'[c] = IF frameCycle % m = 0 THEN framesGot[c] + 1 ELSE framesGot[c]
      <4>1. GetsAFrame(t) <=> frameCycle % m = 0
        BY <2>3 DEF GetsAFrame
      <4> HIDE DEF m
      <4> QED
        BY <1>1, <2>2, <2>3, <4>1 DEF FrameUpdate
    <3> HIDE DEF m
    <3> QED
      BY <2>1, <2>2, <3>1, <3>2, SharedGoesOn
  <2>4. CASE c # t
    <3>1. FramesPast(c)' = FramesPast(c)
      BY <1>1, <2>2, <2>4, FrameFacts DEF FramesPast, Seats
    <3>2. framesGot'[c] = framesGot[c]
      BY <1>1, <2>2, <2>4 DEF FrameUpdate
    <3> QED
      BY <2>1, <2>2, <3>1, <3>2
  <2> QED
    BY <2>3, <2>4
<1>9. ASSUME NEW c \in Seats \ Bots
      PROVE  Shared(FramesPast(c), framesGot[c], Divisor(display[c].fps))'
  BY <1>8 DEF Shared
<1> QED
  BY <1>3, <1>4, <1>5, <1>6, <1>7, <1>9 DEF FrameInv

LEMMA NextFrameKeeps ==
  ASSUME FrameInv, NextFrame
  PROVE  FrameInv'
<1>1. /\ upNext = 0 /\ upNext' = 1 /\ Change /\ screen' = [o \in Seats |-> NoFrame]
      /\ wraps' = wraps /\ display' = display /\ bufferSize' = bufferSize /\ drawers' = drawers
      /\ frameCycle' = (IF frameCycle = FrameDivisor - 1 THEN 0 ELSE frameCycle + 1)
      /\ framesGot' = (IF frameCycle' = 0 THEN [o \in Seats |-> 0] ELSE framesGot)
  BY DEF NextFrame
<1>2. SceneTypes'
  <2>1. /\ wraps \in BOOLEAN /\ bufferSize \in FrameRooms /\ display \in Displays
        /\ shipAt \in [Seats -> Pixels] /\ shotAt \in [Shots -> Pixels]
        /\ condition \in [Seats -> {"alive", "dead", "returning"}]
        /\ lockedOn \in [Seats -> Seats \cup {Nowhere}]
    BY DEF FrameInv, SceneTypes
  <2>2. /\ shipAt' \in [Seats -> Pixels] /\ shotAt' \in [Shots -> Pixels]
        /\ condition' \in [Seats -> {"alive", "dead", "returning"}]
        /\ lockedOn' \in [Seats -> Seats \cup {Nowhere}]
    BY <1>1, <2>1 DEF Change
  <2> QED
    BY <1>1, <2>1, <2>2 DEF SceneTypes
<1>3. frameCycle \in 0..FrameDivisor - 1 /\ framesGot \in [Seats -> Nat]
  BY DEF FrameInv
<1>4. upNext' \in 0..NumSeats /\ frameCycle' \in 0..FrameDivisor - 1 /\ framesGot' \in [Seats -> Nat]
  BY <1>1, <1>3, FrameFacts
<1>5. drawers' = Cleared /\ DOMAIN screen' = Seats /\ \A c \in Seats : screen'[c] = NoFrame
  BY <1>1 DEF FrameInv
<1>6. ASSUME NEW c \in Seats \ Bots
      PROVE  Shared(FramesPast(c)', framesGot'[c], Divisor(display'[c].fps))
  <2> DEFINE m == Divisor(display[c].fps)
  <2>1. m \in Factors /\ Divisor(display'[c].fps) = m
    BY <1>1, WishIs, DivisorServes DEF FrameInv
  <2>2. Shared(FramesPast(c), framesGot[c], m) /\ c \in 1..NumSeats
    BY DEF FrameInv, Seats
  <2>3. FramesPast(c) = frameCycle + 1 /\ FramesPast(c)' = frameCycle'
    BY <1>1, <1>3, <1>4, <2>2, FrameFacts DEF FramesPast
  <2> HIDE DEF m
  <2>4. CASE frameCycle' = 0
    <3>1. framesGot'[c] = 0
      BY <1>1, <2>4
    <3>2. (0 - 1) * m < 0 /\ 0 <= 0 * m
      BY <2>1, SMT DEF Factors
    <3> QED
      BY <2>1, <2>3, <2>4, <3>1, <3>2 DEF Shared
  <2>5. CASE frameCycle' # 0
    <3>1. frameCycle' = frameCycle + 1 /\ framesGot' = framesGot
      BY <1>1, <2>5
    <3> QED
      BY <2>1, <2>2, <2>3, <3>1
  <2> QED
    BY <2>4, <2>5
<1>7. ASSUME NEW c \in Seats \ Bots
      PROVE  Shared(FramesPast(c), framesGot[c], Divisor(display[c].fps))'
  BY <1>6 DEF Shared
<1>8. \A c \in Seats : (screen[c] # NoFrame => FrameIsTrue(c, screen[c]))'
  BY <1>5
<1> QED
  BY <1>2, <1>4, <1>5, <1>7, <1>8 DEF FrameInv

(* Every frame shows what is there and nothing else, and all of it while   *)
(* it has room, for any number of players and shots, all sizes of the      *)
(* world, of the views and of the buffer; and every client gets its share  *)
(* of the frames: Frame_update.                                            *)
THEOREM FramesShowTheWorld == FrameSpec => []FramesAreTrue
<1>1. FrameInit => FrameInv
  BY FirstFrame
<1>2. FrameInv /\ [FrameNext]_frameVars => FrameInv'
  <2> SUFFICES ASSUME FrameInv, [FrameNext]_frameVars PROVE FrameInv'
    OBVIOUS
  <2>1. CASE FrameUpdate
    BY <2>1, FrameUpdateKeeps
  <2>2. CASE NextFrame
    BY <2>2, NextFrameKeeps
  <2>3. CASE UNCHANGED frameVars
    <3>1. /\ UNCHANGED scene /\ upNext' = upNext /\ frameCycle' = frameCycle /\ drawers' = drawers
          /\ screen' = screen /\ framesGot' = framesGot
      BY <2>3 DEF frameVars
    <3>2. /\ wraps' = wraps /\ shipAt' = shipAt /\ shotAt' = shotAt /\ condition' = condition
          /\ lockedOn' = lockedOn /\ display' = display /\ bufferSize' = bufferSize
      BY <3>1 DEF scene
    <3>3. SceneTypes'
      BY <3>2 DEF FrameInv, SceneTypes
    <3>4. ASSUME NEW c \in Seats, screen'[c] # NoFrame PROVE FrameIsTrue(c, screen[c])'
      <4> DEFINE f == screen[c]
      <4>1. FrameIsTrue(c, f) /\ screen'[c] = f
        BY <3>1, <3>4 DEF FrameInv
      <4> HIDE DEF f
      <4>2. ASSUME NEW g, FrameIsTrue(c, g) PROVE FrameIsTrue(c, g)'
        BY <3>1, <4>2, TruthStays
      <4> QED
        BY <4>1, <4>2
    <3>5. ASSUME NEW c \in Seats \ Bots
          PROVE  Shared(FramesPast(c), framesGot[c], Divisor(display[c].fps))'
      BY <3>1, <3>2 DEF FrameInv, Shared, FramesPast
    <3> QED
      BY <3>1, <3>3, <3>4, <3>5 DEF FrameInv
  <2> QED
    BY <2>1, <2>2, <2>3 DEF FrameNext
<1>3. FrameInv => FramesAreTrue
  <2> SUFFICES ASSUME FrameInv, upNext = 0, frameCycle = FrameDivisor - 1, NEW c \in Seats \ Bots
               PROVE  ShareIsFair(c)
    BY DEF FrameInv, FramesAreTrue
  <2>1. FramesPast(c) = FrameDivisor
    BY FrameFacts DEF FramesPast
  <2>2. display[c].fps \in Factors /\ framesGot[c] \in Nat
    BY WishIs DEF FrameInv
  <2>3. Shared(FrameDivisor, framesGot[c], Divisor(display[c].fps))
    BY <2>1 DEF FrameInv
  <2> QED
    BY <2>2, <2>3, ShareServes DEF ShareIsFair
<1> QED
  BY <1>1, <1>2, <1>3, PTL DEF FrameSpec
=============================================================================
