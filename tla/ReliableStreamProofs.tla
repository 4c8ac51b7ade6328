------------------------ MODULE ReliableStreamProofs ------------------------
(***************************************************************************)
(* The safety of the reliable stream for every packet size, buffer size,   *)
(* frame size, frame rate and length of the stream, and for any number of  *)
(* datagrams lost, repeated and reordered in both directions.              *)
(*                                                                         *)
(* The inductive invariant is the conjunction of the invariants the runs   *)
(* check.  In-order delivery needs the truth of every datagram in flight,  *)
(* which needs that connp->c is the tail of the stream; that the client is *)
(* never dropped needs the truth of every acknowledgement in flight.       *)
(***************************************************************************)
EXTENDS ReliableStream, TLAPS

IInv ==
  /\ TypeOK
  /\ InOrderDelivery
  /\ BufferIsTheTail
  /\ InFlightIsTrue
  /\ NoBadAck
  /\ OutstandingIsTimed

USE PacketSizeAssumption, BufSizeAssumption, WriteSizesAssumption, FrameSizesAssumption,
    FpsAssumption, EstimatesAssumption, MaxWrittenAssumption
DEF PacketSizeAssumption, BufSizeAssumption, WriteSizesAssumption, FrameSizesAssumption,
    FpsAssumption, EstimatesAssumption, MaxWrittenAssumption

-----------------------------------------------------------------------------
(* Arithmetic of the burst.                                                *)

(* The i-th datagram of a burst of at most ceil(todo / size) starts before *)
(* the end of the data.                                                    *)
LEMMA CutBound ==
  ASSUME NEW todo \in Int, NEW size \in Int, size > 0,
         NEW i \in Int, i <= (todo + size - 1) \div size
  PROVE  (i - 1) * size < todo
<1> DEFINE q == (todo + size - 1) \div size
<1>1. q \in Int /\ size * q <= todo + size - 1
  BY SMT
<1> HIDE DEF q
<1>2. i * size <= q * size
  BY <1>1, SMT DEF q
<1>3. (i - 1) * size = i * size - size
  BY SMT
<1> QED
  BY <1>1, <1>2, <1>3, SMT

(* Products are monotonic.                                                 *)
LEMMA ProductMonotonic ==
  ASSUME NEW i \in Nat, NEW n \in Nat, NEW size \in Nat, i <= n
  PROVE  /\ i * size \in Nat
         /\ n * size \in Nat
         /\ i * size <= n * size
BY SMT

(* The timers stay in range.                                               *)
LEMMA TimeoutRange ==
  ASSUME NEW rtt \in 0..MaxTimeout, NEW expired \in BOOLEAN
  PROVE  /\ ArmedTimeout(rtt) \in 0..MAX_RETRANSMIT
         /\ TimeoutAfterSend(rtt, expired) \in 0..MaxTimeout
BY SMT DEF ArmedTimeout, TimeoutAfterSend, MaxTimeout, MAX_RTT, MAX_RETRANSMIT

-----------------------------------------------------------------------------
(* The datagrams of a burst.                                               *)

\* What Send_reliable has established when it reaches its loop.
MaySend(w) == c_len > 0 /\ ~FrameTooBig(w)

(* The types of the numbers, without the datagrams.                        *)
LEMMA Numbers ==
  ASSUME TypeOK
  PROVE  /\ written \in Nat
         /\ c_len \in 0..BufSize
         /\ c_len \in Nat
         /\ reliable_offset \in Nat
         /\ reliable_unsent \in Nat
         /\ timer \in Nat \cup {NoTimer}
         /\ timer \in Int
         /\ rtt_retransmit \in 0..MaxTimeout
         /\ acks \in Nat
         /\ client_pos \in Nat
<1>1. c_len \in 0..BufSize /\ timer \in Nat \cup {NoTimer}
  BY DEF TypeOK
<1>2. c_len \in Nat /\ timer \in Int
  BY <1>1, SMT DEF NoTimer
<1> QED
  BY <1>1, <1>2 DEF TypeOK

LEMMA TodoRange ==
  ASSUME IInv, NEW w \in Nat, MaySend(w)
  PROVE  MaxTodo(w) \in 1..c_len
<1>1. c_len \in Nat
  BY Numbers DEF IInv
<1> QED
  BY <1>1, SMT DEF MaySend, FrameTooBig, MaxTodo, Least

LEMMA WindowIsNat ==
  ASSUME IInv, NEW t \in Int
  PROVE  Window(t) \in Nat
<1>1. acks \in Nat
  BY Numbers DEF IInv
<1> QED
  BY <1>1, SMT DEF Window

(* A datagram of a burst of n carries what its position says, and ends     *)
(* where the burst ends or earlier.                                        *)
LEMMA BurstPacketIsTrue ==
  ASSUME IInv, NEW w \in Nat, MaySend(w), NEW t \in Int,
         NEW n \in Nat, n <= BurstLimit(w, t), NEW i \in 1..n
  PROVE  LET p    == BurstPacket(i, w)
             done == Least(n * PacketSize, MaxTodo(w))
         IN  /\ IsPacket(p)
             /\ p.off + p.len <= reliable_offset + done
             /\ \A k \in 1..p.len : p.bytes[k] = p.off + k
<1> DEFINE todo == MaxTodo(w)
           from == (i - 1) * PacketSize
           len  == Least(PacketSize, todo - from)
           done == Least(n * PacketSize, todo)
           p    == BurstPacket(i, w)
<1>1. todo \in 1..c_len
  BY TodoRange
<1> HIDE DEF todo
<1>2. PacketSize \in Nat \ {0} /\ c_len \in Nat /\ reliable_offset \in Nat /\ i \in Nat \ {0}
  BY Numbers DEF IInv
<1>3. n <= (todo + PacketSize - 1) \div PacketSize
  <2>1. (todo + PacketSize - 1) \div PacketSize \in Int
    BY <1>1, <1>2, SMT
  <2> QED
    BY <2>1, WindowIsNat DEF BurstLimit, Least, todo
<1>4. from < todo
  <2>1. (todo + PacketSize - 1) \div PacketSize \in Int
    BY <1>1, <1>2, SMT
  <2>2. i <= (todo + PacketSize - 1) \div PacketSize
    BY <1>2, <1>3, <2>1, SMT
  <2> HIDE DEF from
  <2> QED
    BY <1>1, <1>2, <2>2, CutBound DEF from
<1>5. from \in Nat /\ from + PacketSize <= n * PacketSize /\ n * PacketSize \in Nat
  <2>1. from \in Nat
    BY <1>2, ProductMonotonic
  <2>2. i * PacketSize <= n * PacketSize /\ n * PacketSize \in Nat
    BY <1>2, ProductMonotonic
  <2>3. from + PacketSize = i * PacketSize
    BY <1>2, SMT
  <2> QED
    BY <2>1, <2>2, <2>3
<1> HIDE DEF from
<1>6. len \in 1..PacketSize /\ from + len <= todo /\ from + len <= done
  <2> DEFINE m == n * PacketSize
  <2>1. m \in Nat /\ from + PacketSize <= m
    BY <1>5
  <2> HIDE DEF m
  <2> QED
    BY <1>1, <1>2, <1>4, <1>5, <2>1, SMT DEF Least, m
<1> HIDE DEF len, done
<1>7. p = [off |-> reliable_offset + from, len |-> len, bytes |-> Slice(c_buf, from, len)]
  BY DEF BurstPacket, from, len, todo
<1> HIDE DEF p
<1>8. p.off = reliable_offset + from /\ p.len = len /\ p.bytes = Slice(c_buf, from, len)
  BY <1>7
<1>9. \A k \in 1..len : from + k \in 1..c_len
  BY <1>1, <1>2, <1>5, <1>6, SMT
<1>10. \A k \in 1..len : /\ Slice(c_buf, from, len)[k] = reliable_offset + from + k
                         /\ Slice(c_buf, from, len)[k] \in Nat
  BY <1>2, <1>5, <1>9 DEF Slice, IInv, BufferIsTheTail
<1>11. Slice(c_buf, from, len) \in [1..len -> Nat]
  BY <1>10 DEF Slice
<1>12. IsPacket(p)
  BY <1>2, <1>5, <1>6, <1>7, <1>8, <1>11 DEF IsPacket
<1>13. p.off + p.len <= reliable_offset + done
  BY <1>1, <1>2, <1>5, <1>6, <1>8, SMT DEF done, Least
<1>14. \A k \in 1..p.len : p.bytes[k] = p.off + k
  BY <1>8, <1>10
<1> QED
  BY <1>12, <1>13, <1>14 DEF p, done, todo

-----------------------------------------------------------------------------
(* Each step keeps the invariant.                                          *)

LEMMA InitInvariant == Init => IInv
<1> SUFFICES ASSUME Init PROVE IInv
  OBVIOUS
<1>1. DEFAULT_RETRANSMIT \in 0..MaxTimeout /\ MAX_RETRANSMIT \in Nat
  <2>1. Fps \div 2 \in 0..Fps
    BY SMT
  <2> QED
    BY <2>1, SMT DEF DEFAULT_RETRANSMIT, MaxTimeout, MAX_RTT, MAX_RETRANSMIT
<1>2. TypeOK
  <2>1. c_buf \in [1..c_len -> Nat] /\ received \in [1..client_pos -> Nat]
    BY SMT DEF Init
  <2>2. c_len \in 0..BufSize
    BY SMT DEF Init
  <2> QED
    BY <1>1, <2>1, <2>2 DEF Init, TypeOK
<1>3. InOrderDelivery /\ BufferIsTheTail /\ InFlightIsTrue
  BY SMT DEF Init, InOrderDelivery, BufferIsTheTail, InFlightIsTrue
<1>4. NoBadAck /\ OutstandingIsTimed
  BY <1>1, SMT DEF Init, NoBadAck, OutstandingIsTimed, NoTimer
<1> QED
  BY <1>2, <1>3, <1>4 DEF IInv

LEMMA WriteInvariant ==
  ASSUME IInv, NEW n \in WriteSizes, Write(n)
  PROVE  IInv'
<1>1. n \in Nat \ {0}
  OBVIOUS
<1> USE DEF Write, CannotFit, network, client
<1>2. /\ c_len' \in 0..BufSize
      /\ c_len' = written' - reliable_offset'
      /\ written' \in Nat
      /\ written <= written'
  <2>1. c_len = written - reliable_offset
    BY DEF IInv, BufferIsTheTail
  <2>2. /\ written \in Nat /\ c_len \in Nat /\ reliable_offset \in Nat
        /\ BufSize \in Nat
    BY Numbers, BufSizeAssumption DEF IInv
  <2>3. /\ written' = written + n /\ c_len' = c_len + n
        /\ reliable_offset' = reliable_offset /\ ~(c_len + n > BufSize)
    OBVIOUS
  <2> QED
    BY <1>1, <2>1, <2>2, <2>3, SMT
<1>3. \A i \in 1..c_len' : c_buf'[i] = reliable_offset' + i
  <2>1. /\ c_len = written - reliable_offset
        /\ \A i \in 1..c_len : c_buf[i] = reliable_offset + i
    BY DEF IInv, BufferIsTheTail
  <2>2. written \in Nat /\ c_len \in Nat /\ reliable_offset \in Nat
    BY Numbers DEF IInv
  <2>3. /\ c_len' = c_len + n /\ reliable_offset' = reliable_offset
        /\ \A i \in 1..(c_len + n) : c_buf'[i] = IF i <= c_len THEN c_buf[i]
                                                  ELSE written + (i - c_len)
    OBVIOUS
  <2> QED
    BY <1>1, <2>1, <2>2, <2>3, SMT
<1>4. c_buf' \in [1..c_len' -> Nat]
  <2>1. \A i \in 1..c_len' : c_buf'[i] \in Nat
    <3>1. reliable_offset' \in Nat /\ c_len' \in Nat
      BY <1>2, Numbers, SMT DEF IInv
    <3> QED
      BY <1>3, <3>1
  <2>2. c_buf' = [i \in 1..c_len' |-> c_buf'[i]]
    OBVIOUS
  <2> QED
    BY <2>1, <2>2
<1>5. TypeOK'
  BY <1>2, <1>4 DEF IInv, TypeOK, IsPacket
<1>6. InOrderDelivery'
  BY <1>2, Numbers, SMT DEF IInv, InOrderDelivery
<1>7. InFlightIsTrue' /\ NoBadAck' /\ OutstandingIsTimed'
  BY DEF IInv, InFlightIsTrue, NoBadAck, OutstandingIsTimed
<1> QED
  BY <1>2, <1>3, <1>5, <1>6, <1>7 DEF IInv, BufferIsTheTail

\* What both callers of Send_reliable know of the timer they pass.
TimerOf(t) ==
  /\ t \in Nat \cup {NoTimer}
  /\ t <= MAX_RETRANSMIT
  /\ timer # NoTimer => t # NoTimer

(* A call of Send_reliable that does send.                                 *)
LEMMA BurstInvariant ==
  ASSUME IInv, NEW w \in Nat, MaySend(w), NEW t, TimerOf(t),
         NEW n \in 0..BurstLimit(w, t), Burst(w, t, n),
         sentThisLoop' = TRUE,
         UNCHANGED <<fate, written, c_len, c_buf, reliable_offset, ackNet, client>>
  PROVE  IInv'
<1> DEFINE done == Least(n * PacketSize, MaxTodo(w))
<1>1. t \in Int /\ t \in Nat \cup {NoTimer}
  BY SMT DEF TimerOf, NoTimer
<1>2. n \in Nat /\ n <= BurstLimit(w, t)
  <2>1. BurstLimit(w, t) \in Int
    <3>1. Window(t) \in Nat /\ MaxTodo(w) \in Int
      BY <1>1, WindowIsNat, TodoRange
    <3>2. (MaxTodo(w) + PacketSize - 1) \div PacketSize \in Int
      BY <3>1, SMT
    <3> QED
      BY <3>1, <3>2 DEF BurstLimit, Least
  <2> QED
    BY <2>1, SMT
<1>3. done \in 0..c_len /\ done \in Nat
  <2>1. n * PacketSize \in Nat
    BY <1>2, ProductMonotonic
  <2>2. MaxTodo(w) \in 1..c_len
    BY TodoRange
  <2> QED
    BY <2>1, <2>2, Numbers, SMT DEF Least, IInv
<1>4. \A i \in 1..n : /\ IsPacket(BurstPacket(i, w))
                      /\ BurstPacket(i, w).off + BurstPacket(i, w).len <= reliable_offset + done
                      /\ \A k \in 1..BurstPacket(i, w).len :
                           BurstPacket(i, w).bytes[k] = BurstPacket(i, w).off + k
  BY <1>1, <1>2, BurstPacketIsTrue
<1>5. data' = data \cup {BurstPacket(i, w) : i \in 1..n}
  BY DEF Burst
<1>6. IF done > 0
      THEN /\ timer' = ArmedTimeout(rtt_retransmit)
           /\ rtt_retransmit' = TimeoutAfterSend(rtt_retransmit, t <= 0)
           /\ reliable_unsent' = Greatest(reliable_unsent, reliable_offset + done)
      ELSE timer' = t /\ UNCHANGED <<rtt_retransmit, reliable_unsent>>
  BY DEF Burst
<1> HIDE DEF done
<1>7. /\ reliable_unsent' \in Nat
      /\ reliable_unsent <= reliable_unsent'
      /\ reliable_offset + done <= reliable_unsent' \/ done = 0
      /\ reliable_unsent' <= written
  BY <1>3, <1>6, Numbers, SMT DEF IInv, Greatest, InOrderDelivery, BufferIsTheTail
<1>8. timer' \in Nat \cup {NoTimer} /\ timer' <= MAX_RETRANSMIT /\ rtt_retransmit' \in 0..MaxTimeout
  <2>1. CASE done > 0
    <3>1. (t <= 0) \in BOOLEAN
      OBVIOUS
    <3>2. ArmedTimeout(rtt_retransmit) \in 0..MAX_RETRANSMIT
      BY Numbers, TimeoutRange DEF IInv
    <3>3. TimeoutAfterSend(rtt_retransmit, t <= 0) \in 0..MaxTimeout
      BY <3>1, Numbers, TimeoutRange DEF IInv
    <3> QED
      BY <1>6, <2>1, <3>2, <3>3, SMT DEF MAX_RETRANSMIT
  <2>2. CASE ~(done > 0)
    BY <1>6, <2>2, Numbers DEF TimerOf, IInv
  <2> QED
    BY <2>1, <2>2
<1>9. (done > 0 => timer' # NoTimer) /\ (done <= 0 => timer' = t)
  <2>1. ArmedTimeout(rtt_retransmit) \in 0..MAX_RETRANSMIT /\ MAX_RETRANSMIT \in Nat
    <3>1. TRUE \in BOOLEAN /\ rtt_retransmit \in 0..MaxTimeout
      BY Numbers DEF IInv
    <3>2. ArmedTimeout(rtt_retransmit) \in 0..MAX_RETRANSMIT
      BY <3>1, TimeoutRange
    <3> QED
      BY <3>2, SMT DEF MAX_RETRANSMIT
  <2>2. ArmedTimeout(rtt_retransmit) # NoTimer
    BY <2>1, SMT DEF NoTimer
  <2> QED
    BY <1>3, <1>6, <2>2, SMT
<1>10. acks' \in Nat
  BY <1>1, WindowIsNat, SMT DEF Burst
<1>11. TypeOK'
  <2>1. \A p \in data' : IsPacket(p)
    BY <1>4, <1>5 DEF IInv, TypeOK
  <2>2. (\A p \in data : IsPacket(p))'
    BY <2>1 DEF IsPacket
  <2> QED
    BY <1>7, <1>8, <1>10, <2>2 DEF IInv, TypeOK, client
<1>12. InOrderDelivery'
  BY <1>7, Numbers, SMT DEF IInv, InOrderDelivery, client
<1>13. BufferIsTheTail' /\ NoBadAck'
  BY DEF IInv, BufferIsTheTail, NoBadAck
<1>14. InFlightIsTrue'
  <2>1. \A p \in data' : p.off + p.len <= reliable_unsent'
    <3> SUFFICES ASSUME NEW p \in data' PROVE p.off + p.len <= reliable_unsent'
      OBVIOUS
    <3>1. CASE p \in data
      <4>1. p.off \in Nat /\ p.len \in Nat
        <5>1. p.off \in Nat /\ p.len \in 1..PacketSize
          BY <3>1 DEF IInv, TypeOK, IsPacket
        <5> QED
          BY <5>1, SMT
      <4>2. p.off + p.len <= reliable_unsent
        BY <3>1 DEF IInv, InFlightIsTrue
      <4> QED
        BY <1>7, <4>1, <4>2, Numbers, SMT DEF IInv
    <3>2. CASE \E i \in 1..n : p = BurstPacket(i, w)
      <4>1. p.off + p.len <= reliable_offset + done /\ p.off \in Nat /\ p.len \in 1..PacketSize
        BY <1>4, <3>2 DEF IsPacket
      <4>2. CASE done = 0
        <5>1. reliable_offset <= reliable_unsent
          BY Numbers, SMT DEF IInv, InOrderDelivery
        <5> QED
          BY <1>7, <4>1, <4>2, <5>1, Numbers, SMT DEF IInv
      <4>3. CASE done # 0
        BY <1>3, <1>7, <4>1, <4>3, Numbers, SMT DEF IInv
      <4> QED
        BY <4>2, <4>3
    <3> QED
      BY <1>5, <3>1, <3>2
  <2>2. \A p \in data' : \A k \in 1..p.len : p.bytes[k] = p.off + k
    BY <1>4, <1>5 DEF IInv, InFlightIsTrue
  <2> QED
    BY <2>1, <2>2 DEF IInv, InFlightIsTrue, client
<1>15. OutstandingIsTimed'
  <2>1. CASE done > 0
    BY <1>8, <1>9, <2>1 DEF OutstandingIsTimed
  <2>2. CASE ~(done > 0)
    <3>1. reliable_unsent' = reliable_unsent /\ timer' = t
      BY <1>6, <2>2
    <3> QED
      BY <1>8, <3>1 DEF IInv, OutstandingIsTimed, TimerOf
  <2> QED
    BY <2>1, <2>2
<1> QED
  BY <1>11, <1>12, <1>13, <1>14, <1>15 DEF IInv

(* A call of Send_reliable, whatever comes of it.                          *)
LEMMA SendInvariant ==
  ASSUME IInv, NEW w \in Nat, NEW t, TimerOf(t), NEW s \in BOOLEAN, NEW blocked \in BOOLEAN,
         SendReliable(w, t, s, blocked)
  PROVE  IInv'
<1>1. UNCHANGED <<fate, written, c_len, c_buf, reliable_offset, ackNet, client>>
  BY DEF SendReliable
<1>2. CASE /\ sentThisLoop' \in BOOLEAN
           /\ timer' = t
           /\ UNCHANGED <<reliable_unsent, rtt_retransmit, acks, data>>
  <2>1. TypeOK'
    BY <1>1, <1>2 DEF IInv, TypeOK, IsPacket, client, TimerOf
  <2>2. OutstandingIsTimed'
    BY <1>1, <1>2 DEF IInv, OutstandingIsTimed, TimerOf
  <2> QED
    BY <1>1, <1>2, <2>1, <2>2
       DEF IInv, InOrderDelivery, BufferIsTheTail, InFlightIsTrue, NoBadAck, client
<1>3. CASE /\ ~(c_len = 0 \/ s)
           /\ ~(FrameTooBig(w) \/ NotTimeYet(w, t))
  <2>1. MaySend(w)
    <3>1. c_len \in Nat /\ c_len # 0
      BY <1>3, Numbers DEF IInv
    <3> QED
      BY <1>3, <3>1, SMT DEF MaySend
  <2>2. sentThisLoop' = TRUE /\ \E n \in 0..BurstLimit(w, t) : Burst(w, t, n)
    BY <1>3 DEF SendReliable
  <2> QED
    BY <1>1, <2>1, <2>2, BurstInvariant
<1> QED
  BY <1>2, <1>3 DEF SendReliable

LEMMA NextLoopTimer ==
  ASSUME IInv
  PROVE  TimerOf(TimerNextLoop) /\ TimerOf(timer)
<1>1. timer \in Nat \cup {-1} /\ timer <= MAX_RETRANSMIT /\ MAX_RETRANSMIT \in Nat
  <2>1. timer \in Nat \cup {NoTimer} /\ timer <= MAX_RETRANSMIT
    BY Numbers DEF IInv, OutstandingIsTimed
  <2> QED
    BY <2>1, SMT DEF NoTimer, MAX_RETRANSMIT
<1> QED
  BY <1>1, SMT DEF TimerOf, TimerNextLoop, NoTimer

LEMMA IdleInvariant ==
  ASSUME IInv, IdleLoop
  PROVE  IInv'
<1> USE DEF IdleLoop, network, client
<1>1. TimerOf(TimerNextLoop)
  BY NextLoopTimer
<1>2. TypeOK'
  BY <1>1 DEF IInv, TypeOK, IsPacket, TimerOf
<1>3. OutstandingIsTimed'
  BY <1>1 DEF IInv, OutstandingIsTimed, TimerOf
<1> QED
  BY <1>2, <1>3 DEF IInv, InOrderDelivery, BufferIsTheTail, InFlightIsTrue, NoBadAck

LEMMA ErrorInvariant ==
  ASSUME IInv, SendError
  PROVE  IInv'
BY DEF SendError, network, client, IInv, TypeOK, IsPacket, InOrderDelivery, BufferIsTheTail,
       InFlightIsTrue, NoBadAck, OutstandingIsTimed

(* An acknowledgement from the client: it cannot be of more than the       *)
(* client has, so it is not bad.                                           *)
LEMMA AckInvariant ==
  ASSUME IInv, NEW rel \in ackNet, ReceiveAck(rel)
  PROVE  IInv'
<1> DEFINE diff == rel - reliable_offset
<1> USE DEF client
<1>1. rel \in Nat /\ rel <= client_pos
  BY DEF IInv, TypeOK, InFlightIsTrue
<1>2. diff \in Int /\ ~AckTooFar(diff) /\ diff <= c_len
  <2>1. diff \in Int /\ diff <= c_len
    BY <1>1, Numbers, SMT DEF IInv, InOrderDelivery, BufferIsTheTail
  <2> QED
    BY <2>1, Numbers, SMT DEF IInv, AckTooFar
<1>3. /\ UNCHANGED <<written, reliable_unsent, sentThisLoop, data, client_pos, received>>
      /\ ackNet' \subseteq ackNet
      /\ rtt_retransmit' \in {rtt_retransmit} \cup Estimates
  BY DEF ReceiveAck, MeasureRtt
<1>4. rtt_retransmit' \in 0..MaxTimeout
  <2>1. Estimates \subseteq 0..MaxTimeout
    <3>1. Fps \div 8 \in Nat
      BY SMT
    <3> QED
      BY <3>1, SMT DEF MIN_RETRANSMIT, MaxTimeout, MAX_RTT
  <2> QED
    BY <1>3, <2>1, Numbers DEF IInv
<1>5. InFlightIsTrue'
  BY <1>3 DEF IInv, InFlightIsTrue
<1>6. (\A p \in data : IsPacket(p))' /\ ackNet' \subseteq Nat
  BY <1>3 DEF IInv, TypeOK, IsPacket
<1>7. CASE AckOldData(diff)
  <2>1. TypeOK'
    BY <1>3, <1>4, <1>6, <1>7 DEF IInv, TypeOK, AckOldData
  <2> QED
    BY <1>3, <1>5, <1>7, <2>1
       DEF IInv, AckOldData, InOrderDelivery, BufferIsTheTail, NoBadAck, OutstandingIsTimed
<1>8. CASE AckNewData(diff)
  <2>1. /\ diff > 0
        /\ c_len' = c_len - diff
        /\ c_buf' = Slice(c_buf, diff, c_len - diff)
        /\ reliable_offset' = reliable_offset + diff
        /\ acks' = WindowAfterAck(diff)
        /\ timer' = IF reliable_offset + diff >= reliable_unsent THEN NoTimer ELSE timer
        /\ fate' = fate
    BY <1>8 DEF AckNewData
  <2>2. reliable_offset' = rel
    BY <1>1, <2>1, Numbers, SMT DEF IInv
  <2> HIDE DEF diff
  <2>3. c_len' \in 0..BufSize /\ reliable_offset' \in Nat /\ c_len' = written' - reliable_offset'
    BY <1>1, <1>2, <1>3, <2>1, <2>2, Numbers, SMT DEF IInv, BufferIsTheTail
  <2>4. \A i \in 1..c_len' : c_buf'[i] = reliable_offset' + i
    <3> SUFFICES ASSUME NEW i \in 1..c_len' PROVE c_buf'[i] = reliable_offset' + i
      OBVIOUS
    <3>1. c_buf'[i] = c_buf[diff + i]
      BY <2>1 DEF Slice
    <3>2. diff + i \in 1..c_len
      BY <1>2, <2>1, Numbers, SMT DEF IInv
    <3>3. c_buf[diff + i] = reliable_offset + (diff + i)
      BY <3>2 DEF IInv, BufferIsTheTail
    <3> QED
      BY <1>2, <2>1, <3>1, <3>3, Numbers, SMT DEF IInv
  <2>5. c_buf' \in [1..c_len' -> Nat]
    <3>1. \A i \in 1..c_len' : c_buf'[i] \in Nat
      BY <2>3, <2>4, SMT
    <3>2. c_buf' = [i \in 1..c_len' |-> c_buf'[i]]
      BY <2>1 DEF Slice
    <3> QED
      BY <3>1, <3>2
  <2>6. acks' \in Nat
    <3> DEFINE half == PacketSize \div 2
    <3>1. half \in Nat \ {0}
      BY SMT
    <3> HIDE DEF half
    <3>2. (diff + half - 1) \div half \in Int
      BY <1>2, <3>1, SMT
    <3> QED
      BY <2>1, <3>2, Numbers, SMT DEF WindowAfterAck, half, IInv
  <2>7. timer' \in Nat \cup {NoTimer}
    BY <2>1, Numbers DEF IInv
  <2>8. TypeOK'
    BY <1>3, <1>4, <1>6, <2>1, <2>3, <2>5, <2>6, <2>7 DEF IInv, TypeOK
  <2>9. InOrderDelivery'
    BY <1>1, <1>3, <2>2 DEF IInv, InOrderDelivery
  <2>10. OutstandingIsTimed'
    <3>1. NoTimer <= MAX_RETRANSMIT
      BY SMT DEF NoTimer, MAX_RETRANSMIT
    <3>2. CASE reliable_offset' >= reliable_unsent
      <4>1. ~(reliable_unsent' > reliable_offset')
        BY <1>3, <2>3, <3>2, Numbers, SMT DEF IInv
      <4> QED
        BY <2>1, <3>1, <3>2, <4>1 DEF OutstandingIsTimed
    <3>3. CASE ~(reliable_offset' >= reliable_unsent)
      <4>1. timer' = timer
        BY <2>1, <3>3
      <4>2. reliable_unsent > reliable_offset
        BY <1>2, <2>1, <3>3, Numbers, SMT DEF IInv
      <4> QED
        BY <1>3, <4>1, <4>2 DEF IInv, OutstandingIsTimed
    <3> QED
      BY <3>2, <3>3
  <2> QED
    BY <1>5, <2>1, <2>3, <2>4, <2>8, <2>9, <2>10 DEF IInv, BufferIsTheTail, NoBadAck
<1> QED
  BY <1>2, <1>7, <1>8 DEF ReceiveAck, BadAck

LEMMA ClientInvariant ==
  ASSUME IInv, NEW p \in data, ClientReceive(p)
  PROVE  IInv'
<1> DEFINE end == p.off + p.len
           new == IF p.off <= client_pos THEN Greatest(client_pos, end) ELSE client_pos
<1> USE DEF server
<1>1. /\ client_pos' = new
      /\ received' = [i \in 1..new |-> IF i <= client_pos THEN received[i] ELSE p.bytes[i - p.off]]
      /\ ackNet' = ackNet \cup {new}
      /\ data' \subseteq data
      /\ UNCHANGED server
  BY DEF ClientReceive
<1>2. /\ p.off \in Nat /\ p.len \in Nat
      /\ end <= reliable_unsent
      /\ \A k \in 1..p.len : p.bytes[k] = p.off + k
  <2>1. p.off \in Nat /\ p.len \in 1..PacketSize
    BY DEF IInv, TypeOK, IsPacket
  <2> QED
    BY <2>1, SMT DEF IInv, InFlightIsTrue
<1>3. new \in Nat /\ client_pos <= new /\ new <= reliable_unsent
  BY <1>2, Numbers, SMT DEF IInv, Greatest, InOrderDelivery
<1>4. \A i \in 1..new : received'[i] = i
  <2> SUFFICES ASSUME NEW i \in 1..new PROVE received'[i] = i
    OBVIOUS
  <2>1. CASE i <= client_pos
    <3>1. i \in 1..client_pos
      BY <1>3, <2>1, Numbers, SMT DEF IInv
    <3> QED
      BY <1>1, <2>1, <3>1 DEF IInv, InOrderDelivery
  <2>2. CASE ~(i <= client_pos)
    <3>1. i - p.off \in 1..p.len
      BY <1>2, <1>3, <2>2, Numbers, SMT DEF IInv, Greatest
    <3>2. received'[i] = p.bytes[i - p.off]
      BY <1>1, <2>2
    <3>3. p.bytes[i - p.off] = p.off + (i - p.off)
      BY <1>2, <3>1
    <3> QED
      BY <1>2, <1>3, <3>2, <3>3, SMT
  <2> QED
    BY <2>1, <2>2
<1> HIDE DEF new
<1>5. TypeOK'
  <2>1. received' \in [1..client_pos' -> Nat]
    <3>1. \A i \in 1..new : received'[i] \in Nat
      BY <1>3, <1>4, SMT
    <3>2. received' = [i \in 1..new |-> received'[i]]
      BY <1>1
    <3> QED
      BY <1>1, <3>1, <3>2
  <2>2. (\A q \in data : IsPacket(q))'
    BY <1>1 DEF IInv, TypeOK, IsPacket
  <2> QED
    BY <1>1, <1>3, <2>1, <2>2 DEF IInv, TypeOK
<1>6. InOrderDelivery'
  BY <1>1, <1>3, <1>4, Numbers, SMT DEF IInv, InOrderDelivery
<1>7. InFlightIsTrue'
  <2>1. \A rel \in ackNet' : rel <= client_pos'
    <3> SUFFICES ASSUME NEW rel \in ackNet' PROVE rel <= new
      BY <1>1
    <3>1. CASE rel = new
      BY <1>3, <3>1, SMT
    <3>2. CASE rel \in ackNet
      <4>1. rel \in Nat /\ rel <= client_pos
        BY <3>2 DEF IInv, TypeOK, InFlightIsTrue
      <4> QED
        BY <1>3, <4>1, Numbers, SMT DEF IInv
    <3> QED
      BY <1>1, <3>1, <3>2
  <2> QED
    BY <1>1, <2>1 DEF IInv, InFlightIsTrue
<1> QED
  BY <1>1, <1>5, <1>6, <1>7 DEF IInv, BufferIsTheTail, NoBadAck, OutstandingIsTimed

LEMMA LossInvariant ==
  ASSUME IInv,
         (\E p \in data : LoseData(p)) \/ (\E rel \in ackNet : LoseAck(rel))
  PROVE  IInv'
<1>1. data' \subseteq data /\ ackNet' \subseteq ackNet /\ UNCHANGED <<server, client>>
  BY DEF LoseData, LoseAck
<1> USE DEF server, client
<1>2. TypeOK'
  BY <1>1 DEF IInv, TypeOK, IsPacket
<1>3. InFlightIsTrue'
  BY <1>1 DEF IInv, InFlightIsTrue
<1> QED
  BY <1>1, <1>2, <1>3 DEF IInv, InOrderDelivery, BufferIsTheTail, NoBadAck, OutstandingIsTimed

LEMMA StepInvariant == IInv /\ [Next]_vars => IInv'
<1> SUFFICES ASSUME IInv, [Next]_vars PROVE IInv'
  OBVIOUS
<1>1. ASSUME NEW n \in WriteSizes, Write(n) PROVE IInv'
  BY <1>1, WriteInvariant
<1>2. ASSUME NEW w \in FrameSizes, NEW blocked \in BOOLEAN, SendingLoop(w, blocked) PROVE IInv'
  <2>1. w \in Nat /\ FALSE \in BOOLEAN /\ TimerOf(TimerNextLoop)
    BY NextLoopTimer
  <2> QED
    BY <1>2, <2>1, SendInvariant DEF SendingLoop
<1>3. CASE IdleLoop
  BY <1>3, IdleInvariant
<1>4. ASSUME NEW blocked \in BOOLEAN, SendAtOnce(blocked) PROVE IInv'
  <2>1. 0 \in Nat /\ sentThisLoop \in BOOLEAN /\ TimerOf(timer)
    BY NextLoopTimer DEF IInv, TypeOK
  <2> QED
    BY <1>4, <2>1, SendInvariant DEF SendAtOnce
<1>5. CASE SendError
  BY <1>5, ErrorInvariant
<1>6. ASSUME NEW rel \in ackNet, ReceiveAck(rel) PROVE IInv'
  BY <1>6, AckInvariant
<1>7. ASSUME NEW p \in data, ClientReceive(p) PROVE IInv'
  BY <1>7, ClientInvariant
<1>8. ASSUME NEW p \in data, LoseData(p) PROVE IInv'
  BY <1>8, LossInvariant
<1>9. ASSUME NEW rel \in ackNet, LoseAck(rel) PROVE IInv'
  BY <1>9, LossInvariant
<1>10. CASE UNCHANGED vars
  BY <1>10 DEF vars, server, network, client, IInv, TypeOK, IsPacket, InOrderDelivery,
               BufferIsTheTail, InFlightIsTrue, NoBadAck, OutstandingIsTimed
<1> QED
  BY <1>1, <1>2, <1>3, <1>4, <1>5, <1>6, <1>7, <1>8, <1>9, <1>10 DEF Next

-----------------------------------------------------------------------------
(* The theorems.                                                           *)

(* All of the safety of the stream at once.                                *)
THEOREM InvariantHolds == Spec => []IInv
BY InitInvariant, StepInvariant, PTL DEF Spec

(* The state of connp keeps its type; in particular connp->c never holds   *)
(* more than it has room for, and rtt_retransmit stays bounded.            *)
THEOREM TypeCorrect == Spec => []TypeOK
<1>1. IInv => TypeOK
  BY DEF IInv
<1> QED
  BY <1>1, InvariantHolds, PTL

(* Send_reliable, Receive_ack and a client that follows the protocol       *)
(* deliver the stream in order and without a gap, and the server drops     *)
(* only what the client has.                                               *)
THEOREM DeliversInOrder == Spec => []InOrderDelivery
<1>1. IInv => InOrderDelivery
  BY DEF IInv
<1> QED
  BY <1>1, InvariantHolds, PTL

(* connp->c is the stream from reliable_offset on, whatever was cut from    *)
(* its front and appended to its end.                                      *)
THEOREM BufferStaysTheTail == Spec => []BufferIsTheTail
<1>1. IInv => BufferIsTheTail
  BY DEF IInv
<1> QED
  BY <1>1, InvariantHolds, PTL

(* No datagram and no acknowledgement becomes untrue while it is under way,*)
(* however long that is.                                                   *)
THEOREM NothingInFlightLies == Spec => []InFlightIsTrue
<1>1. IInv => InFlightIsTrue
  BY DEF IInv
<1> QED
  BY <1>1, InvariantHolds, PTL

(* Receive_ack never takes the "bad ack" exit for such a client.           *)
THEOREM NeverBadAck == Spec => []NoBadAck
<1>1. IInv => NoBadAck
  BY DEF IInv
<1> QED
  BY <1>1, InvariantHolds, PTL

(* Whatever is sent and not acknowledged has a retransmission coming       *)
(* within MAX_RETRANSMIT loops.                                            *)
THEOREM RetransmissionIsArmed == Spec => []OutstandingIsTimed
<1>1. IInv => OutstandingIsTimed
  BY DEF IInv
<1> QED
  BY <1>1, InvariantHolds, PTL

-----------------------------------------------------------------------------
(* The stream implements its promise.                                      *)

LEMMA ReceivedIsPrefix ==
  ASSUME IInv
  PROVE  received = Promise!Prefix(client_pos)
BY DEF IInv, TypeOK, InOrderDelivery, Promise!Prefix

LEMMA PromiseInit == Init => Promise!Init
BY SMT DEF Init, Promise!Init, Promise!Prefix

LEMMA PromiseStep ==
  ASSUME IInv, IInv', [Next]_vars
  PROVE  [Promise!Next]_(Promise!vars)
<1> USE DEF Promise!vars
<1>1. ASSUME NEW n \in WriteSizes, Write(n) PROVE Promise!Append
  <2>1. n \in Nat /\ n > 0 /\ written \in Nat
    BY Numbers, SMT DEF IInv
  <2> QED
    BY <1>1, <2>1, SMT DEF Write, client, Promise!Append
<1>2. ASSUME NEW w, NEW t, NEW s, NEW blocked, SendReliable(w, t, s, blocked)
      PROVE UNCHANGED Promise!vars
  BY <1>2 DEF SendReliable, client
<1>3. CASE IdleLoop
  BY <1>3 DEF IdleLoop, client
<1>4. CASE SendError
  BY <1>4 DEF SendError, client, Promise!Next, Promise!Fail
<1>5. ASSUME NEW rel \in ackNet, ReceiveAck(rel)
      PROVE  Promise!Release \/ UNCHANGED Promise!vars
  <2> DEFINE diff == rel - reliable_offset
  <2>1. UNCHANGED <<written, received, client_pos>> /\ fate = "open"
    BY <1>5 DEF ReceiveAck, client
  <2>2. rel \in Nat /\ rel <= client_pos
    BY DEF IInv, TypeOK, InFlightIsTrue
  <2>3. ~BadAck(diff)
    BY DEF BadAck, IInv, NoBadAck
  <2>4. CASE AckOldData(diff)
    BY <2>1, <2>4 DEF AckOldData
  <2>5. CASE AckNewData(diff)
    <3>1. diff > 0 /\ reliable_offset' = reliable_offset + diff /\ fate' = fate
      BY <2>5 DEF AckNewData
    <3>2. reliable_offset' = rel /\ reliable_offset < rel
      BY <2>2, <3>1, Numbers, SMT DEF IInv
    <3>3. client_pos \in 0..written /\ rel \in 0..written
      BY <2>2, Numbers, SMT DEF IInv, InOrderDelivery
    <3> QED
      BY <2>1, <2>2, <3>1, <3>2, <3>3, ReceivedIsPrefix DEF Promise!Release
  <2> QED
    BY <1>5, <2>3, <2>4, <2>5 DEF ReceiveAck
<1>6. ASSUME NEW p \in data, ClientReceive(p)
      PROVE  Promise!Deliver \/ UNCHANGED Promise!vars
  <2>1. UNCHANGED <<fate, written, reliable_offset>>
    BY <1>6 DEF ClientReceive, server
  <2>2. received = Promise!Prefix(client_pos) /\ received' = Promise!Prefix(client_pos')
    <3>1. received' = Promise!Prefix(client_pos')
      BY DEF IInv, TypeOK, InOrderDelivery, Promise!Prefix
    <3> QED
      BY <3>1, ReceivedIsPrefix
  <2>3. client_pos \in 0..written /\ client_pos' \in 0..written
    <3>1. client_pos' \in Nat /\ client_pos' <= reliable_unsent' /\ reliable_unsent' <= written'
          /\ reliable_unsent' \in Nat /\ written' \in Nat
      BY DEF IInv, TypeOK, InOrderDelivery
    <3> QED
      BY <2>1, <3>1, Numbers, SMT DEF IInv, InOrderDelivery
  <2>4. client_pos <= client_pos'
    <3>1. p.off \in Nat /\ p.len \in 1..PacketSize
      BY DEF IInv, TypeOK, IsPacket
    <3> QED
      BY <1>6, <3>1, Numbers, SMT DEF ClientReceive, Greatest, IInv
  <2>5. CASE client_pos = client_pos'
    BY <2>1, <2>2, <2>5
  <2>6. CASE client_pos # client_pos'
    <3>1. client_pos < client_pos'
      BY <2>3, <2>4, <2>6, SMT
    <3> QED
      BY <2>1, <2>2, <2>3, <3>1 DEF Promise!Deliver
  <2> QED
    BY <2>5, <2>6
<1>7. ASSUME NEW p \in data, LoseData(p) PROVE UNCHANGED Promise!vars
  BY <1>7 DEF LoseData, server, client
<1>8. ASSUME NEW rel \in ackNet, LoseAck(rel) PROVE UNCHANGED Promise!vars
  BY <1>8 DEF LoseAck, server, client
<1>9. CASE UNCHANGED vars
  BY <1>9 DEF vars, server, client
<1> QED
  BY <1>1, <1>2, <1>3, <1>4, <1>5, <1>6, <1>7, <1>8, <1>9
     DEF Next, SendingLoop, SendAtOnce, Promise!Next

(* Every behaviour of Send_reliable and Receive_ack over a network that    *)
(* loses, repeats and reorders datagrams is a behaviour of the promise: a  *)
(* queue that loses nothing and ends only when the server cannot send.     *)
THEOREM ImplementsPromise == Spec => KeepsPromise
<1>1. IInv /\ IInv' /\ [Next]_vars => [Promise!Next]_(Promise!vars)
  BY PromiseStep
<1> QED
  BY <1>1, PromiseInit, InvariantHolds, PTL DEF Spec, KeepsPromise, Promise!Spec
=============================================================================
