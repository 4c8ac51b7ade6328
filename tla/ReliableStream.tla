--------------------------- MODULE ReliableStream ---------------------------
(***************************************************************************)
(* The reliable data stream a server connection piggybacks on its UDP      *)
(* datagrams (netserver.c: Send_reliable, Receive_ack; net.c: the buffer   *)
(* connp->c).  One connection is modelled, with the two directions of the  *)
(* network (datagrams may be lost, duplicated and reordered) and with the  *)
(* client, which is external to the repository and follows the protocol    *)
(* described in the comment that opens netserver.c.                        *)
(*                                                                         *)
(* The k-th unit ever appended to connp->c is the number k, so the stream  *)
(* the client should see is 1, 2, 3, ...                                   *)
(*                                                                         *)
(* Time is relative to main_loops.  retransmit_at_loop is represented by   *)
(* `timer': NoTimer for the value 0, and otherwise the number of loops     *)
(* left, 0 standing for every value that is not in the future;             *)
(* last_send_loops by `sentThisLoop' (last_send_loops = main_loops).       *)
(***************************************************************************)
EXTENDS RetransmitTiming

CONSTANTS
  PacketSize,  \* MAX_RELIABLE_DATA_PACKET_SIZE, in units of stream data
  BufSize,     \* room in connp->c
  WriteSizes,  \* sizes of the packets the server appends to connp->c
  FrameSizes,  \* values of connp->w.len when Send_reliable is called
  Estimates,   \* what the round trip estimator may set the timeout to
  MaxWritten   \* bound: units ever appended to the stream

ASSUME PacketSizeAssumption == PacketSize \in Nat /\ PacketSize >= 2
ASSUME BufSizeAssumption    == BufSize \in Nat
ASSUME WriteSizesAssumption == WriteSizes \subseteq Nat \ {0}
ASSUME FrameSizesAssumption == FrameSizes \subseteq Nat
ASSUME EstimatesAssumption  == Estimates \subseteq MIN_RETRANSMIT..MaxTimeout
ASSUME MaxWrittenAssumption == MaxWritten \in Nat

VARIABLES
  fate,               \* "open", or why the connection was destroyed
  written,            \* history: units ever appended to connp->c
  c_len, c_buf,       \* connp->c: unacknowledged stream data
  reliable_offset,    \* units acknowledged
  reliable_unsent,    \* next unit never sent
  timer,              \* retransmit_at_loop, relative to main_loops
  sentThisLoop,       \* last_send_loops = main_loops
  rtt_retransmit,     \* retransmission timeout, in loops
  acks,               \* good acknowledgements: the send window, less one
  data,               \* PKT_RELIABLE datagrams on their way to the client
  ackNet,             \* PKT_ACK positions on their way to the server
  client_pos,         \* units the client has accepted
  received            \* history: what the client has accepted

server  == <<fate, written, c_len, c_buf, reliable_offset, reliable_unsent,
             timer, sentThisLoop, rtt_retransmit, acks>>
network == <<data, ackNet>>
client  == <<client_pos, received>>
vars    == <<server, network, client>>

NoTimer == -1

Least(a, b)    == IF a <= b THEN a ELSE b
Greatest(a, b) == IF a >= b THEN a ELSE b

\* The n units that follow position a of a buffer.
Slice(buf, a, n) == [i \in 1..n |-> buf[a + i]]

Init ==
  /\ fate = "open"
  /\ written = 0
  /\ c_len = 0
  /\ c_buf = [i \in 1..0 |-> 0]
  /\ reliable_offset = 0
  /\ reliable_unsent = 0
  /\ timer = NoTimer
  /\ sentThisLoop = FALSE
  /\ rtt_retransmit = DEFAULT_RETRANSMIT
  /\ acks = 0
  /\ data = {}
  /\ ackNet = {}
  /\ client_pos = 0
  /\ received = [i \in 1..0 |-> 0]

-----------------------------------------------------------------------------
(* Appending to the stream: Packet_printf(&connp->c, ...) and              *)
(* Sockbuf_write(&connp->c, ...).  A packet that does not fit is not       *)
(* appended at all.                                                        *)

CannotFit(n) == c_len + n > BufSize

Write(n) ==
  /\ fate = "open"
  /\ written + n <= MaxWritten
  /\ ~CannotFit(n)
  /\ written' = written + n
  /\ c_len' = c_len + n
  /\ c_buf' = [i \in 1..(c_len + n) |-> IF i <= c_len THEN c_buf[i]
                                        ELSE written + (i - c_len)]
  /\ UNCHANGED <<fate, reliable_offset, reliable_unsent, timer, sentThisLoop,
                 rtt_retransmit, acks, network, client>>

-----------------------------------------------------------------------------
(* Send_reliable.  w is connp->w.len, the units of frame already in the    *)
(* outgoing datagram, t the value of `timer' in the current loop.          *)

\* How much of connp->c may go out together with w units of frame.
MaxTodo(w) == IF w > 0 THEN Least(c_len, PacketSize - w) ELSE c_len

FrameTooBig(w) == w > 0 /\ w >= PacketSize - 1

\* Mutant: the expiry of the timer is not looked at.
NothingNew(w, t) ==
  \/ MaxTodo(w) <= reliable_unsent - reliable_offset + 1
  \/ w = 0

\* No timeout yet, and nothing new to send or no datagram to add it to.
NotTimeYet(w, t) ==
  /\ t > 0
  /\ \/ MaxTodo(w) <= reliable_unsent - reliable_offset + 1
     \/ w = 0

\* acks once a retransmission timeout has been noticed.
Window(t) == IF t = 0 THEN acks \div 2 ELSE acks

\* The datagrams of one call: the loop stops when the window or the data
\* are used up.
BurstLimit(w, t) ==
  Least(Window(t) + 1, (MaxTodo(w) + PacketSize - 1) \div PacketSize)

\* Mutant: rel_off is not advanced in the loop.
BurstPacketSameOffset(i, w) ==
  LET from == (i - 1) * PacketSize
      len  == Least(PacketSize, MaxTodo(w) - from)
  IN  [off |-> reliable_offset, len |-> len, bytes |-> Slice(c_buf, from, len)]

\* Mutant: read_buf is not advanced in the loop.
BurstPacketSameData(i, w) ==
  LET from == (i - 1) * PacketSize
      len  == Least(PacketSize, MaxTodo(w) - from)
  IN  [off |-> reliable_offset + from, len |-> len, bytes |-> Slice(c_buf, 0, len)]

\* Mutant: what is sent goes out at the position of new data.
BurstPacketAtUnsent(i, w) ==
  LET from == (i - 1) * PacketSize
      len  == Least(PacketSize, MaxTodo(w) - from)
  IN  [off |-> reliable_unsent + from, len |-> len, bytes |-> Slice(c_buf, from, len)]

\* The i-th of them.
BurstPacket(i, w) ==
  LET from == (i - 1) * PacketSize
      len  == Least(PacketSize, MaxTodo(w) - from)
  IN  [off |-> reliable_offset + from, len |-> len, bytes |-> Slice(c_buf, from, len)]

\* send(2) takes n datagrams; when it would block before the last one the
\* window closes.
Burst(w, t, n) ==
  LET done == Least(n * PacketSize, MaxTodo(w)) IN
  /\ data' = data \cup {BurstPacket(i, w) : i \in 1..n}
  /\ acks' = IF n < BurstLimit(w, t) THEN 0 ELSE Window(t)
  /\ IF done > 0
     THEN /\ timer' = ArmedTimeout(rtt_retransmit)
          /\ rtt_retransmit' = TimeoutAfterSend(rtt_retransmit, t <= 0)
          /\ reliable_unsent' = Greatest(reliable_unsent, reliable_offset + done)
     ELSE timer' = t /\ UNCHANGED <<rtt_retransmit, reliable_unsent>>

\* One call of Send_reliable; s says whether this loop has sent before.  Both
\* early returns leave the stream alone; the first one counts as a send.
\* `blocked' is FALSE when send(2) takes every datagram.
SendReliable(w, t, s, blocked) ==
  /\ UNCHANGED <<fate, written, c_len, c_buf, reliable_offset, ackNet, client>>
  /\ IF c_len = 0 \/ s
     THEN /\ sentThisLoop' = TRUE
          /\ timer' = t
          /\ UNCHANGED <<reliable_unsent, rtt_retransmit, acks, data>>
     ELSE IF FrameTooBig(w) \/ NotTimeYet(w, t)
     THEN /\ sentThisLoop' = s
          /\ timer' = t
          /\ UNCHANGED <<reliable_unsent, rtt_retransmit, acks, data>>
     ELSE /\ sentThisLoop' = TRUE
          /\ \E n \in 0..BurstLimit(w, t) :
               /\ blocked <=> n < BurstLimit(w, t)
               /\ Burst(w, t, n)

TimerNextLoop == IF timer > 0 THEN timer - 1 ELSE timer

\* A main loop in which the connection gets its turn to send: in Input while
\* it is logging in (w = 0), in Send_end_of_frame while it is playing.
SendingLoop(w, blocked) ==
  /\ fate = "open"
  /\ c_len > 0
  /\ SendReliable(w, TimerNextLoop, FALSE, blocked)

\* A main loop without: no reliable data, an interpolated loop, a skipped frame.
IdleLoop ==
  /\ fate = "open"
  /\ timer' = TimerNextLoop
  /\ sentThisLoop' = FALSE
  /\ UNCHANGED <<fate, written, c_len, c_buf, reliable_offset, reliable_unsent,
                 rtt_retransmit, acks, network, client>>

\* Outside the loop's turn: Receive_play when PKT_PLAY is repeated, and
\* Handle_listening with its reply.
SendAtOnce(blocked) ==
  /\ fate = "open"
  /\ SendReliable(0, timer, sentThisLoop, blocked)

\* The socket fails for good: Destroy_connection.
SendError ==
  /\ fate = "open"
  /\ c_len > 0
  /\ fate' = "send error"
  /\ UNCHANGED <<written, c_len, c_buf, reliable_offset, reliable_unsent, timer,
                 sentThisLoop, rtt_retransmit, acks, network, client>>

-----------------------------------------------------------------------------
(* Receive_ack.                                                            *)

\* The window after an acknowledgement of diff new units.
WindowAfterAck(diff) ==
  LET n == (diff + (PacketSize \div 2) - 1) \div (PacketSize \div 2)
  IN  IF n > acks THEN n ELSE acks + 1

\* Any acknowledgement may carry a usable round trip time, a late one too;
\* module RttEstimator has what becomes of it.
MeasureRtt == rtt_retransmit' \in {rtt_retransmit} \cup Estimates

\* Mutant: an acknowledgement of everything is refused.
AckOfAll(diff) == diff >= c_len

AckTooFar(diff) == diff > c_len

\* Mutant: Sockbuf_advance cuts the wrong end.
AckCutsTheEnd(diff) ==
  /\ diff > 0
  /\ ~AckTooFar(diff)
  /\ c_len' = c_len - diff
  /\ c_buf' = Slice(c_buf, 0, c_len - diff)
  /\ reliable_offset' = reliable_offset + diff
  /\ acks' = WindowAfterAck(diff)
  /\ timer' = IF reliable_offset + diff >= reliable_unsent THEN NoTimer ELSE timer
  /\ UNCHANGED fate

\* Mutant: every acknowledgement of new data switches the timer off.
AckStopsTimer(diff) ==
  /\ diff > 0
  /\ ~AckTooFar(diff)
  /\ c_len' = c_len - diff
  /\ c_buf' = Slice(c_buf, diff, c_len - diff)
  /\ reliable_offset' = reliable_offset + diff
  /\ acks' = WindowAfterAck(diff)
  /\ timer' = NoTimer
  /\ UNCHANGED fate

AckNewData(diff) ==
  /\ diff > 0
  /\ ~AckTooFar(diff)
  /\ c_len' = c_len - diff
  /\ c_buf' = Slice(c_buf, diff, c_len - diff)
  /\ reliable_offset' = reliable_offset + diff
  /\ acks' = WindowAfterAck(diff)
  /\ timer' = IF reliable_offset + diff >= reliable_unsent THEN NoTimer ELSE timer
  /\ UNCHANGED fate

AckOldData(diff) ==
  /\ diff <= 0
  /\ UNCHANGED <<fate, c_len, c_buf, reliable_offset, acks, timer>>

BadAck(diff) ==
  /\ AckTooFar(diff)
  /\ fate' = "bad ack"
  /\ UNCHANGED <<c_len, c_buf, reliable_offset, acks, timer>>

\* A duplicating network keeps the datagram.
ReceiveAck(rel) ==
  /\ fate = "open"
  /\ MeasureRtt
  /\ LET diff == rel - reliable_offset IN
       AckNewData(diff) \/ AckOldData(diff) \/ BadAck(diff)
  /\ ackNet' \in {ackNet, ackNet \ {rel}}
  /\ UNCHANGED <<written, reliable_unsent, sentThisLoop, data, client>>

-----------------------------------------------------------------------------
(* The client and the network: external.                                   *)

\* A gap: the client discards the packet and repeats its position.  Otherwise
\* it takes what is new and acknowledges its new position.
ClientReceive(p) ==
  LET end == p.off + p.len
      new == IF p.off <= client_pos THEN Greatest(client_pos, end) ELSE client_pos
  IN
  /\ client_pos' = new
  /\ received' = [i \in 1..new |-> IF i <= client_pos THEN received[i]
                                   ELSE p.bytes[i - p.off]]
  /\ ackNet' = ackNet \cup {new}
  /\ data' \in {data, data \ {p}}
  /\ UNCHANGED server

LoseData(p) ==
  /\ data' = data \ {p}
  /\ UNCHANGED <<server, ackNet, client>>

LoseAck(rel) ==
  /\ ackNet' = ackNet \ {rel}
  /\ UNCHANGED <<server, data, client>>

-----------------------------------------------------------------------------

Next ==
  \/ \E n \in WriteSizes : Write(n)
  \/ \E w \in FrameSizes, blocked \in BOOLEAN : SendingLoop(w, blocked)
  \/ IdleLoop
  \/ \E blocked \in BOOLEAN : SendAtOnce(blocked)
  \/ SendError
  \/ \E rel \in ackNet : ReceiveAck(rel)
  \/ \E p \in data : ClientReceive(p) \/ LoseData(p)
  \/ \E rel \in ackNet : LoseAck(rel)

Spec == Init /\ [][Next]_vars

-----------------------------------------------------------------------------
(* Fairness: the timer signal keeps the main loop running; frames with     *)
(* room for reliable data keep coming and the socket does not block for    *)
(* ever; of datagrams that keep being sent one is delivered in the end.    *)

RoomyLoop == \E w \in FrameSizes : ~FrameTooBig(w) /\ SendingLoop(w, FALSE)

NewAck(rel) == rel > reliable_offset /\ ReceiveAck(rel)

\* A datagram that moves the client on, or that makes it repeat an
\* acknowledgement the server has not seen.
NewData(p) == p.off <= client_pos /\ p.off + p.len > reliable_offset /\ ClientReceive(p)

Fairness ==
  /\ WF_vars(RoomyLoop)
  /\ SF_vars(\E p \in data : NewData(p))
  /\ SF_vars(\E rel \in ackNet : NewAck(rel))

FairSpec == Spec /\ Fairness

-----------------------------------------------------------------------------
(* Properties.                                                             *)

IsPacket(p) ==
  /\ p = [off |-> p.off, len |-> p.len, bytes |-> p.bytes]
  /\ p.off \in Nat
  /\ p.len \in 1..PacketSize
  /\ p.bytes \in [1..p.len -> Nat]

TypeOK ==
  /\ fate \in {"open", "send error", "bad ack"}
  /\ written \in Nat
  /\ c_len \in 0..BufSize
  /\ c_buf \in [1..c_len -> Nat]
  /\ reliable_offset \in Nat
  /\ reliable_unsent \in Nat
  /\ timer \in Nat \cup {NoTimer}
  /\ sentThisLoop \in BOOLEAN
  /\ rtt_retransmit \in 0..MaxTimeout
  /\ acks \in Nat
  /\ \A p \in data : IsPacket(p)
  /\ ackNet \subseteq Nat
  /\ client_pos \in Nat
  /\ received \in [1..client_pos -> Nat]

(* However datagrams are lost, repeated and reordered, and however the     *)
(* bursts, the piggybacked remainders and the retransmissions cut the      *)
(* stream, the client accepts exactly its first client_pos units, and the  *)
(* server drops from connp->c only what the client has.                    *)
InOrderDelivery ==
  /\ client_pos <= reliable_unsent
  /\ reliable_unsent <= written
  /\ \A i \in 1..client_pos : received[i] = i
  /\ reliable_offset <= client_pos

(* Whatever is in connp->c is the stream from reliable_offset on: offset   *)
(* and buffer are advanced together, and nothing that was written is lost  *)
(* between them.                                                           *)
BufferIsTheTail ==
  /\ c_len = written - reliable_offset
  /\ \A i \in 1..c_len : c_buf[i] = reliable_offset + i

(* Every datagram and every acknowledgement in flight, however old, is     *)
(* still true: the datagram carries the part of the stream its position    *)
(* says, the acknowledged units are with the client.                       *)
InFlightIsTrue ==
  /\ \A p \in data : p.off + p.len <= reliable_unsent
  /\ \A p \in data : \A i \in 1..p.len : p.bytes[i] = p.off + i
  /\ \A rel \in ackNet : rel <= client_pos

(* A client that follows the protocol is never destroyed with "bad ack",   *)
(* though its acknowledgements arrive late, twice and out of order.        *)
NoBadAck == fate # "bad ack"

(* Data that was sent and is not acknowledged always has a retransmission  *)
(* coming, within MAX_RETRANSMIT loops: an acknowledgement that covers     *)
(* only a part of it does not switch the timer off.                        *)
OutstandingIsTimed ==
  /\ reliable_unsent > reliable_offset => timer # NoTimer
  /\ timer <= MAX_RETRANSMIT

(* The stream implements the promise.                                      *)
Promise == INSTANCE StreamPromise
  WITH delivered <- received, released <- reliable_offset

KeepsPromise == Promise!Spec

(* As long as the connection lives, what is written is acknowledged and    *)
(* leaves connp->c in the end.                                             *)
EverythingIsAcknowledged ==
  \A n \in 1..MaxWritten :
    (written >= n) ~> (reliable_offset >= n \/ fate # "open")
=============================================================================
