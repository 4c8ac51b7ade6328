---------------------------- MODULE RttEstimator ----------------------------
(***************************************************************************)
(* The round trip estimator of a connection: the first half of Receive_ack *)
(* and the backoff at the end of Send_reliable (netserver.c).              *)
(*                                                                         *)
(* rtt_smoothed is the smoothed round trip time times 8, rtt_dev the       *)
(* smoothed deviation times 4; rtt_smoothed = 0 also means that nothing    *)
(* has been measured yet.                                                  *)
(***************************************************************************)
EXTENDS RetransmitTiming

\* Values of main_loops - rel_loops: the client echoes rel_loops, and a
\* late or a wrong echo gives a round trip time that is out of range.
CONSTANT Rtts

ASSUME RttsAssumption == Rtts \subseteq Int

VARIABLES rtt_smoothed, rtt_dev, rtt_retransmit

vars == <<rtt_smoothed, rtt_dev, rtt_retransmit>>

Init ==
  /\ rtt_smoothed = 0
  /\ rtt_dev = 0
  /\ rtt_retransmit = DEFAULT_RETRANSMIT

Usable(rtt) == rtt > 0 /\ rtt <= MAX_RTT

\* Mutant: the first measurement is taken as any other.
FirstIsNotSpecial(rtt) == rtt_smoothed

\* The estimate a new measurement is compared with.
PriorEstimate(rtt) == IF rtt_smoothed = 0 THEN 8 * rtt ELSE rtt_smoothed

\* Mutant: scaled back by 2 bits instead of 3.
ErrorOfWrongScale(rtt) == rtt - (PriorEstimate(rtt) \div 4)

Error(rtt) == rtt - (PriorEstimate(rtt) \div 8)

AbsoluteError(rtt) == IF Error(rtt) < 0 THEN -Error(rtt) ELSE Error(rtt)

\* Receive_ack, up to the test of the acknowledged position.
Measure(rtt) ==
  /\ Usable(rtt)
  /\ rtt_smoothed' = PriorEstimate(rtt) + Error(rtt)
  /\ rtt_dev' = rtt_dev + AbsoluteError(rtt) - (rtt_dev \div 4)
  /\ LET timeout == ((rtt_smoothed' \div 4) + rtt_dev') \div 2 IN
       rtt_retransmit' = IF timeout < MIN_RETRANSMIT THEN MIN_RETRANSMIT ELSE timeout

\* Receive_ack with a round trip time it cannot use.
Ignore(rtt) == ~Usable(rtt) /\ UNCHANGED vars

\* Send_reliable.
Transmit(expired) ==
  /\ rtt_retransmit' = TimeoutAfterSend(rtt_retransmit, expired)
  /\ UNCHANGED <<rtt_smoothed, rtt_dev>>

Next ==
  \/ \E rtt \in Rtts : Measure(rtt) \/ Ignore(rtt)
  \/ \E expired \in BOOLEAN : Transmit(expired)

Spec == Init /\ [][Next]_vars

-----------------------------------------------------------------------------

(* The three numbers are natural numbers; bounds are stated below.         *)
TypeOK ==
  /\ rtt_smoothed \in Nat
  /\ rtt_dev \in Nat
  /\ rtt_retransmit \in Nat

(* However measurements and timeouts alternate, the estimator stays in     *)
(* range: once it has measured something it never falls back to the value  *)
(* 0 that means `nothing measured', it never estimates a round trip longer *)
(* than MAX_RTT, its deviation never exceeds what one full swing can give, *)
(* and no timeout is longer than MaxTimeout.                               *)
EstimatorInRange ==
  /\ rtt_smoothed = 0 \/ rtt_smoothed \in 8..(8 * MAX_RTT)
  /\ rtt_smoothed = 0 => rtt_dev = 0
  /\ rtt_dev \in 0..(4 * (MAX_RTT - 1))
  /\ rtt_retransmit \in 0..MaxTimeout

(* What the estimator is for: when the round trip time settles at rtt, the *)
(* timeout settles between rtt and rtt + 2 loops (never below              *)
(* MIN_RETRANSMIT), whatever was measured before.  A shorter timeout would *)
(* retransmit what is being acknowledged, a longer one wastes loops.       *)
SettlesAt(rtt) ==
  LET low == IF rtt < MIN_RETRANSMIT THEN MIN_RETRANSMIT ELSE rtt IN
    (<>[][Measure(rtt)]_vars /\ WF_vars(Measure(rtt)))
      => <>[](rtt_retransmit \in low..(IF low > rtt + 2 THEN low ELSE rtt + 2))

TracksTheRoundTrip == \A rtt \in {r \in Rtts : Usable(r)} : SettlesAt(rtt)
=============================================================================
