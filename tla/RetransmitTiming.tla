-------------------------- MODULE RetransmitTiming --------------------------
(***************************************************************************)
(* The bounds of the retransmission timeout (netserver.h) and the          *)
(* exponential backoff of Send_reliable (netserver.c), shared by the round *)
(* trip estimator and by the reliable stream that uses it.  All times are  *)
(* in main loops.                                                          *)
(***************************************************************************)
EXTENDS Integers

CONSTANT Fps  \* the option framesPerSecond: main loops in a second

ASSUME FpsAssumption == Fps \in Nat \ {0}

MIN_RETRANSMIT     == (Fps \div 8) + 1
MAX_RETRANSMIT     == Fps + 1
DEFAULT_RETRANSMIT == Fps \div 2
MAX_RTT            == Fps + 1

\* The largest value rtt_retransmit ever has: checked in MCRttEstimator and
\* proved in ServerProofs.  A doubled timeout is never longer.
MaxTimeout == 3 * MAX_RTT - 2

\* The timeout Send_reliable arms its timer with.
ArmedTimeout(rtt) == IF rtt > MAX_RETRANSMIT THEN MAX_RETRANSMIT ELSE rtt

\* rtt_retransmit after that: doubled when the timer had expired or was off.
TimeoutAfterSend(rtt, expired) ==
  IF expired THEN 2 * ArmedTimeout(rtt) ELSE ArmedTimeout(rtt)
=============================================================================
