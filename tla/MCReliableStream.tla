-------------------------- MODULE MCReliableStream --------------------------
(* Datagrams of three units, so that four units of stream need a burst of  *)
(* two; frames that leave room for all, for a part and for none of it.  At *)
(* most two datagrams are under way in each direction.                     *)
EXTENDS ReliableStream, FiniteSets

MCWriteSizes     == {1, 4}
MCWriteSizesLive == {1, 2}
MCFrameSizes     == {0, 1, 2}
MCEstimates      == {MIN_RETRANSMIT}

FewInFlight == Cardinality(data) <= 2 /\ Cardinality(ackNet) <= 2
=============================================================================
