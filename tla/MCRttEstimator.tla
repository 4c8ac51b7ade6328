--------------------------- MODULE MCRttEstimator ---------------------------
(* Eight loops a second; every usable round trip time and both ways of      *)
(* being out of range.                                                     *)
EXTENDS RttEstimator

MCRtts == -1..(Fps + 2)
=============================================================================
