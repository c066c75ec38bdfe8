------------------------------- MODULE MCWire -------------------------------
(***************************************************************************)
(* Small instance of GenlockedWire for TLC: an 8-value counter, so that it *)
(* wraps within the frames delivered and half a period fits in them.  The  *)
(* audio plays no part in these questions and has one value.               *)
(***************************************************************************)
EXTENDS GenlockedWire

MCSamples == {1}
MCAnchors == {5}
=============================================================================
