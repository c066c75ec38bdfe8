------------------------------ MODULE MCDante -------------------------------
(***************************************************************************)
(* Small instance of Dante for TLC: windows of three frames against bursts *)
(* of up to four, so that a burst may fill several windows or none, three  *)
(* channels in flows of two and one, everything wrapping.  The values of   *)
(* the samples play no part here.                                          *)
(***************************************************************************)
EXTENDS Dante

MCSamples == {1}
MCAnchors == {13}
=============================================================================
