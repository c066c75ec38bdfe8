----------------------------- MODULE MCLoopback -----------------------------
(***************************************************************************)
(* Small instance of Loopback for TLC: frames of three samples and quanta  *)
(* of two and four, so that a cycle may fill no frame, one or two; a       *)
(* counter of three values that wraps; levels on both sides of the scale.   *)
(***************************************************************************)
EXTENDS Loopback

MCQuanta == {2, 4}
(* Every value from -11 to 11 half units on a scale from -10 to 8, and     *)
(* different ones on the two channels.                                     *)
MCInput(c, i) == ((7 * i + 5 * c) % 23) - 11
=============================================================================
