------------------------------- MODULE MCRing -------------------------------
(***************************************************************************)
(* Small instance of ReacRing for TLC: four slots, two channels, blocks    *)
(* and quanta of different lengths, so that the cursors wrap, the ring     *)
(* runs full and empty, and the trim fires.                                *)
(***************************************************************************)
EXTENDS ReacRing

MCBlocks  == {1, 2, 3}
MCQuanta  == {1, 2}
=============================================================================
