----------------------------- MODULE MCPipeline -----------------------------
(***************************************************************************)
(* Small instance of Pipeline for TLC.                                     *)
(*                                                                         *)
(* Widths are cut so that everything wraps: a 16-value counter (gaps of up *)
(* to 7 packets, which outlast a fade of 5; half the range read as late),  *)
(* timestamps that wrap inside a burst, 2 samples per packet in a history  *)
(* ring of 3 slots.                                                        *)
(***************************************************************************)
EXTENDS Pipeline

MCSamples == {-3, 4}
MCAnchors == {29}
=============================================================================
