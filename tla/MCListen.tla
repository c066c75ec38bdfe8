------------------------------ MODULE MCListen ------------------------------
(***************************************************************************)
(* Small instances of Listen for TLC: a socket of one frame, which         *)
(* overflows, and unicast frames whose counters lie among the broadcast's. *)
(***************************************************************************)
EXTENDS Listen

MCUpCounters == {1, 2}
=============================================================================
