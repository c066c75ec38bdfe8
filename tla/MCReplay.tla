------------------------------ MODULE MCReplay ------------------------------
(***************************************************************************)
(* Small instance of Replay for TLC: counters of 8, a frame every 2 units, *)
(* windows of 4 frames.  The files: losses over a wrap of the counter      *)
(* between records of every harmless kind; one cut off; one with a record  *)
(* of length zero; a repeated frame and one that is late; no capture       *)
(* times; a slow desk, with a loss; a fast one, whose times are uneven and *)
(* run backwards; one whose times lie before the first by more than the    *)
(* uptime.                                                                 *)
(***************************************************************************)
EXTENDS Replay

At(n)     == [kind |-> "frame", n |-> n, ts |-> 2 * n]
Late(n, t) == [kind |-> "frame", n |-> n, ts |-> t]
Junk(k)   == [kind |-> k, n |-> 0, ts |-> 0]
Pcap(m, r) == [magic |-> m, recs |-> r]

MCFiles == {
  Pcap("native",  <<At(5), Junk("big"), At(6), Junk("other"), At(9), At(12)>>),
  Pcap("swapped", <<Junk("other"), At(3), At(10), At(11), Junk("cut")>>),
  Pcap("native",  <<At(4), At(8), Junk("empty"), At(9)>>),
  Pcap("native",  <<At(6), At(7), Late(7, 15), Late(6, 20)>>),
  Pcap("native",  <<Late(2, 0)>>),
  Pcap("native",  <<Late(4, 12), Late(5, 15), Late(7, 21)>>),
  Pcap("swapped", <<Late(4, 9), Late(5, 8), Late(13, 18)>>),
  Pcap("native",  <<Late(4, 9), Late(5, 3)>>)}
=============================================================================
