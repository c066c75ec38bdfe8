----------------------------- MODULE MediaClock -----------------------------
(***************************************************************************)
(* The per-stream media clock of the sender (src/src/media_clock.c).       *)
(*                                                                         *)
(* The clock turns the 16-bit l2_counter of the received REAC frames into  *)
(* RTP timestamps (a 32-bit running sample count) and into the number of   *)
(* packets that were lost before a frame.  It is a plain struct that one   *)
(* thread owns, so it is modelled by operators on a record; Pipeline holds *)
(* the record in a variable.                                               *)
(***************************************************************************)
EXTENDS ReacMode

CONSTANTS CounterMod,     \* values of the wire counter (2^16 in the code)
          TsMod           \* values of an RTP timestamp (2^32 in the code)

(* The counter is an unsigned integer of at least two bits: its upper half *)
(* is read as negative.                                                    *)
ASSUME ClockAssumption ==
  /\ CounterMod \in Nat /\ CounterMod > 1 /\ CounterMod % 2 = 0
  /\ TsMod \in Nat \ {0}

Counters   == 0 .. CounterMod - 1
Timestamps == 0 .. TsMod - 1
HalfRange  == CounterMod \div 2

(* struct media_clock; samples_per_pkt never changes and is the constant.  *)
Clocks == [rtp_ts       : Timestamps,
           anchor       : Timestamps,
           last_counter : Counters,
           started      : BOOLEAN,
           total_lost   : Nat]

media_clock_init_anchored(anchor) ==
  [rtp_ts |-> anchor, anchor |-> anchor, last_counter |-> 0,
   started |-> FALSE, total_lost |-> 0]

(* Fault: the distance is left unsigned.                                   *)
UnsignedDelta(counter, last) == (counter - last - 1) % CounterMod

(* The distance from the expected counter, last + 1, read as a signed      *)
(* integer of the counter's width: 0 for the next frame, positive after a  *)
(* loss, negative for a duplicate or a late frame.                         *)
SignedDelta(counter, last) ==
  LET u == (counter - last - 1) % CounterMod
  IN  IF u < HalfRange THEN u ELSE u - CounterMod

(* Fault: the first frame is not told from a later one.                    *)
LostBeforeStart(mc, counter) ==
  LET delta == SignedDelta(counter, mc.last_counter)
  IN  IF delta > 0 THEN delta ELSE 0

(* silence_packets: how many packets were lost before this frame.          *)
LostBefore(mc, counter) ==
  LET delta == SignedDelta(counter, mc.last_counter)
  IN  IF mc.started /\ delta > 0 THEN delta ELSE 0

(* Fault: the high-water counter follows late frames back.                 *)
NeverLate(mc, counter) == FALSE

(* Fault: the expected counter itself is taken for a late one.             *)
LateWhenNext(mc, counter) ==
  mc.started /\ SignedDelta(counter, mc.last_counter) <= 0

(* A duplicate or late frame takes the next slot of the timeline and       *)
(* leaves the high-water counter where it is.                              *)
IsLate(mc, counter) ==
  mc.started /\ SignedDelta(counter, mc.last_counter) < 0

(* Faults: the timestamp does not skip what was lost; total_lost counts    *)
(* gaps and not packets.                                                   *)
StepIgnoringLoss(mc, counter) ==
  [mc EXCEPT
     !.started      = TRUE,
     !.rtp_ts       = IF mc.started THEN (@ + SamplesPerPkt) % TsMod ELSE mc.anchor,
     !.last_counter = IF IsLate(mc, counter) THEN @ ELSE counter,
     !.total_lost   = @ + LostBefore(mc, counter)]

StepCountingGaps(mc, counter) ==
  LET lost == LostBefore(mc, counter)
  IN  [mc EXCEPT
         !.started      = TRUE,
         !.rtp_ts       = IF mc.started
                          THEN (@ + (lost + 1) * SamplesPerPkt) % TsMod ELSE mc.anchor,
         !.last_counter = IF IsLate(mc, counter) THEN @ ELSE counter,
         !.total_lost   = IF lost > 0 THEN @ + 1 ELSE @]

(* The clock after media_clock_on_packet; its rtp_ts is the timestamp the  *)
(* step returns for this frame.                                            *)
media_clock_on_packet(mc, counter) ==
  LET lost == LostBefore(mc, counter)
  IN  [mc EXCEPT
         !.started      = TRUE,
         !.rtp_ts       = IF mc.started
                          THEN (@ + (lost + 1) * SamplesPerPkt) % TsMod
                          ELSE mc.anchor,
         !.last_counter = IF IsLate(mc, counter) THEN @ ELSE counter,
         !.total_lost   = @ + lost]
=============================================================================
