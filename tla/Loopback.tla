------------------------------ MODULE Loopback ------------------------------
(***************************************************************************)
(* The loopback of reac-pw: frames the playback node sends (SinkNode) are  *)
(* received by the feeder of a capture node, which counts the gaps in the  *)
(* counter (rx_loop in reac_rx.c), decodes the audio (reac_decode.c) and   *)
(* turns it back into samples (feed_frame).                                *)
(***************************************************************************)
EXTENDS SinkNode

VARIABLES
  have_counter, last_counter,  \* rx_loop's locals
  counter_gaps,                \* rx->counter_gaps
  heard,      \* the planar block of the last frame, as feed_frame writes it
  newest,     \* history: which of the frames played it was, -1 for none
  first,      \* history: the first frame received
  received    \* history: frames received

feederVars == <<have_counter, last_counter, counter_gaps, heard, newest, first, received>>
allVars == <<sinkVars, feederVars>>

LoopInit ==
  /\ SinkInit
  /\ have_counter = FALSE /\ last_counter = 0 /\ counter_gaps = 0
  /\ heard = << >> /\ newest = -1 /\ first = -1 /\ received = 0

(* libreac's reac_counter_gap: the frames missing between two counters.    *)
reac_counter_gap(from, to) == (to - from - 1) % TxCounterMod

(* A 24-bit two's complement value, in half units.                         *)
s24le_to_f32(v) == 2 * (IF v > SMax THEN v - WireRange ELSE v)

(* The samples of channel ch are every NChannels-th of the audio.          *)
reac_decode(frame) ==
  [p \in 0 .. NChannels * SamplesPerPkt - 1 |->
     frame.audio[(p % SamplesPerPkt) * NChannels + p \div SamplesPerPkt]]

Gaps(count) ==
  IF have_counter THEN counter_gaps + reac_counter_gap(last_counter, count)
  ELSE counter_gaps

(* One turn of rx_loop.                                                    *)
Receive ==
  /\ air # << >>
  /\ air' = Tail(air)
  /\ LET f == Head(air)
         s24 == reac_decode(f.frame)
     IN  /\ counter_gaps' = Gaps(f.frame.counter)
         /\ last_counter' = f.frame.counter /\ have_counter' = TRUE
         /\ heard' = [p \in DOMAIN s24 |-> s24le_to_f32(s24[p])]
         /\ newest' = f.n
         /\ first' = IF received = 0 THEN f.n ELSE first
         /\ received' = received + 1
  /\ UNCHANGED <<stage, staged, counter, linked, left, fails, pos, muted>>

LoopNext == (SinkNext /\ UNCHANGED feederVars) \/ Receive

LoopSpec == LoopInit /\ [][LoopNext]_allVars

-----------------------------------------------------------------------------
(* What channel ch was given to play as sample i: nothing when it was not  *)
(* linked or is not a channel of the sink.                                 *)
PlayedOn(ch, i) ==
  IF ch \in Ports /\ <<ch, i>> \notin muted THEN Input(ch, i) ELSE 0

(* "an encode->decode round-trip is the identity up to one ULP": every     *)
(* channel hears its own samples, in order and in the frame they belong    *)
(* to, half a unit off at most or clipped to the scale.                    *)
HeardIsPlayed ==
  received > 0 =>
    \A ch \in Chans, s \in Slots :
      LET x == PlayedOn(ch, newest * SamplesPerPkt + s)
          y == heard[ch * SamplesPerPkt + s]
      IN  IF x > 2 * SMax THEN y = 2 * SMax
          ELSE IF x < -2 * (SMax + 1) THEN y = -2 * (SMax + 1)
          ELSE x - 1 <= y /\ y <= x + 1

(* The feeder's counter_gaps is exact: every frame between the first and   *)
(* the newest it received was received or is counted as a gap, so a send   *)
(* that fails shows as a loss at the receiver and as nothing else.         *)
FailedSendsAreGaps ==
  received > 0 => counter_gaps = newest - first + 1 - received
=============================================================================
