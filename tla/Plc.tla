-------------------------------- MODULE Plc ---------------------------------
(***************************************************************************)
(* Packet loss concealment (src/src/plc.c), for one channel.               *)
(*                                                                         *)
(* plc_observe pushes the same number of samples into every channel and    *)
(* plc_conceal treats every channel alike, so the rings of all channels    *)
(* have the same head and filled and one channel stands for all of them.   *)
(* A packet of a channel is the sequence of its SamplesPerPkt samples.     *)
(***************************************************************************)
EXTENDS ReacMode, Sequences

CONSTANTS HistSamples,    \* PLC_HIST_SAMPLES: slots of the history ring (40)
          OptXfade,       \* the --plc-xfade option (<= 0: the default)
          OptFade,        \* the --plc-fade option (<= 0: the default)
          Q15,            \* unit gain (32768)
          IntMax,         \* INT_MAX (2147483647)
          SMax,           \* the largest sample (8388607)
          Samples         \* the sample values frames carry

ASSUME PlcAssumption ==
  /\ HistSamples \in Nat /\ SamplesPerPkt <= HistSamples
  /\ OptXfade \in Int /\ OptFade \in Int
  /\ Q15 \in Nat \ {0} /\ IntMax \in Nat
  /\ SMax \in Nat
  /\ Samples \subseteq (-SMax - 1) .. SMax

Packets == [1 .. SamplesPerPkt -> Samples]
Slots   == 0 .. HistSamples - 1

(* struct plc_chan                                                         *)
PlcChannels == [hist : [Slots -> Int], head : Slots, filled : 0 .. HistSamples]

(* The tuning plc_init derives from the two options.                       *)
XfadeW ==
  LET w == IF OptXfade > 0 THEN OptXfade
           ELSE IF SamplesPerPkt < 8 THEN SamplesPerPkt ELSE 8
  IN  IF w > SamplesPerPkt THEN SamplesPerPkt ELSE w

FadePackets     == IF OptFade > 0 THEN OptFade ELSE 200
FadeFlatPackets == FadePackets \div 5

plc_init == [hist |-> [i \in Slots |-> 0], head |-> 0, filled |-> 0]

(* Fault: the newest sample is looked for at head, one slot too far.       *)
HistAtHead(c, back) ==
  IF back >= c.filled THEN 0 ELSE c.hist[(c.head - back) % HistSamples]

(* The back-th newest sample, 0 for the newest one.                        *)
hist_at(c, back) ==
  IF back >= c.filled THEN 0 ELSE c.hist[(c.head - 1 - back) % HistSamples]

(* Fault: filled keeps counting when the ring is full.                     *)
ObserveUncapped(c, pcm) ==
  [hist   |-> [i \in Slots |->
                 LET s == (i - c.head) % HistSamples
                 IN  IF s < SamplesPerPkt THEN pcm[s + 1] ELSE c.hist[i]],
   head   |-> (c.head + SamplesPerPkt) % HistSamples,
   filled |-> c.filled + SamplesPerPkt]

(* SamplesPerPkt pushes: sample s of the packet lands s slots after head.  *)
plc_observe(c, pcm) ==
  [hist   |-> [i \in Slots |->
                 LET s == (i - c.head) % HistSamples
                 IN  IF s < SamplesPerPkt THEN pcm[s + 1] ELSE c.hist[i]],
   head   |-> (c.head + SamplesPerPkt) % HistSamples,
   filled |-> IF c.filled + SamplesPerPkt < HistSamples
              THEN c.filled + SamplesPerPkt ELSE HistSamples]

(* A product that left the range of int.  The overflow is undefined, and   *)
(* the processors this is built for keep the low bits: it wraps.           *)
WrapInt(v) == ((v + IntMax + 1) % (2 * (IntMax + 1))) - (IntMax + 1)

(* The division of C, which rounds towards zero.                           *)
Quotient(a, b) == IF a < 0 THEN -((-a) \div b) ELSE a \div b

(* Fault: the ramp does not stop at zero.                                  *)
GainWithoutFloor(k) ==
  LET span == FadePackets - FadeFlatPackets
      into == k - FadeFlatPackets
  IN  IF k <= FadeFlatPackets THEN Q15
      ELSE Quotient(WrapInt(Q15 * (span - into)), span)

(* Gain of the k-th packet of a burst: flat, then linear down to zero, the *)
(* product in the 32 bits of an int.                                       *)
burst_gain_q15(k) ==
  LET span == FadePackets - FadeFlatPackets
      into == k - FadeFlatPackets
  IN  IF k <= FadeFlatPackets THEN Q15
      ELSE IF k >= FadePackets THEN 0
      ELSE Quotient(WrapInt(Q15 * (span - into)), span)

(* The fades whose products fit an int: up to 81920 packets.  --plc-fade   *)
(* is not checked against it.                                              *)
FadeFits == Q15 * (FadePackets - FadeFlatPackets - 1) <= IntMax

(* The arithmetic shift by 15 rounds towards minus infinity, as \div does. *)
Scale(x, gain) == (x * gain) \div Q15

store24(x) == IF x > SMax THEN SMax ELSE IF x < -SMax - 1 THEN -SMax - 1 ELSE x

TierRepeatXfade == 0
TierBurstFade   == 1
TierHoldLast    == 2
TierSilence     == 3

(* Sample s (from 0) of the crossfade of packet sub, which starts near the *)
(* last real sample and reaches sub itself after XfadeW samples.           *)
Crossfade(last, sub, s) ==
  LET a == ((s + 1) * Q15) \div (XfadeW + 1)
  IN  IF s < XfadeW THEN (last * (Q15 - a) + sub * a) \div Q15 ELSE sub

(* The tier plc_conceal answers with.                                      *)
ConcealTier(c, loss_index) ==
  IF c.filled = 0 THEN TierSilence
  ELSE IF c.filled < SamplesPerPkt THEN TierHoldLast
  ELSE IF loss_index = 0 THEN TierRepeatXfade
  ELSE TierBurstFade

(* The packet plc_conceal writes for the loss_index-th lost packet in a    *)
(* row.  It reads the history and does not change it.                      *)
plc_conceal(c, loss_index) ==
  LET tier == ConcealTier(c, loss_index)
      gain == burst_gain_q15(loss_index)
      sub(s) == hist_at(c, SamplesPerPkt - 1 - s)
      out(s) == CASE tier = TierSilence     -> 0
                  [] tier = TierHoldLast    -> Scale(hist_at(c, 0), gain)
                  [] tier = TierRepeatXfade -> Crossfade(hist_at(c, 0), sub(s), s)
                  [] tier = TierBurstFade   -> Scale(sub(s), gain)
  IN  [i \in 1 .. SamplesPerPkt |-> store24(out(i - 1))]
=============================================================================
