--------------------------- MODULE PipelineProofs ---------------------------
(***************************************************************************)
(* Proofs about Pipeline, for every counter width, timestamp width, packet *)
(* size and every sequence of frames; and about GenlockedWire, which feeds *)
(* it, for every gap and every reordering within half a counter period and *)
(* any number of restarts of the master.                                   *)
(***************************************************************************)
EXTENDS GenlockedWire, ModArith

-----------------------------------------------------------------------------
(* What the operators return.                                              *)

(* The signed distance of two counters lies in the signed range.           *)
LEMMA SignedDeltaRange ==
  ASSUME NEW counter \in Counters, NEW last \in Counters
  PROVE  SignedDelta(counter, last) \in -HalfRange .. HalfRange - 1
<1> DEFINE u == (counter - last - 1) % CounterMod
<1>1. CounterMod \in Nat \ {0}
  BY ClockAssumption
<1>2. counter - last - 1 \in Int
  BY <1>1 DEF Counters
<1>3. u \in 0 .. CounterMod - 1
  BY <1>1, <1>2, DivMod
<1>4. HalfRange \in Nat /\ CounterMod = HalfRange + HalfRange
  BY ClockAssumption DEF HalfRange
<1> HIDE DEF u
<1>5. (IF u < HalfRange THEN u ELSE u - CounterMod) \in -HalfRange .. HalfRange - 1
  BY <1>3, <1>4
<1> QED
  BY <1>5 DEF SignedDelta, u

(* Fewer than half a counter period of packets are lost before a frame.    *)
LEMMA LostBeforeRange ==
  ASSUME NEW mc \in Clocks, NEW counter \in Counters
  PROVE  /\ LostBefore(mc, counter) \in Nat
         /\ LostBefore(mc, counter) < HalfRange
         /\ ~mc.started => LostBefore(mc, counter) = 0
<1>1. mc.last_counter \in Counters /\ mc.started \in BOOLEAN
  BY DEF Clocks
<1>2. SignedDelta(counter, mc.last_counter) \in -HalfRange .. HalfRange - 1
  BY <1>1, SignedDeltaRange
<1>3. HalfRange \in Nat /\ HalfRange > 0
  BY ClockAssumption DEF HalfRange
<1> QED
  BY <1>1, <1>2, <1>3 DEF LostBefore

(* A step of the clock is typed, starts the clock, keeps the anchor and    *)
(* counts the losses it reports.                                           *)
LEMMA ClockStep ==
  ASSUME NEW mc \in Clocks, NEW counter \in Counters
  PROVE  LET next == media_clock_on_packet(mc, counter)
             lost == LostBefore(mc, counter)
         IN  /\ next \in Clocks
             /\ next.started
             /\ next.anchor = mc.anchor
             /\ next.total_lost = mc.total_lost + lost
             /\ next.rtp_ts = IF mc.started
                              THEN (mc.rtp_ts + (lost + 1) * SamplesPerPkt) % TsMod
                              ELSE mc.anchor
<1> DEFINE lost == LostBefore(mc, counter)
           ts   == (mc.rtp_ts + (lost + 1) * SamplesPerPkt) % TsMod
<1>1. lost \in Nat
  BY LostBeforeRange
<1>2. TsMod \in Nat \ {0} /\ SamplesPerPkt \in Nat
  BY ClockAssumption, ModeAssumption
<1>3. mc.rtp_ts + (lost + 1) * SamplesPerPkt \in Int
  BY <1>1, <1>2 DEF Clocks, Timestamps
<1>4. ts \in Timestamps
  BY <1>2, <1>3, DivMod DEF Timestamps
<1> HIDE DEF ts, lost
<1>5. media_clock_on_packet(mc, counter) =
        [mc EXCEPT !.started = TRUE,
                   !.rtp_ts = IF mc.started THEN ts ELSE mc.anchor,
                   !.last_counter = IF IsLate(mc, counter) THEN @ ELSE counter,
                   !.total_lost = @ + lost]
  BY DEF media_clock_on_packet, ts, lost
<1>6. /\ mc.anchor \in Timestamps /\ mc.last_counter \in Counters
      /\ mc.total_lost \in Nat /\ mc.started \in BOOLEAN
  BY DEF Clocks
<1>7. mc.total_lost + lost \in Nat
  BY <1>1, <1>6
<1> QED
  BY <1>4, <1>5, <1>6, <1>7 DEF Clocks, ts, lost

(* Observing a packet keeps the ring typed and leaves at least that packet *)
(* in it.                                                                  *)
LEMMA ObserveType ==
  ASSUME NEW c \in PlcChannels, NEW pcm \in Packets
  PROVE  /\ plc_observe(c, pcm) \in PlcChannels
         /\ plc_observe(c, pcm).filled >= SamplesPerPkt
<1> DEFINE off(i) == (i - c.head) % HistSamples
<1>1. /\ HistSamples \in Nat \ {0} /\ SamplesPerPkt \in Nat \ {0}
      /\ SamplesPerPkt <= HistSamples
  BY PlcAssumption, ModeAssumption
<1>2. c.head \in Slots /\ c.filled \in 0 .. HistSamples /\ c.hist \in [Slots -> Int]
  BY DEF PlcChannels
<1>3. ASSUME NEW i \in Slots
      PROVE  off(i) \in 0 .. HistSamples - 1
  <2>1. i - c.head \in Int
    BY <1>1, <1>2 DEF Slots
  <2> QED
    BY <1>1, <2>1, DivMod
<1>4. (c.head + SamplesPerPkt) % HistSamples \in Slots
  <2>1. c.head + SamplesPerPkt \in Int
    BY <1>1, <1>2 DEF Slots
  <2> QED
    BY <1>1, <2>1, DivMod DEF Slots
<1>5. \A s \in 1 .. SamplesPerPkt : pcm[s] \in Int
  <2>1. \A x \in Samples : x \in (-SMax - 1) .. SMax
    BY PlcAssumption
  <2>2. \A s \in 1 .. SamplesPerPkt : pcm[s] \in Samples
    BY DEF Packets
  <2> QED
    BY <2>1, <2>2
<1>6. plc_observe(c, pcm).hist \in [Slots -> Int]
  <2> HIDE DEF off
  <2>1. ASSUME NEW i \in Slots
        PROVE  (IF off(i) < SamplesPerPkt THEN pcm[off(i) + 1] ELSE c.hist[i]) \in Int
    BY <1>1, <1>2, <1>3, <1>5
  <2> QED
    BY <2>1 DEF plc_observe, off
<1> QED
  BY <1>1, <1>2, <1>4, <1>6 DEF plc_observe, PlcChannels

(* Every gain is an integer.                                               *)
LEMMA GainType ==
  ASSUME NEW k \in Nat
  PROVE  burst_gain_q15(k) \in Int
<1>1. FadePackets \in Nat \ {0}
  BY PlcAssumption DEF FadePackets
<1>2. FadeFlatPackets \in Nat /\ FadeFlatPackets < FadePackets
  BY <1>1 DEF FadeFlatPackets
<1> DEFINE span == FadePackets - FadeFlatPackets
           num  == Q15 * (span - (k - FadeFlatPackets))
           w    == WrapInt(num)
<1>3. /\ span \in Nat \ {0} /\ num \in Int /\ Q15 \in Int
      /\ IntMax \in Nat /\ 2 * (IntMax + 1) \in Nat \ {0}
  BY <1>1, <1>2, PlcAssumption
<1> HIDE DEF num, span
<1>4. w \in Int
  <2>1. num + IntMax + 1 \in Int
    BY <1>3
  <2> QED
    BY <1>3, <2>1, DivMod DEF WrapInt
<1> HIDE DEF w
<1>5. Quotient(w, span) \in Int
  <2>1. -w \in Int
    BY <1>4
  <2> QED
    BY <1>3, <1>4, <2>1, DivMod DEF Quotient
<1>6. burst_gain_q15(k) \in {Q15, 0, Quotient(w, span)}
  BY DEF burst_gain_q15, w, num, span
<1> QED
  BY <1>3, <1>5, <1>6

(* A concealment packet is a packet of integers.                           *)
LEMMA ConcealType ==
  ASSUME NEW c \in PlcChannels, NEW k \in Nat
  PROVE  /\ plc_conceal(c, k) \in Seq(Int)
         /\ ConcealTier(c, k) \in 0 .. 3
         /\ c.filled >= SamplesPerPkt => ConcealTier(c, k) \in {TierRepeatXfade, TierBurstFade}
<1> USE DEF TierRepeatXfade, TierBurstFade, TierHoldLast, TierSilence
<1>1. /\ HistSamples \in Nat \ {0} /\ SamplesPerPkt \in Nat \ {0}
      /\ Q15 \in Nat \ {0} /\ SMax \in Nat
  BY PlcAssumption, ModeAssumption
<1>2. c.head \in Slots /\ c.filled \in 0 .. HistSamples /\ c.hist \in [Slots -> Int]
  BY DEF PlcChannels
<1>3. ASSUME NEW back \in Int
      PROVE  hist_at(c, back) \in Int
  <2>1. c.head - 1 - back \in Int
    BY <1>1, <1>2 DEF Slots
  <2>2. (c.head - 1 - back) % HistSamples \in Slots
    BY <1>1, <2>1, DivMod DEF Slots
  <2> QED
    BY <1>2, <2>2 DEF hist_at
<1>4. ASSUME NEW x \in Int, NEW g \in Int
      PROVE  Scale(x, g) \in Int
  <2>1. x * g \in Int
    OBVIOUS
  <2> QED
    BY <1>1, <2>1, DivMod DEF Scale
<1>5. XfadeW \in Nat
  BY <1>1, PlcAssumption DEF XfadeW
<1>6. ASSUME NEW last \in Int, NEW sub \in Int, NEW s \in Nat
      PROVE  Crossfade(last, sub, s) \in Int
  <2> DEFINE a == ((s + 1) * Q15) \div (XfadeW + 1)
             num == last * (Q15 - a) + sub * a
  <2>1. (s + 1) * Q15 \in Int /\ XfadeW + 1 \in Nat \ {0}
    BY <1>1, <1>5
  <2>2. a \in Int
    BY <2>1, DivMod
  <2> HIDE DEF a
  <2>3. num \in Int
    BY <1>1, <2>2
  <2>4. num \div Q15 \in Int
    BY <1>1, <2>3, DivMod
  <2> QED
    BY <2>4 DEF Crossfade, a
<1>7. ASSUME NEW x \in Int
      PROVE  store24(x) \in Int
  BY <1>1 DEF store24
<1>8. ConcealTier(c, k) \in {0, 1, 2, 3}
  BY DEF ConcealTier
<1>9. plc_conceal(c, k) \in [1 .. SamplesPerPkt -> Int]
  <2> DEFINE gain == burst_gain_q15(k)
             tier == ConcealTier(c, k)
             sub(s) == hist_at(c, SamplesPerPkt - 1 - s)
             o(s) == CASE tier = TierSilence     -> 0
                       [] tier = TierHoldLast    -> Scale(hist_at(c, 0), gain)
                       [] tier = TierRepeatXfade -> Crossfade(hist_at(c, 0), sub(s), s)
                       [] tier = TierBurstFade   -> Scale(sub(s), gain)
  <2>1. gain \in Int
    BY GainType
  <2>2. ASSUME NEW i \in 1 .. SamplesPerPkt
        PROVE  store24(o(i - 1)) \in Int
    <3>1. i - 1 \in Nat /\ SamplesPerPkt - 1 - (i - 1) \in Int
      BY <1>1
    <3>2. sub(i - 1) \in Int /\ hist_at(c, 0) \in Int
      BY <1>3, <3>1
    <3>3. /\ Scale(hist_at(c, 0), gain) \in Int /\ Scale(sub(i - 1), gain) \in Int
          /\ Crossfade(hist_at(c, 0), sub(i - 1), i - 1) \in Int
      BY <1>4, <1>6, <2>1, <3>1, <3>2
    <3> HIDE DEF sub, gain, tier
    <3>4. o(i - 1) \in Int
      BY <1>8, <3>3 DEF tier
    <3> QED
      BY <1>7, <3>4
  <2> QED
    BY <2>2 DEF plc_conceal
<1>10. plc_conceal(c, k) \in Seq(Int)
  BY <1>1, <1>9
<1> QED
  BY <1>1, <1>2, <1>8, <1>10 DEF ConcealTier

-----------------------------------------------------------------------------
(* The inductive invariant.  The promises about the last call's packets    *)
(* are kept by the next call because the clock and the sequence number     *)
(* stand where the number of packets emitted so far puts them.             *)

ClockPosition ==
  /\ clock.started =>
       clock.rtp_ts = (clock.anchor + (Emitted(stats) - 1) * SamplesPerPkt) % TsMod
  /\ ~clock.started => Emitted(stats) = 0

SequencePosition ==
  ~sink => seq = Emitted(stats) % SeqMod

IInv ==
  /\ TypeOK
  /\ ClockPosition
  /\ SequencePosition
  /\ TimelineContiguous
  /\ SequenceContiguous
  /\ LossAccounted
  /\ BurstBounded
  /\ ConcealsFromHistory

(* The state pipeline_init_ex leaves satisfies the invariant.              *)
LEMMA InitIInv == Init => IInv
<1> SUFFICES ASSUME Init PROVE IInv
  OBVIOUS
<1>1. PICK a \in Anchors \cup {0} : clock = media_clock_init_anchored(a)
  BY DEF Init
<1>2. a \in Timestamps /\ 0 \in Counters /\ 0 \in 0 .. SeqMod - 1
  BY PipelineAssumption, RtpAssumption, ClockAssumption DEF Timestamps, Counters
<1>3. clock \in Clocks /\ ~clock.started /\ clock.total_lost = 0
  BY <1>1, <1>2 DEF media_clock_init_anchored, Clocks
<1>4. plc \in PlcChannels
  BY PlcAssumption, ModeAssumption DEF Init, plc_init, PlcChannels, Slots
<1>5. stats \in Stats /\ Emitted(stats) = 0 /\ stats.last_tier = -1
      /\ stats.loss_total = 0 /\ stats.concealed = 0
  BY <1>2 DEF Init, Stats, Emitted
<1>6. out = << >> /\ seq = 0 /\ sink \in BOOLEAN /\ lastReal = << >>
  BY DEF Init
<1>7. TypeOK
  BY <1>2, <1>3, <1>4, <1>5, <1>6 DEF TypeOK
<1>8. ClockPosition
  BY <1>3, <1>5 DEF ClockPosition
<1>9. SequencePosition
  <2>1. 0 % SeqMod = 0
    BY <1>2, PipelineAssumption, RtpAssumption, ModSmall
  <2> QED
    BY <1>5, <1>6, <2>1 DEF SequencePosition
<1>10. TimelineContiguous /\ SequenceContiguous /\ BurstBounded
  BY <1>6 DEF TimelineContiguous, SequenceContiguous, BurstBounded
<1>11. LossAccounted
  BY <1>3, <1>5 DEF LossAccounted
<1>12. ConcealsFromHistory
  BY <1>3, <1>5 DEF ConcealsFromHistory
<1> QED
  BY <1>7, <1>8, <1>9, <1>10, <1>11, <1>12 DEF IInv

(* What one decoded frame does to the counts and to the packets emitted:   *)
(* the facts every conjunct of the invariant rests on.                     *)
LEMMA FrameFacts ==
  ASSUME IInv, NEW counter \in Counters, NEW pcm \in Packets, OnFrame(counter, pcm)
  PROVE  LET lost == LostBefore(clock, counter)
         IN  /\ lost \in Nat /\ lost < HalfRange
             /\ ~clock.started => lost = 0
             /\ Emitted(stats) \in Nat
             /\ Emitted(stats)' = Emitted(stats) + lost + 1
             /\ Len(out') = lost + 1
             /\ DOMAIN out' = 1 .. lost + 1
             /\ \A j \in 1 .. lost + 1 : StreamPos(j)' = Emitted(stats) + j - 1
<1> DEFINE lost == LostBefore(clock, counter)
<1>1. clock \in Clocks /\ stats \in Stats
  BY DEF IInv, TypeOK
<1>2. lost \in Nat /\ lost < HalfRange /\ (~clock.started => lost = 0)
  BY <1>1, LostBeforeRange
<1> HIDE DEF lost
<1>3. /\ out' = [i \in 1 .. lost + 1 |->
                   IF i <= lost
                   THEN emit_pcm(i, (clock'.rtp_ts - (lost - i + 1) * SamplesPerPkt) % TsMod,
                                 TRUE, plc_conceal(plc, i - 1))
                   ELSE emit_pcm(i, clock'.rtp_ts, FALSE, pcm)]
  BY DEF OnFrame, EmitBurst, lost
<1>4. Len(out') = lost + 1 /\ DOMAIN out' = 1 .. lost + 1
  BY <1>2, <1>3
<1>5. stats.packets \in Nat /\ stats.concealed \in Nat
  BY <1>1 DEF Stats
<1>6. /\ stats'.packets = stats.packets + 1
      /\ stats'.concealed = stats.concealed + lost
  BY <1>1 DEF OnFrame, Stats, lost
<1>7. Emitted(stats) \in Nat /\ Emitted(stats)' = Emitted(stats) + lost + 1
  BY <1>2, <1>5, <1>6 DEF Emitted
<1>8. \A j \in 1 .. lost + 1 : StreamPos(j)' = Emitted(stats) + j - 1
  BY <1>2, <1>4, <1>7 DEF StreamPos
<1> QED
  BY <1>2, <1>4, <1>7, <1>8 DEF lost

(* A decoded frame keeps every variable in its type.                       *)
LEMMA FrameType ==
  ASSUME IInv, NEW counter \in Counters, NEW pcm \in Packets, OnFrame(counter, pcm)
  PROVE  TypeOK'
<1> DEFINE lost == LostBefore(clock, counter)
<1>1. /\ clock \in Clocks /\ stats \in Stats /\ plc \in PlcChannels
      /\ seq \in 0 .. SeqMod - 1 /\ sink \in BOOLEAN
  BY DEF IInv, TypeOK
<1>2. lost \in Nat
  BY <1>1, LostBeforeRange
<1>3. clock' \in Clocks
  BY <1>1, ClockStep DEF OnFrame
<1>4. plc' \in PlcChannels
  BY <1>1, ObserveType DEF OnFrame
<1>5. \A n \in Int : n % SeqMod \in 0 .. SeqMod - 1
  BY PipelineAssumption, RtpAssumption, DivMod
<1>6. seq \in Int /\ seq + lost + 1 \in Int /\ seq + lost \in Int
  BY <1>1, <1>2, PipelineAssumption, RtpAssumption
<1> HIDE DEF lost
<1>7. seq' \in 0 .. SeqMod - 1
  BY <1>1, <1>5, <1>6 DEF OnFrame, lost
<1>8. stats' \in Stats
  <2> DEFINE tier == IF lost > 0 THEN ConcealTier(plc, lost - 1) ELSE stats.last_tier
             last == IF sink THEN stats.last_seq ELSE (seq + lost) % SeqMod
  <2>1. stats' = [stats EXCEPT !.loss_total = @ + lost, !.concealed = @ + lost,
                               !.packets = @ + 1, !.last_seq = last,
                               !.last_tier = tier]
    BY DEF OnFrame, lost
  <2>2. last \in 0 .. SeqMod - 1
    BY <1>1, <1>5, <1>6 DEF Stats
  <2>3. tier \in -1 .. 3
    <3>1. CASE lost > 0
      <4>1. lost - 1 \in Nat
        BY <1>2, <3>1
      <4>2. ConcealTier(plc, lost - 1) \in 0 .. 3
        BY <1>1, <4>1, ConcealType
      <4> QED
        BY <3>1, <4>2
    <3>2. CASE ~(lost > 0)
      BY <1>1, <3>2 DEF Stats
    <3> QED
      BY <3>1, <3>2
  <2> HIDE DEF tier, last
  <2>4. /\ stats.loss_total + lost \in Nat /\ stats.concealed + lost \in Nat
        /\ stats.packets + 1 \in Nat
    BY <1>1, <1>2 DEF Stats
  <2> QED
    BY <1>1, <2>1, <2>2, <2>3, <2>4 DEF Stats
<1>9. out' \in Seq(Emissions)
  <2> DEFINE e(i) == IF i <= lost
                     THEN emit_pcm(i, (clock'.rtp_ts - (lost - i + 1) * SamplesPerPkt) % TsMod,
                                   TRUE, plc_conceal(plc, i - 1))
                     ELSE emit_pcm(i, clock'.rtp_ts, FALSE, pcm)
  <2>1. ASSUME NEW i \in 1 .. lost + 1, NEW ts \in Timestamps,
               NEW con \in BOOLEAN, NEW p \in Seq(Int)
        PROVE  emit_pcm(i, ts, con, p) \in Emissions
    <3>1. seq + i - 1 \in Int
      BY <1>2, <1>6
    <3>2. (seq + i - 1) % SeqMod \in 0 .. SeqMod - 1
      BY <1>5, <3>1
    <3>3. (IF sink THEN NoSeq ELSE (seq + i - 1) % SeqMod) \in NoSeq .. SeqMod - 1
      BY <1>1, <3>2, PipelineAssumption, RtpAssumption DEF NoSeq
    <3> QED
      BY <3>3 DEF emit_pcm, Emissions
  <2>2. clock'.rtp_ts \in Timestamps
    BY <1>3 DEF Clocks
  <2>3. pcm \in Seq(Int)
    <3>1. \A x \in Samples : x \in Int
      BY PlcAssumption
    <3>2. pcm \in [1 .. SamplesPerPkt -> Int]
      BY <3>1 DEF Packets
    <3> QED
      BY <3>2, ModeAssumption
  <2>4. ASSUME NEW i \in 1 .. lost + 1
        PROVE  e(i) \in Emissions
    <3>1. CASE i <= lost
      <4>1. i - 1 \in Nat
        BY <1>2
      <4>2. plc_conceal(plc, i - 1) \in Seq(Int)
        BY <1>1, <4>1, ConcealType
      <4>3. clock'.rtp_ts - (lost - i + 1) * SamplesPerPkt \in Int
        BY <1>2, <2>2, ModeAssumption, ClockAssumption DEF Timestamps
      <4>4. (clock'.rtp_ts - (lost - i + 1) * SamplesPerPkt) % TsMod \in Timestamps
        BY <4>3, ClockAssumption, DivMod DEF Timestamps
      <4> QED
        BY <2>1, <3>1, <4>2, <4>4
    <3>2. CASE ~(i <= lost)
      BY <2>1, <2>2, <2>3, <3>2
    <3> QED
      BY <3>1, <3>2
  <2>5. out' = [i \in 1 .. lost + 1 |-> e(i)]
    BY DEF OnFrame, EmitBurst, lost
  <2> HIDE DEF e
  <2> QED
    BY <1>2, <2>4, <2>5
<1>10. lastReal' \in Packets /\ sink' \in BOOLEAN
  BY <1>1 DEF OnFrame
<1> QED
  BY <1>3, <1>4, <1>7, <1>8, <1>9, <1>10 DEF TypeOK

(* After a decoded frame the clock stands at the slot of the last packet   *)
(* emitted: the arithmetic heart of the timeline's proof.                  *)
LEMMA FrameClock ==
  ASSUME IInv, NEW counter \in Counters, NEW pcm \in Packets, OnFrame(counter, pcm)
  PROVE  /\ clock'.started /\ clock'.anchor = clock.anchor
         /\ clock'.rtp_ts =
              (clock.anchor + (Emitted(stats) + LostBefore(clock, counter)) * SamplesPerPkt) % TsMod
<1> DEFINE lost == LostBefore(clock, counter)
           n    == Emitted(stats)
           A    == clock.anchor
           S    == SamplesPerPkt
<1>1. clock \in Clocks /\ clock' = media_clock_on_packet(clock, counter)
  BY DEF IInv, TypeOK, OnFrame
<1>2. /\ clock'.started /\ clock'.anchor = A
      /\ clock'.rtp_ts = IF clock.started THEN (clock.rtp_ts + (lost + 1) * S) % TsMod
                         ELSE A
  BY <1>1, ClockStep
<1>3. lost \in Nat /\ n \in Nat /\ (~clock.started => lost = 0)
  BY FrameFacts
<1>4. A \in Timestamps /\ A \in Int /\ S \in Nat /\ TsMod \in Nat \ {0}
  BY <1>1, ModeAssumption, ClockAssumption DEF Clocks, Timestamps
<1> HIDE DEF lost, n, A, S
<1>5. CASE clock.started
  <2>1. clock.rtp_ts = (A + (n - 1) * S) % TsMod
    BY <1>5 DEF IInv, ClockPosition, n, A, S
  <2>2. A + (n - 1) * S \in Int /\ (lost + 1) * S \in Int
    BY <1>3, <1>4
  <2>3. (clock.rtp_ts + (lost + 1) * S) % TsMod
          = ((A + (n - 1) * S) + (lost + 1) * S) % TsMod
    BY <1>4, <2>1, <2>2, ModAdd
  <2>4. (A + (n - 1) * S) + (lost + 1) * S = A + (n + lost) * S
    BY <1>3, <1>4, SMTT(30)
  <2> QED
    BY <1>2, <1>5, <2>3, <2>4 DEF n, A, S, lost
<1>6. CASE ~clock.started
  <2>1. lost = 0 /\ n = 0
    BY <1>3, <1>6 DEF IInv, ClockPosition, n
  <2>2. (n + lost) * S = 0
    BY <1>4, <2>1
  <2>3. A % TsMod = A
    BY <1>4, ModSmall DEF Timestamps
  <2>4. A + (n + lost) * S = A
    BY <1>4, <2>2
  <2> QED
    BY <1>2, <1>6, <2>3, <2>4 DEF n, A, S, lost
<1> QED
  BY <1>5, <1>6

(* A decoded frame keeps the timeline contiguous.                          *)
LEMMA FrameTimeline ==
  ASSUME IInv, NEW counter \in Counters, NEW pcm \in Packets, OnFrame(counter, pcm)
  PROVE  TimelineContiguous' /\ ClockPosition'
<1> DEFINE lost == LostBefore(clock, counter)
           n    == Emitted(stats)
           A    == clock.anchor
           S    == SamplesPerPkt
           ts   == clock'.rtp_ts
<1>1. /\ lost \in Nat /\ n \in Nat
      /\ Emitted(stats)' = n + lost + 1
      /\ Len(out') = lost + 1
      /\ \A j \in 1 .. lost + 1 : StreamPos(j)' = n + j - 1
  BY FrameFacts
<1>2. clock'.started /\ clock'.anchor = A /\ ts = (A + (n + lost) * S) % TsMod
  BY FrameClock
<1>3. A \in Int /\ S \in Nat /\ TsMod \in Nat \ {0}
  BY ModeAssumption, ClockAssumption DEF IInv, TypeOK, Clocks, Timestamps
<1>4. out' = [i \in 1 .. lost + 1 |->
                IF i <= lost
                THEN emit_pcm(i, (ts - (lost - i + 1) * S) % TsMod, TRUE, plc_conceal(plc, i - 1))
                ELSE emit_pcm(i, ts, FALSE, pcm)]
  BY DEF OnFrame, EmitBurst
<1> HIDE DEF lost, n, A, S, ts
<1>5. ASSUME NEW j \in 1 .. lost + 1
      PROVE  out'[j].ts = (A + (n + j - 1) * S) % TsMod
  <2>1. CASE j <= lost
    <3> DEFINE back == -((lost - j + 1) * S)
    <3>1. A + (n + lost) * S \in Int /\ back \in Int /\ ts \in Int
      BY <1>1, <1>2, <1>3, DivMod
    <3>2. out'[j].ts = (ts - (lost - j + 1) * S) % TsMod
      BY <1>4, <2>1 DEF emit_pcm
    <3>3. ts - (lost - j + 1) * S = ((A + (n + lost) * S) % TsMod) + back
      BY <1>1, <1>2, <1>3, <3>1
    <3>4. (((A + (n + lost) * S) % TsMod) + back) % TsMod = ((A + (n + lost) * S) + back) % TsMod
      BY <1>3, <3>1, ModAdd
    <3>5. (A + (n + lost) * S) + back = A + (n + j - 1) * S
      BY <1>1, <1>3, SMTT(30)
    <3> QED
      BY <3>2, <3>3, <3>4, <3>5
  <2>2. CASE ~(j <= lost)
    <3>1. j = lost + 1
      BY <1>1, <2>2
    <3>2. out'[j].ts = ts
      BY <1>1, <1>4, <2>2 DEF emit_pcm
    <3>3. n + j - 1 = n + lost
      BY <1>1, <3>1
    <3> QED
      BY <1>2, <3>2, <3>3
  <2> QED
    BY <2>1, <2>2
<1>6. TimelineContiguous'
  BY <1>1, <1>2, <1>5 DEF TimelineContiguous, S
<1>7. Emitted(stats)' - 1 = n + lost
  BY <1>1
<1>8. ClockPosition'
  BY <1>2, <1>7 DEF ClockPosition, ts, S
<1> QED
  BY <1>6, <1>8

(* A decoded frame keeps the RTP sequence numbers contiguous.              *)
LEMMA FrameSequence ==
  ASSUME IInv, NEW counter \in Counters, NEW pcm \in Packets, OnFrame(counter, pcm)
  PROVE  SequenceContiguous' /\ SequencePosition'
<1> DEFINE lost == LostBefore(clock, counter)
           n    == Emitted(stats)
<1>1. /\ lost \in Nat /\ n \in Nat
      /\ Emitted(stats)' = n + lost + 1
      /\ Len(out') = lost + 1
      /\ \A j \in 1 .. lost + 1 : StreamPos(j)' = n + j - 1
  BY FrameFacts
<1>2. SeqMod \in Nat \ {0} /\ sink' = sink /\ sink \in BOOLEAN
  BY PipelineAssumption, RtpAssumption DEF IInv, TypeOK, OnFrame
<1>3. \A j \in 1 .. lost + 1 :
        out'[j].seq = IF sink THEN NoSeq ELSE (seq + j - 1) % SeqMod
  BY DEF OnFrame, EmitBurst, emit_pcm
<1>4. /\ seq' = IF sink THEN seq ELSE (seq + lost + 1) % SeqMod
      /\ ~sink => stats'.last_seq = (seq + lost) % SeqMod
  BY DEF OnFrame, IInv, TypeOK, Stats
<1> HIDE DEF lost, n
<1>5. ASSUME ~sink, NEW k \in Int
      PROVE  (seq + k) % SeqMod = (n + k) % SeqMod
  <2>1. seq = n % SeqMod
    BY <1>5 DEF IInv, SequencePosition, n
  <2>2. n \in Int /\ k \in Int
    BY <1>1
  <2>3. ((n % SeqMod) + k) % SeqMod = (n + k) % SeqMod
    BY <1>2, <2>2, ModAdd
  <2> QED
    BY <2>1, <2>3
<1>6. ASSUME NEW j \in 1 .. lost + 1
      PROVE  out'[j].seq = IF sink' THEN NoSeq ELSE StreamPos(j)' % SeqMod
  <2>1. CASE sink
    BY <1>2, <1>3, <2>1
  <2>2. CASE ~sink
    <3>1. j - 1 \in Int
      BY <1>1
    <3>2. (seq + (j - 1)) % SeqMod = (n + (j - 1)) % SeqMod
      BY <1>5, <2>2, <3>1
    <3>3. seq + (j - 1) = seq + j - 1 /\ n + (j - 1) = n + j - 1
      BY <1>1, PipelineAssumption, RtpAssumption DEF IInv, TypeOK
    <3> QED
      BY <1>1, <1>2, <1>3, <2>2, <3>2, <3>3
  <2> QED
    BY <2>1, <2>2
<1>7. out' # << >> /\ ~sink' => stats'.last_seq = out'[Len(out')].seq
  <2>1. seq + lost = seq + (lost + 1) - 1 /\ lost + 1 \in 1 .. lost + 1
    BY <1>1, PipelineAssumption, RtpAssumption DEF IInv, TypeOK
  <2> QED
    BY <1>1, <1>2, <1>3, <1>4, <2>1
<1>8. SequencePosition'
  <2>1. lost + 1 \in Int /\ seq + (lost + 1) = seq + lost + 1 /\ n + (lost + 1) = n + lost + 1
    BY <1>1, PipelineAssumption, RtpAssumption DEF IInv, TypeOK
  <2>2. ~sink => (seq + lost + 1) % SeqMod = (n + lost + 1) % SeqMod
    BY <1>5, <2>1
  <2> QED
    BY <1>1, <1>2, <1>4, <2>2 DEF SequencePosition
<1>9. SequenceContiguous'
  BY <1>1, <1>6, <1>7 DEF SequenceContiguous
<1> QED
  BY <1>8, <1>9

(* A decoded frame keeps the counts in agreement, the burst bounded and    *)
(* the history long enough to conceal from.                                *)
LEMMA FrameCounts ==
  ASSUME IInv, NEW counter \in Counters, NEW pcm \in Packets, OnFrame(counter, pcm)
  PROVE  LossAccounted' /\ BurstBounded' /\ ConcealsFromHistory'
<1> DEFINE lost == LostBefore(clock, counter)
<1>1. /\ lost \in Nat /\ lost < HalfRange /\ (~clock.started => lost = 0)
      /\ Len(out') = lost + 1
  BY FrameFacts
<1>2. clock \in Clocks /\ stats \in Stats /\ plc \in PlcChannels
  BY DEF IInv, TypeOK
<1>3. clock'.total_lost = clock.total_lost + lost
  BY <1>2, ClockStep DEF OnFrame
<1>4. \A j \in 1 .. lost + 1 : out'[j].concealed <=> j <= lost
  BY <1>1 DEF OnFrame, EmitBurst, emit_pcm
<1> HIDE DEF lost
<1>5. /\ stats'.loss_total = stats.loss_total + lost
      /\ stats'.concealed = stats.concealed + lost
      /\ stats'.last_tier = IF lost > 0 THEN ConcealTier(plc, lost - 1) ELSE stats.last_tier
  BY <1>2 DEF OnFrame, Stats, lost
<1>6. LossAccounted'
  BY <1>3, <1>5 DEF IInv, LossAccounted
<1>7. BurstBounded'
  <2>1. HalfRange \in Nat
    BY ClockAssumption DEF HalfRange
  <2>2. Len(out') <= HalfRange
    BY <1>1, <2>1
  <2>3. \A j \in 1 .. Len(out') : j <= lost <=> j < Len(out')
    BY <1>1
  <2> QED
    BY <1>1, <1>4, <2>2, <2>3 DEF BurstBounded
<1>8. stats'.last_tier \in {-1, TierRepeatXfade, TierBurstFade}
  <2>1. CASE lost > 0
    <3>1. plc.filled >= SamplesPerPkt /\ lost - 1 \in Nat
      BY <1>1, <2>1 DEF IInv, ConcealsFromHistory
    <3>2. ConcealTier(plc, lost - 1) \in {TierRepeatXfade, TierBurstFade}
      BY <1>2, <3>1, ConcealType
    <3> QED
      BY <1>5, <2>1, <3>2
  <2>2. CASE ~(lost > 0)
    BY <1>5, <2>2 DEF IInv, ConcealsFromHistory
  <2> QED
    BY <2>1, <2>2
<1>9. plc'.filled >= SamplesPerPkt
  BY <1>2, ObserveType DEF OnFrame
<1> QED
  BY <1>6, <1>7, <1>8, <1>9 DEF ConcealsFromHistory

(* A rejected frame changes nothing but the malformed count.               *)
LEMMA MalformedIInv ==
  ASSUME IInv, OnMalformed
  PROVE  IInv'
<1>1. /\ UNCHANGED <<sink, clock, plc, seq, lastReal>> /\ out' = << >>
      /\ stats' = [stats EXCEPT !.malformed = @ + 1] /\ stats \in Stats
  BY DEF OnMalformed, IInv, TypeOK
<1>2. /\ stats' \in Stats /\ Emitted(stats)' = Emitted(stats)
      /\ stats'.loss_total = stats.loss_total /\ stats'.concealed = stats.concealed
      /\ stats'.last_tier = stats.last_tier
  <2>1. stats.malformed + 1 \in Nat
    BY <1>1 DEF Stats
  <2> QED
    BY <1>1, <2>1 DEF Stats, Emitted
<1>3. TypeOK'
  BY <1>1, <1>2 DEF IInv, TypeOK
<1>4. ClockPosition' /\ SequencePosition'
  BY <1>1, <1>2 DEF IInv, ClockPosition, SequencePosition
<1>5. TimelineContiguous' /\ SequenceContiguous' /\ BurstBounded'
  BY <1>1 DEF TimelineContiguous, SequenceContiguous, BurstBounded
<1>6. LossAccounted' /\ ConcealsFromHistory'
  BY <1>1, <1>2 DEF IInv, LossAccounted, ConcealsFromHistory
<1> QED
  BY <1>3, <1>4, <1>5, <1>6 DEF IInv

(* IInv is inductive: every step of the pipeline keeps it.                 *)
LEMMA NextIInv == IInv /\ [Next]_vars => IInv'
<1> SUFFICES ASSUME IInv, [Next]_vars PROVE IInv'
  OBVIOUS
<1>1. ASSUME NEW counter \in Counters, NEW pcm \in Packets, OnFrame(counter, pcm)
      PROVE  IInv'
  BY <1>1, FrameType, FrameTimeline, FrameSequence, FrameCounts DEF IInv
<1>2. CASE OnMalformed
  BY <1>2, MalformedIInv
<1>3. CASE UNCHANGED vars
  <2>1. /\ UNCHANGED <<sink, clock, plc, seq, stats, out, lastReal>>
    BY <1>3 DEF vars
  <2> QED
    BY <2>1 DEF IInv, TypeOK, ClockPosition, SequencePosition, TimelineContiguous,
                SequenceContiguous, LossAccounted, BurstBounded, ConcealsFromHistory,
                Emitted, StreamPos
<1> QED
  BY <1>1, <1>2, <1>3 DEF Next

(* IInv holds in every state of every behaviour.                           *)
THEOREM PipelineInvariant == Spec => []IInv
  BY InitIInv, NextIInv, PTL DEF Spec

-----------------------------------------------------------------------------
(* pipeline.c keeps its state in the ranges of its C types, and what it    *)
(* emits is well formed.                                                   *)
THEOREM TypeCorrect == Spec => []TypeOK
<1>1. IInv => TypeOK
  BY DEF IInv
<1> QED
  BY <1>1, PipelineInvariant, PTL

(* The stream pipeline_on_frame emits has no hole and no overlap, for any  *)
(* sequence of counters, at every width of counter and timestamp.          *)
THEOREM TimelineAlwaysContiguous == Spec => []TimelineContiguous
<1>1. IInv => TimelineContiguous
  BY DEF IInv
<1> QED
  BY <1>1, PipelineInvariant, PTL

(* RTP sequence numbers count every packet emit_pcm sends, without a gap.  *)
THEOREM SequenceAlwaysContiguous == Spec => []SequenceContiguous
<1>1. IInv => SequenceContiguous
  BY DEF IInv
<1> QED
  BY <1>1, PipelineInvariant, PTL

(* Detected, concealed and clocked losses are always the same number.      *)
THEOREM LossAlwaysAccounted == Spec => []LossAccounted
<1>1. IInv => LossAccounted
  BY DEF IInv
<1> QED
  BY <1>1, PipelineInvariant, PTL

(* No frame makes pipeline_on_frame emit more than half a counter period.  *)
THEOREM BurstAlwaysBounded == Spec => []BurstBounded
<1>1. IInv => BurstBounded
  BY DEF IInv
<1> QED
  BY <1>1, PipelineInvariant, PTL

(* plc_conceal is never called without a whole packet of history.          *)
THEOREM AlwaysConcealsFromHistory == Spec => []ConcealsFromHistory
<1>1. IInv => ConcealsFromHistory
  BY DEF IInv
<1> QED
  BY <1>1, PipelineInvariant, PTL

-----------------------------------------------------------------------------
(* What concealment sounds like.                                           *)

(* The tuning of the crossfade and of the fade.                            *)
LEMMA FadeShape ==
  /\ Q15 \in Nat \ {0} /\ SMax \in Nat
  /\ XfadeW \in Nat
  /\ FadePackets \in Nat \ {0} /\ FadeFlatPackets \in Nat
  /\ FadePackets - FadeFlatPackets \in Nat \ {0}
<1>1. FadePackets \in Nat \ {0}
  BY PlcAssumption DEF FadePackets
<1>2. FadeFlatPackets \in Nat /\ FadeFlatPackets < FadePackets
  BY <1>1 DEF FadeFlatPackets
<1> QED
  BY <1>1, <1>2, PlcAssumption, ModeAssumption DEF XfadeW

(* In a fade that fits an int the ramp is the exact quotient.              *)
LEMMA RampExact ==
  ASSUME NEW k \in Nat, FadeFits, ~(k <= FadeFlatPackets), ~(k >= FadePackets)
  PROVE  LET span == FadePackets - FadeFlatPackets
         IN  burst_gain_q15(k) = (Q15 * (span - (k - FadeFlatPackets))) \div span
<1> DEFINE span == FadePackets - FadeFlatPackets
           left == span - (k - FadeFlatPackets)
           num  == Q15 * left
           most == Q15 * (span - 1)
           m    == 2 * (IntMax + 1)
<1>1. /\ Q15 \in Nat \ {0} /\ span \in Nat \ {0}
      /\ FadePackets \in Nat /\ FadeFlatPackets \in Nat
  BY FadeShape
<1>2. IntMax \in Nat /\ m \in Nat \ {0}
  BY PlcAssumption
<1>3. left \in Nat /\ left <= span - 1 /\ span - 1 \in Nat
  BY <1>1
<1>4. burst_gain_q15(k) = Quotient(WrapInt(num), span)
  BY DEF burst_gain_q15
<1>5. most <= IntMax
  BY DEF FadeFits
<1> HIDE DEF left, span
<1>6. left * Q15 <= (span - 1) * Q15 /\ 0 * Q15 <= left * Q15
  BY <1>1, <1>3, ProductOrder
<1>7. num = left * Q15 /\ most = (span - 1) * Q15 /\ 0 * Q15 = 0 /\ num \in Int /\ most \in Int
  BY <1>1, <1>3
<1>8. num \in 0 .. IntMax
  BY <1>2, <1>5, <1>6, <1>7
<1> HIDE DEF num, most, m
<1>9. num + IntMax + 1 \in 0 .. m - 1
  BY <1>2, <1>8 DEF m
<1>10. (num + IntMax + 1) % m = num + IntMax + 1
  BY <1>2, <1>9, ModSmall
<1>11. WrapInt(num) = num
  BY <1>2, <1>8, <1>10 DEF WrapInt, m
<1>12. Quotient(num, span) = num \div span
  BY <1>8 DEF Quotient
<1> QED
  BY <1>4, <1>11, <1>12 DEF num, left, span

(* In a fade that fits an int a gain is between silence and unit gain.     *)
LEMMA GainRange ==
  ASSUME NEW k \in Nat, FadeFits
  PROVE  burst_gain_q15(k) \in 0 .. Q15
<1> DEFINE span == FadePackets - FadeFlatPackets
           left == span - (k - FadeFlatPackets)
           num  == Q15 * left
<1>1. /\ Q15 \in Nat \ {0} /\ span \in Nat \ {0}
      /\ FadePackets \in Nat /\ FadeFlatPackets \in Nat
  BY FadeShape
<1>2. CASE k <= FadeFlatPackets \/ k >= FadePackets
  BY <1>1, <1>2 DEF burst_gain_q15
<1>3. CASE ~(k <= FadeFlatPackets) /\ ~(k >= FadePackets)
  <2>1. left \in Nat /\ left <= span
    BY <1>1, <1>3
  <2>2. burst_gain_q15(k) = num \div span
    BY <1>3, RampExact
  <2> HIDE DEF left, span
  <2>3. left * Q15 <= span * Q15 /\ 0 * Q15 <= left * Q15
    BY <1>1, <2>1, ProductOrder
  <2>4. num = left * Q15 /\ span * Q15 = Q15 * span /\ num \in Int /\ 0 * Q15 = 0 /\ 0 * span = 0
    BY <1>1, <2>1
  <2>5. 0 * span <= num /\ num <= Q15 * span
    BY <2>3, <2>4
  <2> HIDE DEF num
  <2>6. num \div span \in Int
    BY <1>1, <2>4, DivMod
  <2>7. 0 <= num \div span
    BY <1>1, <2>4, <2>5, DivAbove
  <2>8. num \div span <= Q15
    BY <1>1, <2>4, <2>5, DivBelow
  <2> QED
    BY <1>1, <2>2, <2>6, <2>7, <2>8
<1> QED
  BY <1>2, <1>3

(* A fade that fits an int never rises.                                    *)
LEMMA GainFalls ==
  ASSUME NEW k \in Nat, FadeFits
  PROVE  burst_gain_q15(k + 1) <= burst_gain_q15(k)
<1> DEFINE span == FadePackets - FadeFlatPackets
           left(n) == span - (n - FadeFlatPackets)
<1>1. /\ Q15 \in Nat \ {0} /\ span \in Nat \ {0}
      /\ FadePackets \in Nat /\ FadeFlatPackets \in Nat
  BY FadeShape
<1>2. k + 1 \in Nat
  OBVIOUS
<1>3. burst_gain_q15(k) \in 0 .. Q15 /\ burst_gain_q15(k + 1) \in 0 .. Q15
  BY <1>2, GainRange
<1>4. CASE k <= FadeFlatPackets
  <2>1. burst_gain_q15(k) = Q15
    BY <1>4 DEF burst_gain_q15
  <2> QED
    BY <1>1, <1>3, <2>1
<1>5. CASE k + 1 >= FadePackets
  <2>1. burst_gain_q15(k + 1) = 0
    BY <1>1, <1>5 DEF burst_gain_q15
  <2> QED
    BY <1>1, <1>3, <2>1
<1>6. CASE ~(k <= FadeFlatPackets) /\ ~(k + 1 >= FadePackets)
  <2>1. /\ burst_gain_q15(k) = (Q15 * left(k)) \div span
        /\ burst_gain_q15(k + 1) = (Q15 * left(k + 1)) \div span
    <3>1. ~(k + 1 <= FadeFlatPackets) /\ ~(k >= FadePackets)
      BY <1>1, <1>6
    <3> QED
      BY <1>2, <1>6, <3>1, RampExact
  <2>2. left(k) \in Int /\ left(k + 1) \in Int /\ left(k + 1) <= left(k)
    BY <1>1
  <2> HIDE DEF left, span
  <2>3. left(k + 1) * Q15 <= left(k) * Q15
    BY <1>1, <2>2, ProductOrder
  <2>4. Q15 * left(k + 1) <= Q15 * left(k) /\ Q15 * left(k + 1) \in Int /\ Q15 * left(k) \in Int
    BY <1>1, <2>2, <2>3
  <2>5. (Q15 * left(k + 1)) \div span <= (Q15 * left(k)) \div span
    BY <1>1, <2>4, DivOrder
  <2> QED
    BY <2>1, <2>5
<1> QED
  BY <1>4, <1>5, <1>6

(* Scaling by a gain moves a sample towards zero.                          *)
LEMMA ScaleBounds ==
  ASSUME NEW x \in Int, NEW g \in 0 .. Q15
  PROVE  /\ Scale(x, g) \in Int
         /\ x >= 0 => 0 <= Scale(x, g) /\ Scale(x, g) <= x
         /\ x <= 0 => x <= Scale(x, g) /\ Scale(x, g) <= 0
<1> DEFINE p == x * g
<1>1. Q15 \in Nat \ {0} /\ g \in Nat /\ g <= Q15
  BY FadeShape
<1>2. p \in Int /\ p = g * x
  BY <1>1
<1>3. x >= 0 => 0 <= p /\ p <= x * Q15
  <2> SUFFICES ASSUME x >= 0 PROVE 0 <= p /\ p <= x * Q15
    OBVIOUS
  <2>1. g * x <= Q15 * x /\ 0 * x <= g * x
    BY <1>1, ProductOrder
  <2>2. Q15 * x = x * Q15 /\ 0 * x = 0
    BY <1>1
  <2> QED
    BY <1>2, <2>1, <2>2
<1>4. x <= 0 => x * Q15 <= p /\ p <= 0
  <2> SUFFICES ASSUME x <= 0 PROVE x * Q15 <= p /\ p <= 0
    OBVIOUS
  <2> DEFINE y == -x
  <2>1. y \in Nat
    OBVIOUS
  <2> HIDE DEF y
  <2>2. g * y <= Q15 * y /\ 0 * y <= g * y
    BY <1>1, <2>1, ProductOrder
  <2>3. g * y = -p /\ Q15 * y = -(x * Q15) /\ 0 * y = 0 /\ x * Q15 \in Int
    BY <1>1, SMTT(30) DEF y
  <2> QED
    BY <1>2, <2>2, <2>3
<1> HIDE DEF p
<1>5. p \div Q15 \in Int
  BY <1>1, <1>2, DivMod
<1>6. 0 * Q15 = 0 /\ x * Q15 \in Int
  BY <1>1
<1>7. x >= 0 => 0 <= p \div Q15 /\ p \div Q15 <= x
  BY <1>1, <1>2, <1>3, <1>6, DivAbove, DivBelow
<1>8. x <= 0 => x <= p \div Q15 /\ p \div Q15 <= 0
  BY <1>1, <1>2, <1>4, <1>6, DivAbove, DivBelow
<1> QED
  BY <1>5, <1>7, <1>8 DEF Scale, p

(* A weighted mean of two samples lies between them.                       *)
LEMMA MeanBounds ==
  ASSUME NEW x \in Int, NEW y \in Int, NEW a \in 0 .. Q15, x <= y
  PROVE  /\ x * Q15 <= x * (Q15 - a) + y * a /\ x * (Q15 - a) + y * a <= y * Q15
         /\ x * Q15 <= y * (Q15 - a) + x * a /\ y * (Q15 - a) + x * a <= y * Q15
<1> DEFINE b == Q15 - a
<1>1. Q15 \in Nat /\ a \in Nat /\ b \in Nat /\ Q15 = b + a
  BY FadeShape
<1> HIDE DEF b
<1>2. x * a <= y * a /\ x * b <= y * b
  BY <1>1, ProductOrder
<1>3. x * Q15 = x * b + x * a /\ y * Q15 = y * b + y * a
  BY <1>1, SMTT(30)
<1>4. x * a \in Int /\ y * a \in Int /\ x * b \in Int /\ y * b \in Int
  BY <1>1
<1>5. /\ x * Q15 <= x * b + y * a /\ x * b + y * a <= y * Q15
      /\ x * Q15 <= y * b + x * a /\ y * b + x * a <= y * Q15
  BY <1>2, <1>3, <1>4
<1> QED
  BY <1>5 DEF b

(* The crossfade moves from one sample to the other and never beyond.      *)
LEMMA CrossfadeBounds ==
  ASSUME NEW last \in Int, NEW sub \in Int, NEW s \in Nat
  PROVE  LET x == Crossfade(last, sub, s)
         IN  /\ x \in Int
             /\ last <= sub => last <= x /\ x <= sub
             /\ sub <= last => sub <= x /\ x <= last
<1> DEFINE n == (s + 1) * Q15
           a == n \div (XfadeW + 1)
           num == last * (Q15 - a) + sub * a
<1>1. Q15 \in Nat \ {0} /\ XfadeW \in Nat /\ XfadeW + 1 \in Nat \ {0}
  BY FadeShape
<1>2. CASE s < XfadeW
  <2>1. n \in Int /\ 0 * (XfadeW + 1) <= n /\ n <= Q15 * (XfadeW + 1)
    <3>1. (s + 1) * Q15 <= (XfadeW + 1) * Q15
      BY <1>1, <1>2, ProductOrder
    <3>2. 0 * Q15 <= (s + 1) * Q15
      BY <1>1, ProductOrder
    <3> QED
      BY <1>1, <3>1, <3>2
  <2> HIDE DEF n
  <2>2. a \in Int
    BY <1>1, <2>1, DivMod
  <2>3. 0 <= a
    BY <1>1, <2>1, DivAbove
  <2>4. a <= Q15
    BY <1>1, <2>1, DivBelow
  <2>5. a \in 0 .. Q15
    BY <1>1, <2>2, <2>3, <2>4
  <2> HIDE DEF a
  <2>6. num \in Int /\ Q15 \in Int
    BY <1>1, <2>2
  <2>7. last <= sub => last * Q15 <= num /\ num <= sub * Q15
    BY <2>5, MeanBounds
  <2>8. sub <= last => sub * Q15 <= num /\ num <= last * Q15
    BY <2>5, MeanBounds
  <2> HIDE DEF num
  <2>9. num \div Q15 \in Int
    BY <1>1, <2>6, DivMod
  <2>10. last <= sub => last <= num \div Q15 /\ num \div Q15 <= sub
    BY <1>1, <2>6, <2>7, DivAbove, DivBelow
  <2>11. sub <= last => sub <= num \div Q15 /\ num \div Q15 <= last
    BY <1>1, <2>6, <2>8, DivAbove, DivBelow
  <2>12. Crossfade(last, sub, s) = num \div Q15
    BY <1>2 DEF Crossfade, num, a, n
  <2> QED
    BY <2>9, <2>10, <2>11, <2>12
<1>3. CASE ~(s < XfadeW)
  BY <1>3 DEF Crossfade
<1> QED
  BY <1>2, <1>3

(* The ring after a frame was observed: read backwards from the newest     *)
(* sample it is the frame, wherever it has wrapped.                        *)
LEMMA ObservedFrame ==
  ASSUME NEW c \in PlcChannels, NEW pcm \in Packets, NEW s \in 0 .. SamplesPerPkt - 1
  PROVE  hist_at(plc_observe(c, pcm), SamplesPerPkt - 1 - s) = pcm[s + 1]
<1> DEFINE S == SamplesPerPkt
           H == HistSamples
           h == c.head
           d == plc_observe(c, pcm)
           i == (h + s) % H
<1>1. /\ H \in Nat \ {0} /\ S \in Nat \ {0} /\ S <= H /\ h \in 0 .. H - 1
      /\ s \in Nat /\ s < S /\ h \in Nat
  BY PlcAssumption, ModeAssumption DEF PlcChannels, Slots
<1>2. d.filled >= S
  BY ObserveType
<1>3. /\ d.head = (h + S) % H
      /\ d.hist = [k \in Slots |-> LET t == (k - h) % H
                                   IN  IF t < S THEN pcm[t + 1] ELSE c.hist[k]]
  BY DEF plc_observe
<1> HIDE DEF d, S, H, h
<1>4. (d.head - 1 - (S - 1 - s)) % H = i
  <2>1. h + S \in Int /\ s - S \in Int /\ (h + S) % H \in Int
    BY <1>1, DivMod
  <2>2. (((h + S) % H) + (s - S)) % H = ((h + S) + (s - S)) % H
    BY <1>1, <2>1, ModAdd
  <2>3. (h + S) + (s - S) = h + s /\ d.head - 1 - (S - 1 - s) = ((h + S) % H) + (s - S)
    BY <1>1, <1>3, <2>1
  <2> QED
    BY <2>2, <2>3
<1>5. i \in Slots /\ i \in Int
  <2>1. h + s \in Int
    BY <1>1
  <2>2. i \in 0 .. H - 1
    BY <1>1, <2>1, DivMod
  <2> QED
    BY <1>1, <2>2 DEF Slots, H
<1>6. (i - h) % H = s
  <2>1. h + s \in Int /\ -h \in Int
    BY <1>1
  <2>2. (((h + s) % H) + (-h)) % H = ((h + s) + (-h)) % H
    BY <1>1, <2>1, ModAdd
  <2>3. (h + s) + (-h) = s /\ i - h = ((h + s) % H) + (-h)
    BY <1>1, <1>5
  <2>4. s \in 0 .. H - 1
    BY <1>1
  <2>5. s % H = s
    BY <1>1, <2>4, ModSmall
  <2> HIDE DEF i
  <2> QED
    BY <2>2, <2>3, <2>5 DEF i
<1> HIDE DEF i
<1>7. d.hist[i] = pcm[s + 1]
  BY <1>1, <1>3, <1>5, <1>6
<1>8. hist_at(d, S - 1 - s) = d.hist[(d.head - 1 - (S - 1 - s)) % H]
  <2>1. d.filled \in Int
    BY ObserveType DEF PlcChannels, d
  <2>2. ~(S - 1 - s >= d.filled)
    BY <1>1, <1>2, <2>1
  <2> QED
    BY <2>2 DEF hist_at, H
<1> QED
  BY <1>4, <1>7, <1>8 DEF d, S

(* The samples of a frame fit 24 bits.                                     *)
LEMMA PacketSamples ==
  ASSUME NEW pcm \in Packets, NEW s \in 1 .. SamplesPerPkt
  PROVE  pcm[s] \in (-SMax - 1) .. SMax /\ pcm[s] \in Int
<1>1. pcm[s] \in Samples
  BY DEF Packets
<1>2. SMax \in Nat /\ \A x \in Samples : x \in (-SMax - 1) .. SMax
  BY PlcAssumption
<1>3. \A x \in (-SMax - 1) .. SMax : x \in Int
  BY <1>2
<1> QED
  BY <1>1, <1>2, <1>3

(* In a fade that fits an int, what a substitute is made of stays between  *)
(* the newest frame's samples and zero.                                    *)
LEMMA SubstituteRange ==
  ASSUME NEW pcm \in Packets, NEW k \in Nat, NEW s \in 1 .. SamplesPerPkt, FadeFits
  PROVE  LET y == Substitute(pcm, k)[s]
             span == {0} \cup {pcm[i] : i \in 1 .. SamplesPerPkt}
         IN  /\ y \in (-SMax - 1) .. SMax
             /\ \E lo \in span : lo <= y
             /\ \E hi \in span : y <= hi
<1> DEFINE z == Substitute(pcm, k)[s]
           y == IF k = 0 THEN Crossfade(pcm[SamplesPerPkt], pcm[s], s - 1)
                ELSE Scale(pcm[s], burst_gain_q15(k))
           span == {0} \cup {pcm[i] : i \in 1 .. SamplesPerPkt}
           x == pcm[s]
           last == pcm[SamplesPerPkt]
<1>1. SamplesPerPkt \in 1 .. SamplesPerPkt /\ s - 1 \in Nat /\ SMax \in Nat
  BY ModeAssumption, FadeShape
<1>2. /\ x \in (-SMax - 1) .. SMax /\ x \in Int
      /\ last \in (-SMax - 1) .. SMax /\ last \in Int
  BY <1>1, PacketSamples
<1>3. 0 \in span /\ x \in span /\ last \in span
  BY <1>1
<1>4. /\ y = IF k = 0 THEN Crossfade(last, x, s - 1) ELSE Scale(x, burst_gain_q15(k))
      /\ z = store24(y)
  BY DEF Substitute
<1> SUFFICES /\ y \in (-SMax - 1) .. SMax
             /\ \E lo \in span : lo <= y
             /\ \E hi \in span : y <= hi
  <2> HIDE DEF y, z
  <2> SUFFICES ASSUME y \in (-SMax - 1) .. SMax PROVE z = y
    BY DEF z
  <2> QED
    BY <1>1, <1>4 DEF store24
<1> HIDE DEF y, x, last, span
<1>5. CASE k = 0
  <2>1. /\ y \in Int
        /\ last <= x => last <= y /\ y <= x
        /\ x <= last => x <= y /\ y <= last
    BY <1>1, <1>2, <1>4, <1>5, CrossfadeBounds
  <2>2. y \in (-SMax - 1) .. SMax
    BY <1>1, <1>2, <2>1
  <2>3. CASE last <= x
    BY <1>3, <2>1, <2>2, <2>3 DEF y, span
  <2>4. CASE x <= last
    BY <1>3, <2>1, <2>2, <2>4 DEF y, span
  <2> QED
    BY <1>2, <2>3, <2>4
<1>6. CASE k # 0
  <2>1. /\ y \in Int
        /\ x >= 0 => 0 <= y /\ y <= x
        /\ x <= 0 => x <= y /\ y <= 0
    BY <1>2, <1>4, <1>6, GainRange, ScaleBounds
  <2>2. y \in (-SMax - 1) .. SMax
    BY <1>1, <1>2, <2>1
  <2>3. CASE x >= 0
    BY <1>3, <2>1, <2>2, <2>3 DEF y, span
  <2>4. CASE x <= 0
    BY <1>3, <2>1, <2>2, <2>4 DEF y, span
  <2> QED
    BY <1>2, <2>3, <2>4
<1> QED
  BY <1>5, <1>6

(* Past the crossfade, in a fade that fits an int, a substitute is no      *)
(* louder than the one before it.                                          *)
LEMMA SubstituteFades ==
  ASSUME NEW pcm \in Packets, NEW k \in Nat \ {0}, NEW s \in 1 .. SamplesPerPkt, FadeFits
  PROVE  LET y == Substitute(pcm, k + 1)[s]
             before == Substitute(pcm, k)[s]
         IN  (y > 0 => y <= before) /\ (y < 0 => before <= y)
<1> DEFINE x == pcm[s]
           g == burst_gain_q15(k)
           h == burst_gain_q15(k + 1)
           y == Scale(x, h)
           before == Scale(x, g)
<1>1. x \in Int
  BY PacketSamples
<1>2. Q15 \in Nat \ {0} /\ g \in 0 .. Q15 /\ h \in 0 .. Q15 /\ h <= g
  BY FadeShape, GainRange, GainFalls
<1>3. /\ Substitute(pcm, k)[s] = store24(before) /\ Substitute(pcm, k + 1)[s] = store24(y)
  BY DEF Substitute
<1> HIDE DEF x, g, h
<1>4. /\ y \in Int /\ before \in Int
      /\ x >= 0 => 0 <= y
      /\ x <= 0 => y <= 0
  BY <1>1, <1>2, ScaleBounds
<1>5. g \in Int /\ h \in Int /\ x * g \in Int /\ x * h \in Int
  BY <1>1, <1>2
<1>6. ASSUME x >= 0 PROVE y <= before
  <2>1. h * x <= g * x
    BY <1>1, <1>2, <1>5, <1>6, ProductOrder
  <2>2. x * h <= x * g
    BY <1>1, <1>5, <2>1
  <2> QED
    BY <1>2, <1>5, <2>2, DivOrder DEF Scale
<1>7. ASSUME x <= 0 PROVE before <= y
  <2> DEFINE m == -x
  <2>1. m \in Nat
    BY <1>1, <1>7
  <2> HIDE DEF m
  <2>2. h * m <= g * m
    BY <1>2, <1>5, <2>1, ProductOrder
  <2>3. h * m = -(x * h) /\ g * m = -(x * g)
    BY <1>1, <1>5, SMTT(30) DEF m
  <2>4. x * g <= x * h
    BY <1>5, <2>2, <2>3
  <2> QED
    BY <1>2, <1>5, <2>4, DivOrder DEF Scale
<1>8. (y > 0 => y <= before) /\ (y < 0 => before <= y)
  BY <1>1, <1>4, <1>6, <1>7
<1>9. /\ SMax \in Nat /\ x \in (-SMax - 1) .. SMax
      /\ store24(y) = y /\ store24(before) = before
  <2>1. SMax \in Nat /\ x \in (-SMax - 1) .. SMax
    BY FadeShape, PacketSamples DEF x
  <2>2. /\ x >= 0 => y <= x /\ 0 <= before /\ before <= x
        /\ x <= 0 => x <= y /\ x <= before /\ before <= 0
    BY <1>1, <1>2, ScaleBounds
  <2> HIDE DEF y, before
  <2> QED
    BY <1>4, <2>1, <2>2 DEF store24
<1> QED
  BY <1>3, <1>8, <1>9

(* A ring that holds the frame conceals with it.                           *)
LEMMA ConcealsWithFrame ==
  ASSUME NEW c \in PlcChannels, NEW pcm \in Packets, NEW k \in Nat,
         c.filled >= SamplesPerPkt,
         \A s \in 0 .. SamplesPerPkt - 1 : hist_at(c, SamplesPerPkt - 1 - s) = pcm[s + 1]
  PROVE  plc_conceal(c, k) = Substitute(pcm, k)
<1> DEFINE S == SamplesPerPkt
           tier == ConcealTier(c, k)
           gain == burst_gain_q15(k)
           sub(s) == hist_at(c, S - 1 - s)
           o(s) == CASE tier = TierSilence     -> 0
                     [] tier = TierHoldLast    -> Scale(hist_at(c, 0), gain)
                     [] tier = TierRepeatXfade -> Crossfade(hist_at(c, 0), sub(s), s)
                     [] tier = TierBurstFade   -> Scale(sub(s), gain)
<1>1. S \in Nat \ {0} /\ c.filled \in Int /\ SMax \in Nat
  BY PlcAssumption, ModeAssumption DEF PlcChannels
<1>2. tier = IF k = 0 THEN TierRepeatXfade ELSE TierBurstFade
  BY <1>1 DEF ConcealTier
<1>3. hist_at(c, 0) = pcm[S]
  <2>1. S - 1 \in 0 .. S - 1 /\ S - 1 - (S - 1) = 0 /\ S - 1 + 1 = S
    BY <1>1
  <2>2. hist_at(c, S - 1 - (S - 1)) = pcm[S - 1 + 1]
    BY <2>1
  <2> QED
    BY <2>1, <2>2
<1>4. ASSUME NEW i \in 1 .. S PROVE store24(o(i - 1)) = Substitute(pcm, k)[i]
  <2>1. i - 1 \in 0 .. S - 1 /\ (i - 1) + 1 = i
    BY <1>1
  <2>2. sub(i - 1) = pcm[i]
    BY <2>1
  <2> HIDE DEF sub
  <2>3. o(i - 1) = IF k = 0 THEN Crossfade(pcm[S], pcm[i], i - 1) ELSE Scale(pcm[i], gain)
    <3> HIDE DEF tier, gain
    <3>1. CASE k = 0
      BY <1>2, <1>3, <2>2, <3>1
         DEF TierRepeatXfade, TierBurstFade, TierHoldLast, TierSilence
    <3>2. CASE k # 0
      BY <1>2, <1>3, <2>2, <3>2
         DEF TierRepeatXfade, TierBurstFade, TierHoldLast, TierSilence
    <3> QED
      BY <3>1, <3>2
  <2> HIDE DEF o
  <2> QED
    BY <2>3 DEF Substitute
<1>5. plc_conceal(c, k) = [i \in 1 .. S |-> store24(o(i - 1))]
  BY DEF plc_conceal
<1>6. Substitute(pcm, k) = [i \in 1 .. S |-> Substitute(pcm, k)[i]]
  BY DEF Substitute
<1> HIDE DEF o
<1> QED
  BY <1>4, <1>5, <1>6

(* Once a frame was decoded, the ring holds the newest one.                *)
HistoryHolds ==
  clock.started =>
    /\ lastReal \in Packets
    /\ \A s \in 0 .. SamplesPerPkt - 1 :
         hist_at(plc, SamplesPerPkt - 1 - s) = lastReal[s + 1]

(* The ring follows the frames.                                            *)
LEMMA NextHistoryHolds == IInv /\ HistoryHolds /\ [Next]_vars => HistoryHolds'
<1> SUFFICES ASSUME IInv, HistoryHolds, [Next]_vars PROVE HistoryHolds'
  OBVIOUS
<1>1. ASSUME NEW counter \in Counters, NEW pcm \in Packets, OnFrame(counter, pcm)
      PROVE  HistoryHolds'
  <2>1. plc \in PlcChannels
    BY DEF IInv, TypeOK
  <2>2. plc' = plc_observe(plc, pcm) /\ lastReal' = pcm
    BY <1>1 DEF OnFrame
  <2>3. \A s \in 0 .. SamplesPerPkt - 1 :
          hist_at(plc_observe(plc, pcm), SamplesPerPkt - 1 - s) = pcm[s + 1]
    BY <2>1, ObservedFrame
  <2>4. \A s \in 0 .. SamplesPerPkt - 1 :
          hist_at(plc', SamplesPerPkt - 1 - s) = lastReal'[s + 1]
    BY <2>2, <2>3
  <2> QED
    BY <2>2, <2>4 DEF HistoryHolds, hist_at
<1>2. ASSUME OnMalformed \/ UNCHANGED vars PROVE HistoryHolds'
  BY <1>2 DEF HistoryHolds, OnMalformed, vars, hist_at
<1> QED
  BY <1>1, <1>2 DEF Next

(* The ring holds the newest frame throughout.                             *)
LEMMA AlwaysHistoryHolds == Spec => []HistoryHolds
<1>1. Init => HistoryHolds
  BY InitIInv DEF Init, HistoryHolds, media_clock_init_anchored
<1>2. IInv /\ HistoryHolds /\ [Next]_vars => HistoryHolds'
  BY NextHistoryHolds
<1> QED
  BY <1>1, <1>2, PipelineInvariant, PTL DEF Spec

(* The concealment packets of a step: all but the last of its burst, each  *)
(* the substitute for its place, made of the newest frame.                 *)
LEMMA StepConceals ==
  ASSUME IInv, HistoryHolds, [Next]_vars, NEW j \in 1 .. Len(out'), out'[j].concealed,
         vars' # vars
  PROVE  /\ lastReal \in Packets /\ j \in Nat \ {0}
         /\ \A i \in 1 .. j : out'[i].concealed /\ out'[i].pcm = Substitute(lastReal, i - 1)
<1>1. PICK counter \in Counters, pcm \in Packets : OnFrame(counter, pcm)
  <2>1. CASE OnMalformed
    <3>1. out' = << >>
      BY <2>1 DEF OnMalformed
    <3> QED
      BY <3>1
  <2> QED
    BY <2>1 DEF Next
<1> DEFINE lost == LostBefore(clock, counter)
<1>2. /\ lost \in Nat /\ (~clock.started => lost = 0)
      /\ Len(out') = lost + 1
  BY <1>1, FrameFacts
<1>3. out' = [i \in 1 .. lost + 1 |->
                IF i <= lost
                THEN emit_pcm(i, (clock'.rtp_ts - (lost - i + 1) * SamplesPerPkt) % TsMod,
                              TRUE, plc_conceal(plc, i - 1))
                ELSE emit_pcm(i, clock'.rtp_ts, FALSE, pcm)]
  BY <1>1 DEF OnFrame, EmitBurst
<1> HIDE DEF lost
<1>4. j \in 1 .. lost + 1
  BY <1>2
<1>5. j <= lost
  <2> SUFFICES ASSUME ~(j <= lost) PROVE FALSE
    BY <1>2, <1>4
  <2>1. out'[j] = emit_pcm(j, clock'.rtp_ts, FALSE, pcm)
    BY <1>3, <1>4
  <2> QED
    BY <2>1 DEF emit_pcm
<1>6. clock.started /\ plc \in PlcChannels /\ plc.filled >= SamplesPerPkt
  BY <1>2, <1>4, <1>5 DEF IInv, TypeOK, ConcealsFromHistory
<1>7. /\ lastReal \in Packets
      /\ \A s \in 0 .. SamplesPerPkt - 1 :
           hist_at(plc, SamplesPerPkt - 1 - s) = lastReal[s + 1]
  BY <1>6 DEF HistoryHolds
<1>8. ASSUME NEW i \in 1 .. j
      PROVE  out'[i].concealed /\ out'[i].pcm = Substitute(lastReal, i - 1)
  <2>1. i \in 1 .. lost + 1 /\ i <= lost /\ i - 1 \in Nat
    BY <1>2, <1>4, <1>5
  <2>2. out'[i] = emit_pcm(i, (clock'.rtp_ts - (lost - i + 1) * SamplesPerPkt) % TsMod,
                           TRUE, plc_conceal(plc, i - 1))
    BY <1>3, <2>1
  <2>3. out'[i].concealed /\ out'[i].pcm = plc_conceal(plc, i - 1)
    BY <2>2 DEF emit_pcm
  <2>4. plc_conceal(plc, i - 1) = Substitute(lastReal, i - 1)
    BY <1>6, <1>7, <2>1, ConcealsWithFrame
  <2> QED
    BY <2>3, <2>4
<1> QED
  BY <1>2, <1>4, <1>7, <1>8

(* Every concealment packet repeats the newest frame decoded before the    *)
(* gap, wherever the history ring has wrapped and however long the burst.  *)
THEOREM AlwaysRepeatsNewestFrame == Spec => RepeatsNewestFrame
<1> DEFINE A == \A j \in 1 .. Len(out') :
                  out'[j].concealed => out'[j].pcm = Substitute(lastReal, j - 1)
<1>1. IInv /\ HistoryHolds /\ [Next]_vars => [A]_vars
  <2> SUFFICES ASSUME IInv, HistoryHolds, [Next]_vars, vars' # vars,
                      NEW j \in 1 .. Len(out'), out'[j].concealed
               PROVE  out'[j].pcm = Substitute(lastReal, j - 1)
    OBVIOUS
  <2>1. /\ j \in Nat \ {0}
        /\ \A i \in 1 .. j : out'[i].pcm = Substitute(lastReal, i - 1)
    BY StepConceals
  <2> QED
    BY <2>1
<1> HIDE DEF A
<1>2. Spec => [][A]_vars
  BY <1>1, PipelineInvariant, AlwaysHistoryHolds, PTL DEF Spec
<1> QED
  BY <1>2 DEF RepeatsNewestFrame, A

(* Concealment stays between the newest frame and zero and, past its       *)
(* crossfade, never swells, for every tuning of the fade whose gain ramp   *)
(* fits an int.                                                            *)
THEOREM ConcealmentNeverEverSwells == Spec => ConcealmentNeverSwells
<1> DEFINE span == {0} \cup {lastReal[i] : i \in 1 .. SamplesPerPkt}
           B(j, s) == LET y == out'[j].pcm[s]
                      IN  /\ \E lo \in span : lo <= y
                          /\ \E hi \in span : y <= hi
                          /\ j > 2 => LET before == out'[j - 1].pcm[s]
                                      IN  (y > 0 => y <= before) /\ (y < 0 => before <= y)
           A == \A j \in 1 .. Len(out') : FadeFits /\ out'[j].concealed =>
                  \A s \in 1 .. SamplesPerPkt : B(j, s)
<1>1. IInv /\ HistoryHolds /\ [Next]_vars => [A]_vars
  <2> SUFFICES ASSUME IInv, HistoryHolds, [Next]_vars, vars' # vars,
                      NEW j \in 1 .. Len(out'), FadeFits, out'[j].concealed,
                      NEW s \in 1 .. SamplesPerPkt
               PROVE  B(j, s)
    OBVIOUS
  <2>1. /\ lastReal \in Packets /\ j \in Nat \ {0}
        /\ \A i \in 1 .. j : out'[i].pcm = Substitute(lastReal, i - 1)
    BY StepConceals
  <2>2. out'[j].pcm = Substitute(lastReal, j - 1) /\ j - 1 \in Nat
    BY <2>1
  <2>3. /\ \E lo \in span : lo <= out'[j].pcm[s]
        /\ \E hi \in span : out'[j].pcm[s] <= hi
    BY <2>1, <2>2, SubstituteRange
  <2>4. ASSUME j > 2
        PROVE  LET y == out'[j].pcm[s]
                   before == out'[j - 1].pcm[s]
               IN  (y > 0 => y <= before) /\ (y < 0 => before <= y)
    <3> DEFINE k == j - 2
    <3>1. k \in Nat \ {0} /\ k + 1 = j - 1 /\ j - 1 \in 1 .. j /\ j - 1 - 1 = k
      BY <2>1, <2>4
    <3>2. out'[j - 1].pcm = Substitute(lastReal, k) /\ out'[j].pcm = Substitute(lastReal, k + 1)
      <4>1. out'[j - 1].pcm = Substitute(lastReal, (j - 1) - 1)
        BY <2>1, <3>1
      <4>2. (j - 1) - 1 = k
        BY <2>1
      <4> HIDE DEF k
      <4> QED
        BY <2>2, <3>1, <4>1, <4>2
    <3> HIDE DEF k
    <3> QED
      BY <2>1, <3>1, <3>2, SubstituteFades
  <2> HIDE DEF span
  <2> QED
    BY <2>3, <2>4
<1> HIDE DEF A
<1>2. Spec => [][A]_vars
  BY <1>1, PipelineInvariant, AlwaysHistoryHolds, PTL DEF Spec
<1> QED
  BY <1>2 DEF ConcealmentNeverSwells, A

-----------------------------------------------------------------------------
(***************************************************************************)
(* The pipeline behind the wire.                                           *)
(***************************************************************************)

(* The constants the counters are reckoned with.                           *)
LEMMA CounterWidth ==
  /\ CounterMod \in Nat \ {0} /\ HalfRange \in Nat \ {0}
  /\ CounterMod = HalfRange + HalfRange
  BY ClockAssumption DEF HalfRange

(* A remainder of the counter's width is a counter.                        *)
LEMMA CounterOf ==
  ASSUME NEW n \in Int
  PROVE  n % CounterMod \in Counters
  BY CounterWidth, DivMod DEF Counters

(* What SignedDelta computes from two counters, told from the numbers they *)
(* are remainders of.                                                      *)
LEMMA UnsignedDistance ==
  ASSUME NEW x \in Int, NEW y \in Int
  PROVE  ((y % CounterMod) - (x % CounterMod) - 1) % CounterMod = (y - x - 1) % CounterMod
<1> DEFINE a == y % CounterMod
           b == x % CounterMod
<1>1. CounterMod \in Nat \ {0} /\ a \in Int /\ b \in Int
  BY CounterWidth, DivMod
<1>2. (a - b) % CounterMod = (y - x) % CounterMod
  BY <1>1, ModDifference
<1> HIDE DEF a, b
<1>3. (((a - b) % CounterMod) + (-1)) % CounterMod = ((a - b) + (-1)) % CounterMod
  BY <1>1, a - b \in Int, -1 \in Int, ModAdd
<1>4. (((y - x) % CounterMod) + (-1)) % CounterMod = ((y - x) + (-1)) % CounterMod
  BY <1>1, y - x \in Int, -1 \in Int, ModAdd
<1>5. (a - b) + (-1) = a - b - 1 /\ (y - x) + (-1) = y - x - 1
  BY <1>1
<1> QED
  BY <1>2, <1>3, <1>4, <1>5 DEF a, b

(* The same, from a counter.                                               *)
LEMMA DistanceFrom ==
  ASSUME NEW c \in Counters, NEW y \in Int
  PROVE  ((y % CounterMod) - c - 1) % CounterMod = (y - c - 1) % CounterMod
<1>1. c % CounterMod = c /\ c \in Int
  BY CounterWidth, ModSmall DEF Counters
<1> QED
  BY <1>1, UnsignedDistance

(* Within half a period the signed distance is the distance: SignedDelta   *)
(* reads the counter as frames ahead of or behind the expected one.        *)
LEMMA SignedDistance ==
  ASSUME NEW x \in Int, NEW y \in Int, -HalfRange <= y - x - 1, y - x - 1 < HalfRange
  PROVE  SignedDelta(y % CounterMod, x % CounterMod) = y - x - 1
<1> DEFINE d == y - x - 1
<1>1. d \in Int /\ -HalfRange <= d /\ d < HalfRange
  OBVIOUS
<1>2. ((y % CounterMod) - (x % CounterMod) - 1) % CounterMod = d % CounterMod
  BY UnsignedDistance
<1> HIDE DEF d
<1>3. CASE d >= 0
  <2>1. d \in 0 .. CounterMod - 1
    BY <1>1, <1>3, CounterWidth
  <2>2. d % CounterMod = d
    BY <2>1, CounterWidth, ModSmall
  <2> QED
    BY <1>1, <1>2, <2>2 DEF SignedDelta, d
<1>4. CASE d < 0
  <2>1. d + CounterMod \in 0 .. CounterMod - 1 /\ d = CounterMod * (-1) + (d + CounterMod)
    BY <1>1, <1>4, CounterWidth
  <2>2. d % CounterMod = d + CounterMod
    BY <1>1, <2>1, CounterWidth, ModUnique, -1 \in Int
  <2>3. ~(d + CounterMod < HalfRange) /\ (d + CounterMod) - CounterMod = d
    BY <1>1, CounterWidth
  <2> QED
    BY <1>2, <2>2, <2>3 DEF SignedDelta, d
<1> QED
  BY <1>1, <1>3, <1>4

-----------------------------------------------------------------------------
(* The inductive invariant.  As long as the master was not restarted, the  *)
(* high-water counter is that of the newest frame delivered.  After a      *)
(* restart the clock has either caught up with the frame delivered last,   *)
(* or reads its counter as late, and every further frame in a row brings   *)
(* it one closer to the counter the clock waits for.                       *)

WireType ==
  /\ base \in Counters
  /\ high \in Int /\ prev \in Int
  /\ late \in Nat /\ run \in Nat /\ restarts \in Nat

NothingDelivered == ~clock.started => high = -1 /\ late = 0 /\ run = 0

HighWater ==
  clock.started /\ restarts = 0 => clock.last_counter = (base + high) % CounterMod

CatchingUp ==
  run > 0 =>
    \/ clock.last_counter = (base + prev) % CounterMod
    \/ (base + prev - clock.last_counter - 1) % CounterMod >= HalfRange + run - 1

WInv ==
  /\ IInv /\ WireType /\ NothingDelivered
  /\ HighWater /\ LossesExact /\ CatchingUp

(* The wire starts with nothing delivered.                                 *)
LEMMA InitWInv == WireInit => WInv
<1> SUFFICES ASSUME WireInit PROVE WInv
  OBVIOUS
<1>1. IInv
  BY InitIInv DEF WireInit
<1>2. ~clock.started
  BY DEF WireInit, Init, media_clock_init_anchored
<1>3. WireType /\ NothingDelivered /\ CatchingUp
  BY DEF WireInit, WireType, NothingDelivered, CatchingUp
<1> QED
  BY <1>1, <1>2, <1>3 DEF WInv, HighWater, LossesExact

(* What the delivery of frame k does: the pipeline takes a frame with a    *)
(* counter of its width.                                                   *)
LEMMA DeliverFacts ==
  ASSUME WInv, NEW k \in Deliverable, NEW pcm \in Packets, Deliver(k, pcm)
  PROVE  LET counter == (base + k) % CounterMod
             lost    == LostBefore(clock, counter)
         IN  /\ k \in Int /\ counter \in Counters
             /\ OnFrame(counter, pcm) /\ IInv'
             /\ lost \in Nat
             /\ clock'.started
             /\ clock'.last_counter = IF IsLate(clock, counter) THEN clock.last_counter ELSE counter
             /\ stats'.packets = stats.packets + 1
             /\ stats'.loss_total = stats.loss_total + lost
             /\ stats.packets \in Nat /\ stats.loss_total \in Nat
<1> DEFINE counter == (base + k) % CounterMod
<1>1. k \in Int
  <2>1. high \in Int /\ MaxReorder \in Int /\ MaxGap \in Int
    BY WireAssumption DEF WInv, WireType
  <2> QED
    BY <2>1 DEF Deliverable
<1>2. base \in Int
  BY CounterWidth DEF WInv, WireType, Counters
<1>3. counter \in Counters
  BY <1>1, <1>2, CounterOf
<1>4. OnFrame(counter, pcm)
  BY DEF Deliver
<1> HIDE DEF counter
<1>5. IInv'
  BY <1>3, <1>4, NextIInv DEF WInv, Next
<1>6. clock \in Clocks /\ stats \in Stats
  BY DEF WInv, IInv, TypeOK
<1>7. LostBefore(clock, counter) \in Nat
  BY <1>3, <1>6, LostBeforeRange
<1>8. clock' = media_clock_on_packet(clock, counter)
  BY <1>4 DEF OnFrame
<1>9. clock'.started
  BY <1>3, <1>6, <1>8, ClockStep
<1>10. clock'.last_counter = IF IsLate(clock, counter) THEN clock.last_counter ELSE counter
  BY <1>6, <1>8 DEF media_clock_on_packet, Clocks
<1>11. /\ stats'.packets = stats.packets + 1
       /\ stats'.loss_total = stats.loss_total + LostBefore(clock, counter)
       /\ stats.packets \in Nat /\ stats.loss_total \in Nat
  BY <1>4, <1>6 DEF OnFrame, Stats
<1> QED
  BY <1>1, <1>3, <1>4, <1>5, <1>7, <1>9, <1>10, <1>11 DEF counter

(* While the master keeps counting, a frame past the newest reports what   *)
(* was skipped, and any other reports nothing and moves nothing.           *)
LEMMA DeliverCounts ==
  ASSUME WInv, NEW k \in Deliverable, NEW pcm \in Packets, Deliver(k, pcm), restarts = 0
  PROVE  HighWater' /\ LossesExact'
<1> DEFINE counter == (base + k) % CounterMod
           lost    == LostBefore(clock, counter)
<1>1. /\ k \in Int /\ lost \in Nat
      /\ clock'.last_counter = IF IsLate(clock, counter) THEN clock.last_counter ELSE counter
      /\ stats'.packets = stats.packets + 1
      /\ stats'.loss_total = stats.loss_total + lost
      /\ stats.packets \in Nat /\ stats.loss_total \in Nat
  BY DeliverFacts
<1>2. /\ base' = base /\ restarts' = restarts
      /\ high' = (IF k > high THEN k ELSE high)
      /\ late' = (IF k > high THEN late ELSE late + 1)
  BY DEF Deliver
<1>3. /\ base \in Int /\ high \in Int /\ late \in Nat
  BY CounterWidth DEF WInv, WireType, Counters
<1>4. CASE ~clock.started
  <2>1. k = 0 /\ high = -1 /\ late = 0
    BY <1>4 DEF Deliverable, WInv, NothingDelivered
  <2>2. Emitted(stats) = 0
    BY <1>4 DEF WInv, IInv, ClockPosition
  <2>3. stats.packets = 0 /\ stats.concealed = 0 /\ stats.loss_total = 0
    <3>1. stats.concealed \in Nat /\ stats.loss_total = stats.concealed
      BY DEF WInv, IInv, TypeOK, Stats, LossAccounted
    <3> QED
      BY <1>1, <2>2, <3>1 DEF Emitted
  <2>4. lost = 0 /\ ~IsLate(clock, counter)
    BY <1>4 DEF LostBefore, IsLate
  <2> HIDE DEF lost
  <2>5. HighWater'
    BY <1>1, <1>2, <2>1, <2>4 DEF HighWater
  <2>6. LossesExact'
    BY <1>1, <1>2, <2>1, <2>3, <2>4 DEF LossesExact
  <2> QED
    BY <2>5, <2>6
<1>5. CASE clock.started
  <2>1. clock.last_counter = (base + high) % CounterMod
    BY <1>5 DEF WInv, HighWater
  <2>2. /\ high - MaxReorder <= k /\ k <= high + MaxGap + 1
        /\ MaxGap \in Nat /\ MaxGap < HalfRange
        /\ MaxReorder \in Nat /\ MaxReorder < HalfRange
    BY <1>3, <1>5, WireAssumption DEF Deliverable
  <2>3. /\ base + k \in Int /\ base + high \in Int
        /\ (base + k) - (base + high) - 1 = k - high - 1
        /\ -HalfRange <= k - high - 1 /\ k - high - 1 < HalfRange
    BY <1>1, <1>3, <2>2, CounterWidth
  <2>4. SignedDelta(counter, clock.last_counter) = k - high - 1
    <3> DEFINE x == base + high
               y == base + k
    <3>1. x \in Int /\ y \in Int /\ -HalfRange <= y - x - 1 /\ y - x - 1 < HalfRange
      BY <2>3
    <3> HIDE DEF x, y
    <3>2. SignedDelta(y % CounterMod, x % CounterMod) = y - x - 1
      BY <3>1, SignedDistance
    <3> QED
      BY <2>1, <2>3, <3>2 DEF x, y
  <2>5. /\ lost = IF k - high - 1 > 0 THEN k - high - 1 ELSE 0
        /\ IsLate(clock, counter) <=> k - high - 1 < 0
    BY <1>5, <2>4 DEF LostBefore, IsLate
  <2>6. stats.packets - late + stats.loss_total = high + 1
    BY <1>5 DEF WInv, LossesExact
  <2> HIDE DEF lost
  <2>7. CASE k > high
    <3>1. lost = k - high - 1 /\ ~IsLate(clock, counter)
      BY <1>1, <1>3, <2>5, <2>7
    <3>2. HighWater'
      BY <1>1, <1>2, <2>7, <3>1 DEF HighWater
    <3>3. LossesExact'
      BY <1>1, <1>2, <1>3, <2>6, <2>7, <3>1 DEF LossesExact
    <3> QED
      BY <3>2, <3>3
  <2>8. CASE ~(k > high)
    <3>1. lost = 0 /\ IsLate(clock, counter)
      BY <1>1, <1>3, <2>5, <2>8
    <3>2. HighWater'
      BY <1>1, <1>2, <2>1, <2>8, <3>1 DEF HighWater
    <3>3. LossesExact'
      BY <1>1, <1>2, <1>3, <2>6, <2>8, <3>1 DEF LossesExact
    <3> QED
      BY <3>2, <3>3
  <2> QED
    BY <2>7, <2>8
<1> QED
  BY <1>4, <1>5

(* A frame read as late is followed by one that is less late, until the    *)
(* clock takes one.                                                        *)
LEMMA DeliverCatchesUp ==
  ASSUME WInv, NEW k \in Deliverable, NEW pcm \in Packets, Deliver(k, pcm)
  PROVE  CatchingUp'
<1> DEFINE counter == (base + k) % CounterMod
           last    == clock.last_counter
           u       == (base + k - last - 1) % CounterMod
<1>1. /\ k \in Int /\ counter \in Counters
      /\ clock'.last_counter = IF IsLate(clock, counter) THEN last ELSE counter
  BY DeliverFacts
<1>2. /\ base' = base /\ prev' = k
      /\ run' = (IF k = prev + 1 THEN run + 1 ELSE 1)
  BY DEF Deliver
<1>3. /\ base \in Int /\ prev \in Int /\ run \in Nat /\ last \in Counters
  BY CounterWidth DEF WInv, WireType, Counters, IInv, TypeOK, Clocks
<1>4. last \in Int /\ base + k \in Int
  BY <1>1, <1>3, CounterWidth DEF Counters
<1>5. (counter - last - 1) % CounterMod = u
  <2> DEFINE y == base + k
  <2>1. y \in Int
    BY <1>4
  <2> HIDE DEF y
  <2>2. ((y % CounterMod) - last - 1) % CounterMod = (y - last - 1) % CounterMod
    BY <1>3, <2>1, DistanceFrom
  <2>3. (base + k) - last - 1 = base + k - last - 1
    BY <1>1, <1>3, <1>4
  <2> QED
    BY <2>2, <2>3 DEF y
<1>6. u \in 0 .. CounterMod - 1
  <2>1. base + k - last - 1 \in Int
    BY <1>1, <1>3, <1>4
  <2> QED
    BY <2>1, CounterWidth, DivMod
<1>7. IsLate(clock, counter) => u >= HalfRange
  <2> HIDE DEF u
  <2> QED
    BY <1>5, <1>6, CounterWidth DEF IsLate, SignedDelta
<1>8. CASE ~IsLate(clock, counter)
  BY <1>1, <1>2, <1>8 DEF CatchingUp
<1>9. CASE IsLate(clock, counter) /\ ~(run > 0 /\ k = prev + 1)
  <2>1. run' = 1
    BY <1>2, <1>3, <1>9
  <2>2. u >= HalfRange + run' - 1
    BY <1>6, <1>7, <1>9, <2>1, CounterWidth
  <2> QED
    BY <1>1, <1>2, <1>9, <2>2 DEF CatchingUp
<1>10. CASE IsLate(clock, counter) /\ run > 0 /\ k = prev + 1
  <2> DEFINE v == (base + prev - last - 1) % CounterMod
             n == base + prev - last - 1
  <2>1. n \in Int /\ base + k - last - 1 = n + 1
    BY <1>3, <1>4, <1>10
  <2>2. v \in 0 .. CounterMod - 1
    BY <2>1, CounterWidth, DivMod
  <2>3. (v + 1) % CounterMod = u
    BY <2>1, CounterWidth, ModAdd
  <2>4. last = (base + prev) % CounterMod => v = CounterMod - 1
    <3>1. SUFFICES ASSUME last = (base + prev) % CounterMod PROVE v = CounterMod - 1
      OBVIOUS
    <3> DEFINE y == base + prev
    <3>2. y \in Int
      BY <1>3
    <3> HIDE DEF y
    <3>3. ((y % CounterMod) - last - 1) % CounterMod = (y - last - 1) % CounterMod
      BY <1>3, <3>2, DistanceFrom
    <3>4. (y % CounterMod) - last - 1 = -1
      BY <1>4, <3>1 DEF y
    <3>5. (-1) % CounterMod = CounterMod - 1
      <4>1. CounterMod - 1 \in 0 .. CounterMod - 1 /\ -1 = CounterMod * (-1) + (CounterMod - 1)
        BY CounterWidth
      <4> QED
        BY <4>1, CounterWidth, ModUnique, -1 \in Int
    <3>6. (base + prev) - last - 1 = base + prev - last - 1
      BY <1>3, <1>4
    <3> QED
      BY <3>3, <3>4, <3>5, <3>6 DEF y
  <2> HIDE DEF v, u, n
  <2>5. v + 1 < CounterMod
    <3> SUFFICES ASSUME v + 1 >= CounterMod PROVE FALSE
      BY <2>2, CounterWidth
    <3>1. v + 1 = CounterMod * 1 + 0 /\ v + 1 \in Int /\ 0 \in 0 .. CounterMod - 1
      BY <2>2, CounterWidth
    <3>2. (v + 1) % CounterMod = 0
      BY <3>1, CounterWidth, ModUnique, 1 \in Int
    <3> QED
      BY <1>7, <1>10, <2>3, <3>2, CounterWidth
  <2>6. u = v + 1
    <3>1. v + 1 \in 0 .. CounterMod - 1
      BY <2>2, <2>5, CounterWidth
    <3> QED
      BY <2>3, <3>1, CounterWidth, ModSmall
  <2>7. v >= HalfRange + run - 1
    <3>1. last # (base + prev) % CounterMod
      BY <2>2, <2>4, <2>5, CounterWidth
    <3> QED
      BY <1>10, <3>1 DEF WInv, CatchingUp, v
  <2>8. u >= HalfRange + run' - 1
    BY <1>2, <1>3, <1>10, <2>2, <2>6, <2>7, CounterWidth
  <2> QED
    BY <1>1, <1>2, <1>10, <2>8 DEF CatchingUp, u
<1> QED
  BY <1>8, <1>9, <1>10

(* The delivery of a frame keeps the invariant.                            *)
LEMMA DeliverWInv ==
  ASSUME WInv, NEW k \in Deliverable, NEW pcm \in Packets, Deliver(k, pcm)
  PROVE  WInv'
<1>1. k \in Int /\ IInv' /\ clock'.started
  BY DeliverFacts
<1>2. WireType'
  BY <1>1 DEF WInv, WireType, Deliver
<1>3. NothingDelivered'
  BY <1>1 DEF NothingDelivered
<1>4. HighWater' /\ LossesExact'
  <2>1. CASE restarts = 0
    BY <2>1, DeliverCounts
  <2>2. CASE restarts # 0
    BY <2>2 DEF Deliver, HighWater, LossesExact
  <2> QED
    BY <2>1, <2>2
<1>5. CatchingUp'
  BY DeliverCatchesUp
<1> QED
  BY <1>1, <1>2, <1>3, <1>4, <1>5 DEF WInv

(* A corrupted frame moves neither the clock nor the losses.               *)
LEMMA CorruptWInv == ASSUME WInv, Corrupt PROVE WInv'
<1>1. IInv'
  BY MalformedIInv DEF WInv, Corrupt
<1>2. UNCHANGED <<base, high, prev, late, run, restarts, clock>>
  BY DEF Corrupt, wireVars, OnMalformed
<1>3. stats'.packets = stats.packets /\ stats'.loss_total = stats.loss_total
  BY DEF Corrupt, OnMalformed, WInv, IInv, TypeOK, Stats
<1>4. WireType' /\ NothingDelivered' /\ HighWater' /\ LossesExact' /\ CatchingUp'
  BY <1>2, <1>3 DEF WInv, WireType, NothingDelivered, HighWater, LossesExact, CatchingUp
<1> QED
  BY <1>1, <1>4 DEF WInv

(* A restart of the master leaves the pipeline as it is, and no run.       *)
LEMMA RestartWInv == ASSUME WInv, Restart PROVE WInv'
<1>1. /\ UNCHANGED <<high, prev, late>> /\ UNCHANGED vars
      /\ restarts' = restarts + 1 /\ base' \in Counters /\ run' = 0
  BY DEF Restart
<1>2. IInv'
  BY <1>1, NextIInv DEF WInv
<1>3. clock' = clock
  BY <1>1 DEF vars
<1>4. restarts' \in Nat /\ restarts' # 0
  BY <1>1 DEF WInv, WireType
<1>5. WireType' /\ NothingDelivered' /\ CatchingUp'
  BY <1>1, <1>3, <1>4 DEF WInv, WireType, NothingDelivered, CatchingUp
<1>6. HighWater' /\ LossesExact'
  BY <1>4 DEF HighWater, LossesExact
<1> QED
  BY <1>2, <1>5, <1>6 DEF WInv

(* WInv is inductive: every step of the wire keeps it.                     *)
LEMMA NextWInv == WInv /\ [WireNext]_wireAllVars => WInv'
<1> SUFFICES ASSUME WInv, [WireNext]_wireAllVars PROVE WInv'
  OBVIOUS
<1>1. CASE UNCHANGED wireAllVars
  <2>1. UNCHANGED vars /\ UNCHANGED <<base, high, prev, late, run, restarts>>
    BY <1>1 DEF wireAllVars, wireVars
  <2>2. IInv'
    BY <2>1, NextIInv DEF WInv
  <2>3. clock' = clock /\ stats' = stats
    BY <2>1 DEF vars
  <2> QED
    BY <2>1, <2>2, <2>3 DEF WInv, WireType, NothingDelivered, HighWater, LossesExact, CatchingUp
<1> QED
  BY <1>1, DeliverWInv, CorruptWInv, RestartWInv DEF WireNext

(* WInv holds in every state of every behaviour.                           *)
THEOREM WireInvariant == WireSpec => []WInv
  BY InitWInv, NextWInv, PTL DEF WireSpec

-----------------------------------------------------------------------------
(* The pipeline behind the wire is the pipeline: whatever the wire does, a *)
(* behaviour of WireSpec is one of Spec, so that every theorem about the   *)
(* pipeline holds of it.                                                   *)
THEOREM WireFeedsPipeline == WireSpec => Spec
<1>1. WireInit => Init
  BY DEF WireInit
<1>2. WInv /\ [WireNext]_wireAllVars => [Next]_vars
  <2> SUFFICES ASSUME WInv, [WireNext]_wireAllVars PROVE [Next]_vars
    OBVIOUS
  <2>1. ASSUME NEW k \in Deliverable, NEW pcm \in Packets, Deliver(k, pcm)
        PROVE  Next
    BY <2>1, DeliverFacts DEF Next
  <2> QED
    BY <2>1 DEF WireNext, Corrupt, Restart, Next, wireAllVars
<1> QED
  BY <1>1, <1>2, WireInvariant, PTL DEF WireSpec, Spec

(* media_clock_on_packet keeps the clock on the master's timeline, for any *)
(* losses, duplicates and late frames within half a counter period.        *)
THEOREM TimelineAlwaysTracksMaster == WireSpec => []TimelineTracksMaster
<1>1. WInv => TimelineTracksMaster
  <2> SUFFICES ASSUME WInv, clock.started, restarts = 0
               PROVE  clock.rtp_ts = (clock.anchor + (high + late) * SamplesPerPkt) % TsMod
    BY DEF TimelineTracksMaster
  <2>1. clock.rtp_ts = (clock.anchor + (Emitted(stats) - 1) * SamplesPerPkt) % TsMod
    BY DEF WInv, IInv, ClockPosition
  <2>2. /\ stats.packets \in Nat /\ stats.concealed \in Nat
        /\ stats.loss_total = stats.concealed
        /\ high \in Int /\ late \in Nat
    BY DEF WInv, WireType, IInv, TypeOK, Stats, LossAccounted
  <2>3. stats.packets - late + stats.loss_total = high + 1
    BY DEF WInv, LossesExact
  <2>4. Emitted(stats) - 1 = high + late
    BY <2>2, <2>3 DEF Emitted
  <2> QED
    BY <2>1, <2>4
<1> QED
  BY <1>1, WireInvariant, PTL

(* loss_total is the number of frames the wire lost, exactly.              *)
THEOREM LossesAlwaysExact == WireSpec => []LossesExact
<1>1. WInv => LossesExact
  BY DEF WInv
<1> QED
  BY <1>1, WireInvariant, PTL

(* media_clock_on_packet follows a restarted master again after at most    *)
(* half a counter period of frames in a row.                               *)
THEOREM AlwaysResyncs == WireSpec => []ResyncsWithinHalfPeriod
<1>1. WInv => ResyncsWithinHalfPeriod
  <2> SUFFICES ASSUME WInv, run > HalfRange
               PROVE  clock.last_counter = (base + prev) % CounterMod
    BY DEF ResyncsWithinHalfPeriod
  <2> DEFINE n == base + prev - clock.last_counter - 1
  <2>1. run \in Nat /\ run > 0
    BY CounterWidth DEF WInv, WireType
  <2>2. n \in Int
    BY CounterWidth DEF WInv, WireType, IInv, TypeOK, Clocks, Counters
  <2>3. n % CounterMod \in 0 .. CounterMod - 1
    BY <2>2, CounterWidth, DivMod
  <2> HIDE DEF n
  <2>4. ~(n % CounterMod >= HalfRange + run - 1)
    BY <2>1, <2>3, CounterWidth
  <2> QED
    BY <2>1, <2>4 DEF WInv, CatchingUp, n
<1> QED
  BY <1>1, WireInvariant, PTL
=============================================================================
