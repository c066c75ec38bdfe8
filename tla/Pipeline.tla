------------------------------ MODULE Pipeline ------------------------------
(***************************************************************************)
(* The REAC -> RTP pipeline (src/src/pipeline.c): decode, media clock,     *)
(* loss concealment, emission, statistics.                                 *)
(*                                                                         *)
(* pipeline_on_frame runs to completion on the one thread that owns the    *)
(* pipeline, so it is one action: it emits the concealment packets of a    *)
(* gap, then the frame itself.  The packets one call emits are the value   *)
(* of `out`, in emission order.  The counter of a frame is arbitrary here: *)
(* nothing is assumed of the wire (GenlockedWire adds the sender).         *)
(***************************************************************************)
EXTENDS MediaClock, Plc, Rtp

CONSTANTS Anchors,     \* timestamps a PTP-locked stream may start from
          MaxFrames    \* bound: frames handed to the pipeline

ASSUME PipelineAssumption ==
  /\ Anchors \subseteq Timestamps
  /\ MaxFrames \in Nat

VARIABLES
  sink,      \* TRUE when a PCM sink is set (the Dante profile)
  clock,     \* struct media_clock
  plc,       \* struct plc (one channel)
  seq,       \* rtp.seq: the sequence number of the next RTP packet
  stats,     \* struct pipeline_stats
  out,       \* what the last call emitted, in order
  lastReal   \* history: the audio of the newest decoded frame

vars == <<sink, clock, plc, seq, stats, out, lastReal>>

Stats == [packets : Nat, concealed : Nat, loss_total : Nat, malformed : Nat,
          last_seq : 0 .. SeqMod - 1, last_tier : -1 .. 3]

(* A sink frame carries no sequence number: the packetizer numbers the     *)
(* packets it makes of them.                                               *)
NoSeq == -1

Emissions == [ts : Timestamps, seq : NoSeq .. SeqMod - 1, concealed : BOOLEAN,
              pcm : Seq(Int)]

(* Packets or sink frames emitted since the start.                         *)
Emitted(st) == st.packets + st.concealed

(* What pipeline_on_frame was called with so far.                          *)
FramesTaken == stats.packets + stats.malformed

-----------------------------------------------------------------------------
(* pipeline_init_ex, then for the Dante profile pipeline_set_pcm_sink and  *)
(* pipeline_anchor, all before the first frame.                            *)
Init ==
  /\ sink \in BOOLEAN
  /\ \E a \in Anchors \cup {0} :
       /\ ~sink => a = 0
       /\ clock = media_clock_init_anchored(a)
  /\ plc = plc_init
  /\ seq = 0
  /\ stats = [packets |-> 0, concealed |-> 0, loss_total |-> 0, malformed |-> 0,
              last_seq |-> 0, last_tier |-> -1]
  /\ out = << >>
  /\ lastReal = << >>

(* Fault: the packets of one call share a sequence number.                 *)
EmitSameSeq(i, ts, concealed, pcm) ==
  [ts |-> ts, seq |-> IF sink THEN NoSeq ELSE seq, concealed |-> concealed, pcm |-> pcm]

(* emit_pcm for the i-th of the packets of one call.  Only the RTP path    *)
(* numbers packets.                                                        *)
emit_pcm(i, ts, concealed, pcm) ==
  [ts |-> ts, seq |-> IF sink THEN NoSeq ELSE (seq + i - 1) % SeqMod,
   concealed |-> concealed, pcm |-> pcm]

(* The packets of one call: lost concealment packets in the slots before   *)
(* the frame's own, then the frame.                                        *)
EmitBurst(lost, ts, pcm) ==
  [i \in 1 .. lost + 1 |->
     IF i <= lost
     THEN emit_pcm(i, (ts - (lost - i + 1) * SamplesPerPkt) % TsMod,
                   TRUE, plc_conceal(plc, i - 1))
     ELSE emit_pcm(i, ts, FALSE, pcm)]

(* pipeline_on_frame for a frame that decodes.                             *)
OnFrame(counter, pcm) ==
  LET lost == LostBefore(clock, counter)
  IN  /\ FramesTaken < MaxFrames
      /\ clock' = media_clock_on_packet(clock, counter)
      /\ out' = EmitBurst(lost, clock'.rtp_ts, pcm)
      /\ seq' = IF sink THEN seq ELSE (seq + lost + 1) % SeqMod
      /\ stats' = [stats EXCEPT
                     !.loss_total = @ + lost,
                     !.concealed  = @ + lost,
                     !.packets    = @ + 1,
                     !.last_seq   = IF sink THEN @ ELSE (seq + lost) % SeqMod,
                     !.last_tier  = IF lost > 0 THEN ConcealTier(plc, lost - 1)
                                    ELSE @]
      /\ plc' = plc_observe(plc, pcm)
      /\ lastReal' = pcm
      /\ UNCHANGED sink

(* pipeline_on_frame for a frame reac_decode rejects: nothing is emitted.  *)
OnMalformed ==
  /\ FramesTaken < MaxFrames
  /\ stats' = [stats EXCEPT !.malformed = @ + 1]
  /\ out' = << >>
  /\ UNCHANGED <<sink, clock, plc, seq, lastReal>>

Next ==
  \/ \E counter \in Counters, pcm \in Packets : OnFrame(counter, pcm)
  \/ OnMalformed

Spec == Init /\ [][Next]_vars

-----------------------------------------------------------------------------
TypeOK ==
  /\ sink \in BOOLEAN
  /\ clock \in Clocks
  /\ plc \in PlcChannels
  /\ seq \in 0 .. SeqMod - 1
  /\ stats \in Stats
  /\ out \in Seq(Emissions)
  /\ lastReal \in Packets \cup {<< >>}

(* The slot of the j-th packet of the last call in the whole stream.       *)
StreamPos(j) == Emitted(stats) - Len(out) + j - 1

(* The timeline has neither holes nor overlaps: whatever counters arrive   *)
(* (lost, duplicated, late or restarted), the n-th packet ever emitted is  *)
(* stamped with the anchor plus n frames of samples, modulo 2^32.          *)
TimelineContiguous ==
  \A j \in 1 .. Len(out) :
    out[j].ts = (clock.anchor + StreamPos(j) * SamplesPerPkt) % TsMod

(* The RTP path numbers the n-th packet ever emitted n, modulo 2^16, the   *)
(* concealment packets included, and last_seq is the newest number used;   *)
(* the sink path uses no numbers.                                          *)
SequenceContiguous ==
  /\ \A j \in 1 .. Len(out) :
       out[j].seq = IF sink THEN NoSeq ELSE StreamPos(j) % SeqMod
  /\ out # << >> /\ ~sink => stats.last_seq = out[Len(out)].seq

(* The three places that count losses agree: the pipeline's loss_total,    *)
(* the concealment packets it emitted and the clock's total_lost.          *)
LossAccounted ==
  /\ stats.loss_total = clock.total_lost
  /\ stats.concealed = clock.total_lost

(* One frame never triggers more than half a counter period of packets,    *)
(* and the frame itself is the last of them: a duplicate or a late frame   *)
(* read as an unsigned distance would trigger almost a whole period.       *)
BurstBounded ==
  out # << >> =>
    /\ Len(out) <= HalfRange
    /\ \A j \in 1 .. Len(out) : out[j].concealed <=> j < Len(out)

(* Concealment always has a whole packet to repeat: the tiers for a short  *)
(* or an empty history are never reached behind the media clock, because   *)
(* a loss is only seen after a first frame was observed.                   *)
ConcealsFromHistory ==
  /\ stats.last_tier \in {-1, TierRepeatXfade, TierBurstFade}
  /\ clock.started => plc.filled >= SamplesPerPkt

(* What a concealment packet must sound like, told from the newest frame   *)
(* itself and not from the ring: a crossfade into it for the first lost    *)
(* packet, then the frame at the gain of its place in the burst, in 24     *)
(* bits.                                                                   *)
Substitute(pcm, k) ==
  [s \in 1 .. SamplesPerPkt |->
     store24(IF k = 0 THEN Crossfade(pcm[SamplesPerPkt], pcm[s], s - 1)
             ELSE Scale(pcm[s], burst_gain_q15(k)))]

(* Every concealment packet is made of the newest frame decoded before the *)
(* gap, sample by sample, wherever the history ring has wrapped.           *)
RepeatsNewestFrame ==
  [][\A j \in 1 .. Len(out') :
       out'[j].concealed => out'[j].pcm = Substitute(lastReal, j - 1)]_vars

(* Concealment never makes a sample that lies outside the span of the      *)
(* newest frame and zero, and once the burst is past its crossfade every   *)
(* packet is at most as loud as the one before it.  Said of the fades      *)
(* whose gain ramp fits an int (plc.c:69); in a longer one a product wraps *)
(* and turns the sign of the samples.                                      *)
ConcealmentNeverSwells ==
  [][\A j \in 1 .. Len(out') : FadeFits /\ out'[j].concealed =>
       \A s \in 1 .. SamplesPerPkt :
         LET y == out'[j].pcm[s]
             span == {0} \cup {lastReal[i] : i \in 1 .. SamplesPerPkt}
         IN  /\ \E lo \in span : lo <= y
             /\ \E hi \in span : y <= hi
             /\ j > 2 => LET before == out'[j - 1].pcm[s]
                         IN  (y > 0 => y <= before) /\ (y < 0 => before <= y)]_vars

=============================================================================
