------------------------------ MODULE SinkNode ------------------------------
(***************************************************************************)
(* The playback node of reac-pw: on_process of reac_sink_node.c stages the *)
(* graph's audio into frames, reac_tx.c encodes and sends them.            *)
(*                                                                         *)
(* A sample is a number of half units of the 24-bit scale, so that there   *)
(* is something to round; Input says what the graph plays on a channel.    *)
(* A step is one turn of on_process' loop over the samples of a cycle.  A  *)
(* cycle with no port linked returns at once, leaves the stage as it is    *)
(* and does not count as played.                                           *)
(***************************************************************************)
EXTENDS ReacMode, Integers, Sequences

CONSTANTS
  NChannels,     \* channels of a REAC frame (40)
  SinkChannels,  \* channels of the sink, at most NChannels
  SMax,          \* the largest sample of the wire (8388607)
  TxCounterMod,  \* values of the frame counter (2^16)
  Quanta,        \* samples the graph may ask for in one cycle
  Input(_, _),   \* the i-th sample of channel c, in half units
  MaxSamples,    \* bound: samples played
  MaxFails       \* bound: sends that fail in a row

ASSUME SinkAssumption ==
  /\ NChannels \in Nat \ {0} /\ SinkChannels \in 1 .. NChannels
  /\ SMax \in Nat \ {0}
  /\ TxCounterMod \in Nat \ {0}
  /\ Quanta \subseteq Nat \ {0}
  /\ MaxSamples \in Nat
  /\ MaxFails \in Nat /\ MaxFails < TxCounterMod

Ports == 0 .. SinkChannels - 1

ASSUME InputAssumption ==
  \A c \in Ports, i \in 0 .. MaxSamples : Input(c, i) \in Int

Chans == 0 .. NChannels - 1
Slots == 0 .. SamplesPerPkt - 1

(* The values a 24-bit field of the wire can hold, as unsigned numbers.    *)
WireRange == 2 * (SMax + 1)

VARIABLES
  stage, staged,  \* the samples waiting for a frame, and how many
  counter,        \* tx.counter
  linked,         \* the ports with a buffer in this cycle
  left,           \* samples of the cycle still to be staged
  air,            \* frames sent and not yet received
  fails,          \* sends that failed since the last that did not
  pos,            \* history: samples played so far
  muted           \* history: the <<channel, sample>> played while unlinked

sinkVars == <<stage, staged, counter, linked, left, air, fails, pos, muted>>

SinkInit ==
  /\ stage = [c \in Ports |-> [s \in Slots |-> 0]]
  /\ staged = 0 /\ counter = 0 /\ linked = {} /\ left = 0
  /\ air = << >> /\ fails = 0 /\ pos = 0 /\ muted = {}

-----------------------------------------------------------------------------
(* lrintf: the nearest whole unit, halves to the even one.                 *)
lrintf(x) ==
  LET q == x \div 2
  IN  IF x % 2 = 0 THEN q ELSE q + (q % 2)

(* Clamped to the scale, rounded, and stored as two's complement.          *)
f32_to_s24le(x) ==
  LET y == IF x > 2 * SMax THEN 2 * SMax
           ELSE IF x < -2 * (SMax + 1) THEN -2 * (SMax + 1) ELSE x
  IN  lrintf(y) % WireRange

(* Fault: the audio is laid out channel by channel.                        *)
BuildPlanar(planar, count) ==
  [counter |-> count,
   audio |-> [p \in 0 .. SamplesPerPkt * NChannels - 1 |->
                LET s == p % SamplesPerPkt
                    ch == p \div SamplesPerPkt
                IN  f32_to_s24le(IF ch < SinkChannels THEN planar[ch][s] ELSE 0)]]

(* The audio of a frame is laid out sample by sample, all channels of the  *)
(* frame in order; those the sink does not have are silent.                *)
reac_tx_build(planar, count) ==
  [counter |-> count,
   audio |-> [p \in 0 .. SamplesPerPkt * NChannels - 1 |->
                LET s == p \div NChannels
                    ch == p % NChannels
                IN  f32_to_s24le(IF ch < SinkChannels THEN planar[ch][s] ELSE 0)]]

(* on_process fetches the buffers of n samples of the linked ports.        *)
ProcessBegin(n, ports) ==
  /\ left = 0 /\ ports # {}
  /\ pos + n <= MaxSamples
  /\ linked' = ports /\ left' = n
  /\ UNCHANGED <<stage, staged, counter, air, fails, pos, muted>>

(* The stage with the next sample of every port; an unlinked one is silent. *)
NextStage ==
  [c \in Ports |-> [stage[c] EXCEPT ![staged] =
                      IF c \in linked THEN Input(c, pos) ELSE 0]]

(* The cycle has played one more sample.                                   *)
Played ==
  /\ stage' = NextStage
  /\ left' = left - 1 /\ pos' = pos + 1
  /\ muted' = muted \cup {<<c, pos>> : c \in Ports \ linked}
  /\ UNCHANGED linked

(* Fault: the last sample of a cycle always closes the stage.              *)
StageSampleDropping ==
  /\ left > 0 /\ staged + 1 < SamplesPerPkt
  /\ Played
  /\ staged' = IF left = 1 THEN 0 ELSE staged + 1
  /\ UNCHANGED <<counter, air, fails>>

StageSample ==
  /\ left > 0 /\ staged + 1 < SamplesPerPkt
  /\ Played
  /\ staged' = staged + 1
  /\ UNCHANGED <<counter, air, fails>>

(* Fault: a frame that was not sent does not use up its number.            *)
CountWhenSent(sent) == IF sent THEN (counter + 1) % TxCounterMod ELSE counter

(* The counter moves on whether or not sendto succeeds.                    *)
NextCounter(sent) == (counter + 1) % TxCounterMod

(* The stage is full: reac_tx_emit builds the frame and tries to send it.  *)
(* n is history: which of the frames played this is.                       *)
StageAndEmit(sent) ==
  /\ left > 0 /\ staged + 1 = SamplesPerPkt
  /\ sent \/ fails < MaxFails
  /\ Played
  /\ staged' = 0
  /\ counter' = NextCounter(sent)
  /\ air' = IF sent THEN Append(air, [frame |-> reac_tx_build(NextStage, counter),
                                      n |-> pos \div SamplesPerPkt])
            ELSE air
  /\ fails' = IF sent THEN 0 ELSE fails + 1

SinkNext ==
  \/ \E n \in Quanta, ports \in SUBSET Ports : ProcessBegin(n, ports)
  \/ StageSample
  \/ \E sent \in BOOLEAN : StageAndEmit(sent)

-----------------------------------------------------------------------------
(* The wire's cadence is that of the graph: whatever the quanta, one frame *)
(* leaves for every SamplesPerPkt samples, the rest waits in the stage,    *)
(* and the counter counts frames whether or not they could be sent.        *)
CadenceFollowsGraph ==
  /\ staged = pos % SamplesPerPkt
  /\ counter = (pos \div SamplesPerPkt) % TxCounterMod
=============================================================================
