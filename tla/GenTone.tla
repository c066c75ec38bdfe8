------------------------------ MODULE GenTone ------------------------------
(***************************************************************************)
(* The test tone (src/src/tone.c) as run_gen_tone sends it, a packet at a  *)
(* time.  Of a waveform its phase is kept, exactly: the base phase t.phase *)
(* in units of 1/SampleRate of a turn, a channel's in units Freq times     *)
(* finer.                                                                  *)
(***************************************************************************)
EXTENDS Integers

CONSTANTS
  SampleRate,  \* samples per second
  Ns,          \* samples_per_pkt
  Freq,        \* freq_hz of channel 0, not 0
  Detune,      \* per_channel_detune
  Channels,    \* 0 .. n_channels - 1
  SeqMod,      \* range of the RTP sequence number (2^16)
  TsMod        \* range of the RTP timestamp (2^32)

VARIABLES
  phase,           \* t.phase
  seq, timestamp,  \* rtp
  due              \* history: the phase after each channel's last sample

vars == <<phase, seq, timestamp, due>>

FullTurn  == SampleRate
f(ch)     == Freq + ch * Detune
Same(a, b) == (a - b) % (FullTurn * Freq) = 0

(* The argument of the sine for sample s of a packet.                      *)
Sample(ch, s) == phase * f(ch) + f(ch) * s * Freq

Init ==
  /\ phase = 0 /\ seq = 0 /\ timestamp = 0
  /\ due = [ch \in Channels |-> 0]

(* "keep phase bounded": whole turns are taken off.  Whether the last one  *)
(* of a phase that comes out even is taken depends on the rounding.        *)
Bounded(x) == {y \in 0 .. FullTurn : (x - y) % FullTurn = 0}

(* A turn of run_gen_tone's loop: tone_fill, and the packet is sent.       *)
Packet ==
  /\ due' = [ch \in Channels |-> Sample(ch, Ns)]
  /\ phase' \in Bounded(phase + Freq * Ns)
  /\ seq' = (seq + 1) % SeqMod
  /\ timestamp' = (timestamp + Ns) % TsMod

Spec == Init /\ [][Packet]_vars

-----------------------------------------------------------------------------
(* "the waveform is continuous across packets" (tone.c): in every channel  *)
(* the next packet begins where the last one left off.                     *)
ContinuousAcrossPackets == \A ch \in Channels : Same(Sample(ch, 0), due[ch])
=============================================================================
