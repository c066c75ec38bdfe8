----------------------------- MODULE Packetizer -----------------------------
(***************************************************************************)
(* The aggregation of REAC frames into RTP packets for the Dante profile   *)
(* (src/src/packetizer.c): frames_per_packet frames make a window, and a   *)
(* full window becomes one packet per flow, a slice of the channels.       *)
(*                                                                         *)
(* struct packetizer and the flows it refers to are owned by the thread    *)
(* that runs the pipeline, so they are a record here; Dante holds it in a  *)
(* variable.                                                               *)
(***************************************************************************)
EXTENDS ReacMode, Rtp

CONSTANTS NChannels,         \* channels of a frame (40)
          ChPerFlow,         \* channels per flow asked for (8)
          FramesPerPacket    \* frames per packet asked for (4)

ASSUME PacketizerAssumption ==
  /\ NChannels \in Nat \ {0}
  /\ ChPerFlow \in Nat \ {0}
  /\ FramesPerPacket \in Int

Chans == 0 .. NChannels - 1

(* packetizer_init clamps frames_per_packet to 1 .. PACKETIZER_MAX_FPP.    *)
PACKETIZER_MAX_FPP == 4

Fpp == IF FramesPerPacket < 1 THEN 1
       ELSE IF FramesPerPacket > PACKETIZER_MAX_FPP THEN PACKETIZER_MAX_FPP
       ELSE FramesPerPacket

WindowSamples == Fpp * SamplesPerPkt

(* dante_build_flows: the channels in slices of ChPerFlow, the last one    *)
(* perhaps narrower.                                                       *)
NFlows == (NChannels + ChPerFlow - 1) \div ChPerFlow
Flows  == 0 .. NFlows - 1

dante_build_flows ==
  [i \in Flows |->
     LET start == i * ChPerFlow
         width == NChannels - start
     IN  [ch_start |-> start, n_ch |-> IF width > ChPerFlow THEN ChPerFlow ELSE width]]

(* The planar window before a sample was put into it.                      *)
Unset == << >>

packetizer_init ==
  [frames_buffered |-> 0, pending_ts |-> 0, pending_concealed |-> FALSE,
   planar |-> [p \in 0 .. NChannels * WindowSamples - 1 |-> Unset],
   seq |-> [i \in Flows |-> 0]]

(* A frame's samples go to offset f * SamplesPerPkt of every channel.      *)
AppendFrame(planar, f, frame) ==
  [p \in DOMAIN planar |->
     LET c == p \div WindowSamples
         s == (p % WindowSamples) - f * SamplesPerPkt
     IN  IF s \in 0 .. SamplesPerPkt - 1 THEN frame[c * SamplesPerPkt + s]
         ELSE planar[p]]

(* Fault: every frame of the window sets its timestamp.                    *)
NewestTs(pk, ts) == ts

(* The window carries the timestamp of its first frame ...                 *)
WindowTs(pk, ts) == IF pk.frames_buffered = 0 THEN ts ELSE pk.pending_ts

(* Fault: the mark of a concealed frame outlives its window.               *)
StickyMark(pk, concealed) == pk.pending_concealed \/ concealed

(* ... and is marked when any of its frames was concealed.                 *)
WindowMark(pk, concealed) ==
  concealed \/ (pk.frames_buffered > 0 /\ pk.pending_concealed)

(* The window after a frame joined it, before it is sent if full.          *)
Gather(pk, frame, ts, concealed) ==
  [pk EXCEPT
     !.pending_ts        = WindowTs(pk, ts),
     !.pending_concealed = WindowMark(pk, concealed),
     !.planar            = AppendFrame(@, pk.frames_buffered, frame),
     !.frames_buffered   = @ + 1]

(* One packet per flow.                                                    *)
WindowPackets(w) ==
  [i \in Flows |->
     LET fl == dante_build_flows[i]
     IN  [seq |-> w.seq[i], ts |-> w.pending_ts, concealed |-> w.pending_concealed,
          payload |-> rtp_l24_build_flow(w.planar, fl.ch_start, fl.n_ch, WindowSamples)]]

(* What a push hands to the emit callback when the window is not full.     *)
Nothing == << >>

NextSeq(n) == (n + 1) % SeqMod

(* Fault: the window is not emptied when it is sent.                       *)
PushWithoutReset(pk, frame, ts, concealed) ==
  LET w == Gather(pk, frame, ts, concealed)
  IN  IF w.frames_buffered < Fpp THEN [pk |-> w, packets |-> Nothing]
      ELSE [pk |-> [w EXCEPT !.frames_buffered = @ - 1,
                             !.seq = [i \in Flows |-> NextSeq(@[i])]],
            packets |-> WindowPackets(w)]

(* packetizer_push: the packetizer afterwards and the packets it emits,    *)
(* none or one per flow.  rtp_l24_build_flow cannot fail here: the flows   *)
(* lie within the channels.                                                *)
packetizer_push(pk, frame, ts, concealed) ==
  LET w == Gather(pk, frame, ts, concealed)
  IN  IF w.frames_buffered < Fpp THEN [pk |-> w, packets |-> Nothing]
      ELSE [pk |-> [w EXCEPT !.frames_buffered = 0,
                             !.seq = [i \in Flows |-> NextSeq(@[i])]],
            packets |-> WindowPackets(w)]
=============================================================================
