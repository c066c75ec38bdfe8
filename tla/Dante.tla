------------------------------- MODULE Dante --------------------------------
(***************************************************************************)
(* The Dante profile of the sender (run_dante in src/src/main.c): a loop   *)
(* takes frames from a capture file or a live interface, the pipeline      *)
(* decodes and conceals them, and its PCM sink pushes every frame, real or *)
(* concealed, into the packetizer, which emits one packet per flow for     *)
(* every full window.  A signal asks the live loop to stop; the loop sees  *)
(* it when it is about to wait for the next frame.                         *)
(*                                                                         *)
(* The audio is followed by name: sample s of channel c of the n-th frame  *)
(* the pipeline emits is <<n, c, s>>.  Sending is a datagram that may get  *)
(* lost like any other: dante_emit ignores the result of sendto.           *)
(***************************************************************************)
EXTENDS Pipeline, Packetizer, FiniteSets

CONSTANT Pps   \* frames between two session announcements (~4000)

ASSUME DanteAssumption == Pps \in Nat \ {0}

VARIABLES
  live,      \* TRUE for a live interface, FALSE for a capture file
  pc,        \* where the loop is
  next,      \* the next of the pipeline's frames (out) to push
  pk,        \* struct packetizer and its flows
  packets,   \* what the last push emitted
  count,     \* ectx.count: packets handed to the senders
  frames,    \* frames taken by the live loop
  stop,      \* g_stop
  quiet,     \* history: frames taken since the last announcement
  fills      \* history: which of the frames emitted were concealed

danteVars == <<live, pc, next, pk, packets, count, frames, stop, quiet, fills>>
danteAllVars == <<vars, danteVars>>

DanteInit ==
  /\ Init /\ sink = TRUE
  /\ live \in BOOLEAN
  /\ pc = "check" /\ next = 1
  /\ pk = packetizer_init /\ packets = Nothing /\ count = 0
  /\ frames = 0 /\ stop = FALSE
  /\ quiet = 0 /\ fills = {}

(* on_sigint; the capture file is read without the handler.                *)
Signal ==
  /\ live /\ ~stop
  /\ stop' = TRUE
  /\ UNCHANGED <<vars, live, pc, next, pk, packets, count, frames, quiet, fills>>

(* The loop condition.                                                     *)
Check ==
  /\ pc = "check"
  /\ pc' = IF live /\ stop THEN "done" ELSE "recv"
  /\ UNCHANGED <<vars, live, next, pk, packets, count, frames, stop, quiet, fills>>

(* A frame is taken and the pipeline decodes it: its burst is to be pushed. *)
Take(counter, pcm) ==
  /\ pc = "recv"
  /\ OnFrame(counter, pcm)
  /\ pc' = "push" /\ next' = 1 /\ packets' = Nothing
  /\ fills' = fills \cup {Emitted(stats) + j - 1 : j \in {i \in DOMAIN out' : out'[i].concealed}}
  /\ UNCHANGED <<live, pk, count, frames, stop, quiet>>

(* Fault: announcements are left to the idle socket.                       *)
TookAFrameSilently ==
  /\ frames' = frames + 1 /\ quiet' = quiet + 1

(* The live loop counts a frame and announces the session every Pps.       *)
TookAFrame ==
  IF live THEN /\ frames' = frames + 1
               /\ quiet' = IF frames' % Pps = 0 THEN 0 ELSE quiet + 1
  ELSE UNCHANGED <<frames, quiet>>

(* A frame the pipeline rejects is counted as any other.                   *)
TakeMalformed ==
  /\ pc = "recv"
  /\ OnMalformed
  /\ TookAFrame
  /\ pc' = "check" /\ packets' = Nothing
  /\ UNCHANGED <<live, next, pk, count, stop, fills>>

(* The planar block of the n-th frame, channel by channel.                 *)
Block(n) ==
  [p \in 0 .. NChannels * SamplesPerPkt - 1 |->
     <<n, p \div SamplesPerPkt, p % SamplesPerPkt>>]

(* dante_pcm_sink for one frame of the burst, and the emit callback for    *)
(* the packets of a full window.                                           *)
Push ==
  LET r == packetizer_push(pk, Block(StreamPos(next)), out[next].ts, out[next].concealed)
  IN  /\ pc = "push"
      /\ pk' = r.pk /\ packets' = r.packets
      /\ count' = count + Cardinality(DOMAIN r.packets)
      /\ next' = next + 1
      /\ IF next < Len(out) THEN pc' = "push" /\ UNCHANGED <<frames, quiet>>
         ELSE pc' = "check" /\ TookAFrame
      /\ UNCHANGED <<vars, live, stop, fills>>

(* recv was interrupted: the session is announced and the loop goes on.    *)
Idle ==
  /\ pc = "recv" /\ live
  /\ pc' = "check" /\ quiet' = 0
  /\ UNCHANGED <<vars, live, next, pk, packets, count, frames, stop, fills>>

(* The end of the file, or an error of the socket.  A window that is not   *)
(* full is dropped.                                                        *)
End ==
  /\ pc = "recv"
  /\ pc' = "done"
  /\ UNCHANGED <<vars, live, next, pk, packets, count, frames, stop, quiet, fills>>

Finished == pc = "done" /\ UNCHANGED danteAllVars

DanteNext ==
  \/ Signal \/ Check \/ Push \/ Idle \/ End \/ Finished \/ TakeMalformed
  \/ \E counter \in Counters, pcm \in Packets : Take(counter, pcm)

DanteSpec == DanteInit /\ [][DanteNext]_danteAllVars

-----------------------------------------------------------------------------
(* Frames pushed into the packetizer so far.                               *)
Pushed == IF pc = "push" THEN StreamPos(next) ELSE Emitted(stats)

(* The window whose packets the last push emitted.                         *)
Window == Pushed \div Fpp - 1

(* Every flow is a contiguous RTP stream of its own: its m-th packet has   *)
(* the number m and the timestamp of its first frame, m windows after the  *)
(* anchor, however the windows and the bursts of concealment overlap.      *)
FlowsContiguous ==
  \A i \in DOMAIN packets :
    /\ packets[i].seq = Window % SeqMod
    /\ packets[i].ts = (clock.anchor + Window * WindowSamples) % TsMod

(* The packets of a window carry every sample of its frames exactly once:  *)
(* channel by channel in the flow that announces it, frame by frame in the *)
(* order of emission, interleaved.                                         *)
EverySampleCarriedOnce ==
  packets # Nothing =>
    \A c \in Chans : \E i \in Flows :
      LET fl == dante_build_flows[i]
          c0 == c - fl.ch_start
      IN  /\ c0 \in 0 .. fl.n_ch - 1
          /\ \A j \in Flows \ {i} :
               c < dante_build_flows[j].ch_start \/
               c >= dante_build_flows[j].ch_start + dante_build_flows[j].n_ch
          /\ \A s \in 0 .. WindowSamples - 1 :
               packets[i].payload[s * fl.n_ch + c0] =
                 <<Window * Fpp + s \div SamplesPerPkt, c, s % SamplesPerPkt>>

(* A packet is flagged as concealed exactly when one of its frames was.    *)
ConcealmentFlagged ==
  \A i \in DOMAIN packets :
    packets[i].concealed <=>
      \E n \in Window * Fpp .. Window * Fpp + Fpp - 1 : n \in fills

(* Nothing the pipeline emitted is lost or sent twice: all whole windows   *)
(* went out on every flow, and the packetizer holds the rest.              *)
OnlyThePartialWindowHeld ==
  /\ count = NFlows * (Pushed \div Fpp)
  /\ pk.frames_buffered = Pushed % Fpp

(* "keep the Dante session fresh under continuous audio (~1/s)": never     *)
(* more than Pps frames pass without an announcement.                      *)
SessionKeptFresh == live => quiet < Pps

=============================================================================
