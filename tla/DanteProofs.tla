---------------------------- MODULE DanteProofs -----------------------------
(***************************************************************************)
(* Proofs about Dante, for every number of channels and flows, every       *)
(* packet size, every width of the counters and every interleaving of      *)
(* losses, windows and signals.                                            *)
(***************************************************************************)
EXTENDS Dante, PipelineProofs, FiniteSetTheorems

(* The cells of the planar window and what may be in them.                 *)
Cells == 0 .. NChannels * WindowSamples - 1
Names == {Unset} \cup (Int \X Int \X Int)

Packetizers ==
  [frames_buffered : Nat, pending_ts : Timestamps, pending_concealed : BOOLEAN,
   planar : [Cells -> Names], seq : [Flows -> 0 .. SeqMod - 1]]

-----------------------------------------------------------------------------
(* What the packetizer's operators return.                                 *)

(* The sizes of frames, windows and flows.                                 *)
LEMMA Geometry ==
  /\ SamplesPerPkt \in Nat \ {0} /\ Fpp \in Nat \ {0}
  /\ WindowSamples \in Nat \ {0} /\ WindowSamples = Fpp * SamplesPerPkt
  /\ NChannels \in Nat \ {0} /\ ChPerFlow \in Nat \ {0}
  /\ SeqMod \in Nat \ {0} /\ TsMod \in Nat \ {0} /\ Pps \in Nat \ {0}
<1>1. Fpp \in Nat \ {0} /\ SamplesPerPkt \in Nat \ {0}
  BY PacketizerAssumption, ModeAssumption DEF Fpp, PACKETIZER_MAX_FPP
<1>2. Fpp * SamplesPerPkt \in Nat \ {0}
  <2>1. \A a, b \in Nat \ {0} : a * b \in Nat \ {0}
    BY SMTT(30)
  <2> QED
    BY <1>1, <2>1
<1> QED
  BY <1>1, <1>2, PacketizerAssumption, RtpAssumption, ClockAssumption, DanteAssumption
     DEF WindowSamples

(* A channel and a sample number a place in a planar block, and only one.  *)
LEMMA PlanarPlace ==
  ASSUME NEW width \in Nat \ {0}, NEW c \in Chans, NEW s \in 0 .. width - 1
  PROVE  /\ c * width + s \in 0 .. NChannels * width - 1
         /\ (c * width + s) \div width = c /\ (c * width + s) % width = s
<1>1. c \in Nat /\ c + 1 <= NChannels /\ NChannels \in Nat
  BY Geometry DEF Chans
<1>2. (c + 1) * width <= NChannels * width
  BY <1>1, ProductOrder
<1>3. (c + 1) * width = c * width + width /\ c * width \in Nat /\ NChannels * width \in Nat
  BY <1>1, SMTT(30)
<1>4. c * width + s \in 0 .. NChannels * width - 1
  BY <1>2, <1>3
<1> QED
  BY <1>1, <1>4, RowColumn

(* Every place is that of a channel and a sample.                          *)
LEMMA PlaceOf ==
  ASSUME NEW width \in Nat \ {0}, NEW p \in 0 .. NChannels * width - 1
  PROVE  /\ p \div width \in Chans /\ p % width \in 0 .. width - 1
         /\ p = (p \div width) * width + (p % width)
<1> DEFINE q == p \div width
           r == p % width
<1>1. NChannels \in Nat /\ NChannels * width \in Nat
  BY Geometry
<1>2. p \in Nat
  BY <1>1
<1>3. q \in Nat /\ r \in 0 .. width - 1 /\ p = width * q + r
  BY <1>2, NextDivMod
<1> HIDE DEF q, r
<1>4. width * q = q * width
  BY <1>3
<1>5. q < NChannels
  <2> SUFFICES ASSUME NChannels <= q PROVE FALSE
    BY <1>1, <1>3
  <2>1. NChannels * width <= q * width
    BY <1>1, <1>3, ProductOrder
  <2> QED
    BY <1>1, <1>3, <1>4, <2>1
<1> QED
  BY <1>1, <1>3, <1>4, <1>5 DEF Chans, q, r

(* Sample s of channel c of the n-th frame.                                *)
LEMMA BlockPlace ==
  ASSUME NEW n, NEW c \in Chans, NEW s \in 0 .. SamplesPerPkt - 1
  PROVE  Block(n)[c * SamplesPerPkt + s] = <<n, c, s>>
  BY Geometry, PlanarPlace DEF Block

(* A frame joins the window at its place, and nothing else changes.        *)
LEMMA AppendedFrame ==
  ASSUME NEW planar \in [Cells -> Names], NEW f \in Nat, NEW n \in Nat
  PROVE  LET joined == AppendFrame(planar, f, Block(n))
         IN  /\ joined \in [Cells -> Names]
             /\ \A c \in Chans : \A s \in 0 .. WindowSamples - 1 :
                  joined[c * WindowSamples + s] =
                    IF s - f * SamplesPerPkt \in 0 .. SamplesPerPkt - 1
                    THEN <<n, c, s - f * SamplesPerPkt>>
                    ELSE planar[c * WindowSamples + s]
<1> DEFINE S == SamplesPerPkt
           W == WindowSamples
           F == f * S
           at(p) == LET c == p \div W
                        s == (p % W) - F
                    IN  IF s \in 0 .. S - 1 THEN Block(n)[c * S + s] ELSE planar[p]
           joined == AppendFrame(planar, f, Block(n))
<1>1. S \in Nat \ {0} /\ W \in Nat \ {0} /\ F \in Nat
  BY Geometry
<1>2. joined = [p \in Cells |-> at(p)]
  BY DEF AppendFrame
<1> HIDE DEF joined
<1>3. ASSUME NEW c \in Chans, NEW s \in 0 .. W - 1
      PROVE  /\ c * W + s \in Cells
             /\ at(c * W + s) = IF s - F \in 0 .. S - 1 THEN <<n, c, s - F>>
                                ELSE planar[c * W + s]
  <2>1. /\ c * W + s \in Cells
        /\ (c * W + s) \div W = c /\ (c * W + s) % W = s
    BY <1>1, PlanarPlace DEF Cells
  <2>2. ASSUME s - F \in 0 .. S - 1
        PROVE  Block(n)[c * S + (s - F)] = <<n, c, s - F>>
    BY <2>2, BlockPlace
  <2> HIDE DEF F, S, W
  <2> QED
    BY <2>1, <2>2
<1>4. ASSUME NEW p \in Cells PROVE at(p) \in Names
  <2> DEFINE c == p \div W
             s == p % W
  <2>1. c \in Chans /\ s \in 0 .. W - 1 /\ p = c * W + s
    BY <1>1, PlaceOf DEF Cells
  <2> HIDE DEF c, s
  <2>2. at(p) = IF s - F \in 0 .. S - 1 THEN <<n, c, s - F>> ELSE planar[p]
    <3>1. at(c * W + s) = IF s - F \in 0 .. S - 1 THEN <<n, c, s - F>> ELSE planar[c * W + s]
      BY <1>3, <2>1
    <3> HIDE DEF at
    <3> QED
      BY <2>1, <3>1
  <2>3. c \in Int /\ s - F \in Int /\ n \in Int
    BY <1>1, <2>1, Geometry DEF Chans
  <2> HIDE DEF at, F, S, W
  <2> QED
    BY <2>2, <2>3 DEF Names
<1>5. joined \in [Cells -> Names]
  <2> HIDE DEF at
  <2> QED
    BY <1>2, <1>4
<1>6. ASSUME NEW c \in Chans, NEW s \in 0 .. W - 1
      PROVE  joined[c * W + s] = IF s - F \in 0 .. S - 1 THEN <<n, c, s - F>>
                                 ELSE planar[c * W + s]
  <2> HIDE DEF at
  <2> QED
    BY <1>2, <1>3
<1> QED
  BY <1>5, <1>6 DEF joined

(* There are enough flows for the channels, and none is without one.       *)
LEMMA FlowCount ==
  /\ NFlows \in Nat \ {0}
  /\ NChannels <= NFlows * ChPerFlow
  /\ \A i \in Flows : i \in Nat /\ i * ChPerFlow \in Nat /\ i * ChPerFlow < NChannels
<1> DEFINE C == ChPerFlow
           N == NChannels
           x == N + C - 1
           r == x % C
           K == NFlows
<1>1. C \in Nat \ {0} /\ N \in Nat \ {0} /\ x \in Nat
  BY Geometry
<1>2. K \in Nat /\ r \in 0 .. C - 1 /\ x = C * K + r
  <2> HIDE DEF x
  <2>1. x \div C \in Nat /\ x % C \in 0 .. C - 1 /\ x = C * (x \div C) + (x % C)
    BY <1>1, NextDivMod
  <2> QED
    BY <2>1 DEF NFlows, x
<1> HIDE DEF r, C, N, K
<1>3. C * K = K * C /\ K * C \in Int
  BY <1>1, <1>2
<1>4. N <= K * C
  BY <1>1, <1>2, <1>3
<1>5. K # 0
  BY <1>1, <1>3, <1>4
<1>6. ASSUME NEW i \in 0 .. K - 1
      PROVE  i \in Nat /\ i * C \in Nat /\ i * C < N
  <2>1. i \in Nat /\ i + 1 <= K
    BY <1>2
  <2>2. (i + 1) * C <= K * C
    BY <1>1, <1>2, <2>1, ProductOrder
  <2>3. (i + 1) * C = i * C + C /\ i * C \in Nat
    BY <1>1, <2>1, SMTT(30)
  <2> QED
    BY <1>1, <1>2, <1>3, <2>1, <2>2, <2>3
<1> QED
  BY <1>2, <1>4, <1>5, <1>6 DEF Flows, C, N, K

(* A flow is a slice of the channels that starts at a multiple of          *)
(* ChPerFlow.                                                              *)
LEMMA FlowShape ==
  ASSUME NEW i \in Flows
  PROVE  LET fl == dante_build_flows[i]
         IN  /\ fl.ch_start = i * ChPerFlow /\ fl.ch_start \in Nat
             /\ fl.n_ch \in Nat \ {0} /\ fl.n_ch <= ChPerFlow
             /\ fl.ch_start + fl.n_ch <= NChannels
             /\ fl.n_ch = ChPerFlow \/ fl.ch_start + fl.n_ch = NChannels
<1> DEFINE start == i * ChPerFlow
           width == NChannels - start
<1>1. start \in Nat /\ start < NChannels /\ NChannels \in Nat /\ ChPerFlow \in Nat \ {0}
  BY FlowCount, Geometry
<1>2. /\ dante_build_flows[i].ch_start = start
      /\ dante_build_flows[i].n_ch = IF width > ChPerFlow THEN ChPerFlow ELSE width
  BY DEF dante_build_flows
<1> HIDE DEF start
<1>3. dante_build_flows[i].n_ch \in Nat \ {0} /\ dante_build_flows[i].n_ch <= ChPerFlow
  BY <1>1, <1>2
<1>4. dante_build_flows[i].n_ch <= width
  BY <1>1, <1>2
<1>5. dante_build_flows[i].n_ch = ChPerFlow \/ start + dante_build_flows[i].n_ch = NChannels
  BY <1>1, <1>2
<1> QED
  BY <1>1, <1>2, <1>3, <1>4, <1>5 DEF start

(* Every channel is in exactly one flow.                                   *)
LEMMA ChannelFlow ==
  ASSUME NEW c \in Chans
  PROVE  LET i == c \div ChPerFlow
             fl == dante_build_flows[i]
         IN  /\ i \in Flows
             /\ c - fl.ch_start \in 0 .. fl.n_ch - 1
             /\ \A j \in Flows \ {i} :
                  c < dante_build_flows[j].ch_start \/
                  c >= dante_build_flows[j].ch_start + dante_build_flows[j].n_ch
<1> DEFINE C == ChPerFlow
           i == c \div C
           r == c % C
           start(j) == dante_build_flows[j].ch_start
           wide(j)  == dante_build_flows[j].n_ch
<1>1. /\ c \in Nat /\ c < NChannels /\ C \in Nat \ {0} /\ NChannels \in Nat
      /\ NFlows \in Nat \ {0} /\ NChannels <= NFlows * C
  BY Geometry, FlowCount DEF Chans
<1>2. i \in Nat /\ r \in 0 .. C - 1 /\ c = C * i + r
  BY <1>1, NextDivMod
<1> HIDE DEF i, r, C
<1>3. C * i = i * C /\ i * C \in Nat
  BY <1>1, <1>2
<1>4. i \in Flows
  <2>1. i < NFlows
    <3> SUFFICES ASSUME NFlows <= i PROVE FALSE
      BY <1>1, <1>2
    <3>1. NFlows * C <= i * C
      BY <1>1, <1>2, ProductOrder
    <3>2. NFlows * C \in Int
      BY <1>1
    <3> QED
      BY <1>1, <1>2, <1>3, <3>1, <3>2
  <2> QED
    BY <1>1, <1>2, <2>1 DEF Flows
<1>5. \A j \in Flows :
        /\ start(j) = j * C /\ start(j) \in Nat /\ j \in Nat
        /\ wide(j) \in Nat \ {0} /\ wide(j) <= C
        /\ wide(j) = C \/ start(j) + wide(j) = NChannels
  BY FlowShape, FlowCount DEF C
<1> HIDE DEF start, wide
<1>6. c - start(i) \in 0 .. wide(i) - 1
  BY <1>1, <1>2, <1>3, <1>4, <1>5
<1>7. ASSUME NEW j \in Flows \ {i} PROVE c < start(j) \/ c >= start(j) + wide(j)
  <2>1. j \in Flows /\ j \in Nat /\ j # i
    BY <1>5, <1>7
  <2>2. CASE j < i
    <3>1. (j + 1) * C <= i * C
      BY <1>1, <1>2, <2>1, <2>2, ProductOrder
    <3>2. (j + 1) * C = j * C + C
      BY <1>1, <2>1, SMTT(30)
    <3> QED
      BY <1>1, <1>2, <1>3, <1>5, <2>1, <3>1, <3>2
  <2>3. CASE j > i
    <3>1. (i + 1) * C <= j * C
      BY <1>1, <1>2, <2>1, <2>3, ProductOrder
    <3>2. (i + 1) * C = i * C + C
      BY <1>1, <1>2, SMTT(30)
    <3> QED
      BY <1>1, <1>2, <1>3, <1>5, <2>1, <3>1, <3>2
  <2> QED
    BY <1>2, <2>1, <2>2, <2>3
<1> QED
  BY <1>4, <1>6, <1>7 DEF start, wide, i, C

(* Where rtp_l24_build_flow puts sample s of channel c.                    *)
LEMMA PayloadPlace ==
  ASSUME NEW planar, NEW n \in Nat \ {0}, NEW start \in Nat,
         NEW c0 \in 0 .. n - 1, NEW s \in 0 .. WindowSamples - 1
  PROVE  rtp_l24_build_flow(planar, start, n, WindowSamples)[s * n + c0] =
           planar[(start + c0) * WindowSamples + s]
<1> DEFINE W == WindowSamples
           p == s * n + c0
<1>1. W \in Nat \ {0} /\ s \in Nat /\ c0 \in Nat /\ s + 1 <= W
  BY Geometry
<1>2. p % n = c0 /\ p \div n = s
  BY <1>1, RowColumn
<1>3. p \in 0 .. n * W - 1
  <2>1. (s + 1) * n <= W * n
    BY <1>1, ProductOrder
  <2>2. (s + 1) * n = s * n + n /\ s * n \in Nat /\ W * n = n * W /\ n * W \in Nat
    BY <1>1, SMTT(30)
  <2> QED
    BY <1>1, <2>1, <2>2
<1> HIDE DEF p, W
<1>4. rtp_l24_build_flow(planar, start, n, W)[p] = planar[(start + (p % n)) * W + (p \div n)]
  BY <1>3 DEF rtp_l24_build_flow
<1> QED
  BY <1>2, <1>4 DEF p, W

(* packetizer_push gathers the frame and, when the window is full, makes   *)
(* one packet of every flow and empties the window.                        *)
LEMMA PushResult ==
  ASSUME pk \in Packetizers, NEW n \in Nat, NEW ts \in Timestamps, NEW con \in BOOLEAN
  PROVE  LET r == packetizer_push(pk, Block(n), ts, con)
             f == pk.frames_buffered
             joined == AppendFrame(pk.planar, f, Block(n))
         IN  /\ r.pk \in Packetizers
             /\ r.pk.planar = joined
             /\ r.pk.pending_ts = WindowTs(pk, ts)
             /\ r.pk.pending_concealed = WindowMark(pk, con)
             /\ f + 1 < Fpp => /\ r.packets = Nothing
                               /\ r.pk.frames_buffered = f + 1
                               /\ r.pk.seq = pk.seq
             /\ ~(f + 1 < Fpp) =>
                  /\ r.pk.frames_buffered = 0
                  /\ \A i \in Flows : r.pk.seq[i] = NextSeq(pk.seq[i])
                  /\ DOMAIN r.packets = Flows
                  /\ \A i \in Flows :
                       LET fl == dante_build_flows[i]
                       IN  /\ r.packets[i].seq = pk.seq[i]
                           /\ r.packets[i].ts = WindowTs(pk, ts)
                           /\ r.packets[i].concealed = WindowMark(pk, con)
                           /\ r.packets[i].payload =
                                rtp_l24_build_flow(joined, fl.ch_start, fl.n_ch, WindowSamples)
<1> DEFINE f == pk.frames_buffered
           joined == AppendFrame(pk.planar, f, Block(n))
           wts == WindowTs(pk, ts)
           mark == WindowMark(pk, con)
           w == Gather(pk, Block(n), ts, con)
           r == packetizer_push(pk, Block(n), ts, con)
           seqs == [i \in Flows |-> NextSeq(pk.seq[i])]
<1>1. /\ f \in Nat /\ pk.planar \in [Cells -> Names] /\ pk.seq \in [Flows -> 0 .. SeqMod - 1]
      /\ pk.pending_ts \in Timestamps /\ pk.pending_concealed \in BOOLEAN
  BY DEF Packetizers
<1>2. joined \in [Cells -> Names]
  BY <1>1, AppendedFrame
<1>3. wts \in Timestamps /\ mark \in BOOLEAN
  BY <1>1 DEF WindowTs, WindowMark
<1>4. w = [pk EXCEPT !.pending_ts = wts, !.pending_concealed = mark,
                     !.planar = joined, !.frames_buffered = f + 1]
  BY DEF Gather
<1> HIDE DEF joined, wts, mark, w
<1>5. /\ w \in Packetizers /\ w.pending_ts = wts /\ w.pending_concealed = mark
      /\ w.planar = joined /\ w.frames_buffered = f + 1 /\ w.seq = pk.seq
  <2>1. pk = [frames_buffered |-> f, pending_ts |-> pk.pending_ts,
              pending_concealed |-> pk.pending_concealed, planar |-> pk.planar,
              seq |-> pk.seq]
    BY DEF Packetizers
  <2>2. w = [frames_buffered |-> f + 1, pending_ts |-> wts, pending_concealed |-> mark,
             planar |-> joined, seq |-> pk.seq]
    BY <1>4, <2>1
  <2>3. f + 1 \in Nat
    BY <1>1
  <2> HIDE DEF f
  <2> QED
    BY <1>1, <1>2, <1>3, <2>2, <2>3 DEF Packetizers
<1>6. r = IF w.frames_buffered < Fpp THEN [pk |-> w, packets |-> Nothing]
          ELSE [pk |-> [w EXCEPT !.frames_buffered = 0,
                                 !.seq = [i \in Flows |-> NextSeq(@[i])]],
                packets |-> WindowPackets(w)]
  BY DEF packetizer_push, w
<1>7. seqs \in [Flows -> 0 .. SeqMod - 1]
  <2>1. \A x \in 0 .. SeqMod - 1 : x + 1 \in Int
    BY Geometry
  <2>2. \A x \in 0 .. SeqMod - 1 : NextSeq(x) \in 0 .. SeqMod - 1
    BY <2>1, Geometry, DivMod DEF NextSeq
  <2> QED
    BY <1>1, <2>2
<1> HIDE DEF r
<1>8. CASE f + 1 < Fpp
  <2>1. r = [pk |-> w, packets |-> Nothing]
    BY <1>5, <1>6, <1>8
  <2> QED
    BY <1>5, <1>8, <2>1 DEF r, joined, wts, mark
<1>9. CASE ~(f + 1 < Fpp)
  <2>1. r = [pk |-> [w EXCEPT !.frames_buffered = 0, !.seq = seqs],
             packets |-> WindowPackets(w)]
    BY <1>5, <1>6, <1>9
  <2> HIDE DEF seqs
  <2>2. /\ r.pk = [w EXCEPT !.frames_buffered = 0, !.seq = seqs]
        /\ r.packets = WindowPackets(w)
    BY <2>1
  <2>3. /\ r.pk \in Packetizers /\ r.pk.planar = joined /\ r.pk.pending_ts = wts
        /\ r.pk.pending_concealed = mark /\ r.pk.frames_buffered = 0 /\ r.pk.seq = seqs
    <3>1. w = [frames_buffered |-> f + 1, pending_ts |-> wts,
               pending_concealed |-> mark, planar |-> joined, seq |-> pk.seq]
      BY <1>5 DEF Packetizers
    <3>2. r.pk = [frames_buffered |-> 0, pending_ts |-> wts, pending_concealed |-> mark,
                  planar |-> joined, seq |-> seqs]
      BY <2>2, <3>1
    <3>3. seqs \in [Flows -> 0 .. SeqMod - 1]
      BY <1>7 DEF seqs
    <3> QED
      BY <1>2, <1>3, <3>2, <3>3 DEF Packetizers
  <2>4. /\ DOMAIN r.packets = Flows
        /\ \A i \in Flows :
             /\ r.packets[i].seq = pk.seq[i] /\ r.packets[i].ts = wts
             /\ r.packets[i].concealed = mark
             /\ r.packets[i].payload =
                  rtp_l24_build_flow(joined, dante_build_flows[i].ch_start,
                                     dante_build_flows[i].n_ch, WindowSamples)
    BY <1>5, <2>2 DEF WindowPackets
  <2> QED
    BY <1>9, <2>3, <2>4 DEF r, joined, wts, mark, seqs
<1> QED
  BY <1>8, <1>9

-----------------------------------------------------------------------------
(* The inductive invariant.                                                *)

LoopType ==
  /\ sink = TRUE
  /\ live \in BOOLEAN /\ stop \in BOOLEAN
  /\ pc \in {"check", "recv", "push", "done"}
  /\ next \in Nat \ {0}
  /\ pk \in Packetizers
  /\ count \in Nat /\ frames \in Nat /\ quiet \in Nat
  /\ fills \subseteq 0 .. Emitted(stats) - 1

(* While a burst is pushed, it is the newest part of the stream, and fills *)
(* says of its frames what they say of themselves.                         *)
Pushing ==
  pc = "push" =>
    /\ next <= Len(out) /\ Len(out) <= Emitted(stats)
    /\ \A j \in 1 .. Len(out) : out[j].concealed <=> StreamPos(j) \in fills

(* The window being gathered: its number gives the flows' next sequence    *)
(* numbers, its first frame its timestamp, and its frames its mark.        *)
Gathering ==
  LET w == Pushed \div Fpp
  IN  /\ \A i \in Flows : pk.seq[i] = w % SeqMod
      /\ pk.frames_buffered > 0 =>
           /\ pk.pending_ts = (clock.anchor + w * WindowSamples) % TsMod
           /\ pk.pending_concealed <=> \E n \in w * Fpp .. Pushed - 1 : n \in fills

(* The samples gathered are those of the window's frames, in their places. *)
Gathered ==
  LET w == Pushed \div Fpp
  IN  \A c \in Chans : \A s \in 0 .. pk.frames_buffered * SamplesPerPkt - 1 :
        pk.planar[c * WindowSamples + s] =
          <<w * Fpp + s \div SamplesPerPkt, c, s % SamplesPerPkt>>

(* The frames since the last announcement are some of those since the last *)
(* one that was due.                                                       *)
AnnouncedInTime == live => quiet <= frames % Pps

DInv ==
  /\ LoopType /\ Pushing /\ OnlyThePartialWindowHeld
  /\ Gathering /\ Gathered
  /\ FlowsContiguous /\ ConcealmentFlagged /\ EverySampleCarriedOnce
  /\ AnnouncedInTime

-----------------------------------------------------------------------------
(* The pipeline under the Dante loop is the pipeline, so that all that is  *)
(* proved of it holds of what the loop pushes.                             *)
THEOREM DanteRunsPipeline == DanteSpec => Spec
<1>1. DanteInit => Init
  BY DEF DanteInit
<1>2. [DanteNext]_danteAllVars => [Next]_vars
  BY DEF DanteNext, Signal, Check, Push, Idle, End, Finished, TakeMalformed, Take,
         danteAllVars, Next
<1> QED
  BY <1>1, <1>2, PTL DEF DanteSpec, Spec

(* The invariant of the pipeline holds throughout.                         *)
LEMMA DantePipelineInvariant == DanteSpec => []IInv
  BY DanteRunsPipeline, PipelineInvariant, PTL

(* How many frames were pushed so far.                                     *)
LEMMA PushedFacts ==
  ASSUME IInv, LoopType, Pushing
  PROVE  /\ Emitted(stats) \in Nat /\ Len(out) \in Nat
         /\ Pushed \in Nat /\ Pushed <= Emitted(stats)
         /\ pc = "push" => Pushed = StreamPos(next) /\ Pushed < Emitted(stats)
<1>1. Emitted(stats) \in Nat /\ Len(out) \in Nat
  BY DEF IInv, TypeOK, Stats, Emitted
<1>2. next \in Nat \ {0}
  BY DEF LoopType
<1> QED
  BY <1>1, <1>2 DEF Pushing, Pushed, StreamPos

(* The loop starts with an empty window.                                   *)
LEMMA InitDInv == DanteInit => DInv
<1> SUFFICES ASSUME DanteInit PROVE DInv
  OBVIOUS
<1>1. IInv /\ Emitted(stats) = 0 /\ out = << >> /\ sink = TRUE
  BY InitIInv DEF DanteInit, Init, Emitted
<1>2. /\ pc = "check" /\ next = 1 /\ packets = Nothing /\ count = 0 /\ frames = 0
      /\ quiet = 0 /\ fills = {} /\ live \in BOOLEAN /\ stop = FALSE
      /\ pk = packetizer_init
  BY DEF DanteInit
<1>3. /\ pk \in Packetizers /\ pk.frames_buffered = 0 /\ \A i \in Flows : pk.seq[i] = 0
  <2>1. 0 \in Timestamps /\ 0 \in 0 .. SeqMod - 1
    BY Geometry DEF Timestamps
  <2>2. [p \in 0 .. NChannels * WindowSamples - 1 |-> Unset] \in [Cells -> Names]
    BY DEF Cells, Names
  <2>3. [i \in Flows |-> 0] \in [Flows -> 0 .. SeqMod - 1]
    BY <2>1
  <2> QED
    BY <1>2, <2>1, <2>2, <2>3 DEF packetizer_init, Packetizers
<1>4. Pushed = 0
  BY <1>1, <1>2 DEF Pushed
<1>5. 0 \div Fpp = 0 /\ 0 % Fpp = 0 /\ 0 % SeqMod = 0 /\ 0 % Pps = 0
  <2>1. \A m \in Nat \ {0} : 0 % m = 0 /\ 0 \div m = 0
    <3> SUFFICES ASSUME NEW m \in Nat \ {0} PROVE 0 % m = 0 /\ 0 \div m = 0
      OBVIOUS
    <3>1. 0 \in 0 .. m - 1 /\ 0 = m * 0 + 0 /\ 0 \in Int
      OBVIOUS
    <3> QED
      BY <3>1, ModUnique, DivUnique
  <2> QED
    BY <2>1, Geometry
<1>6. LoopType /\ Pushing
  <2>1. fills \subseteq 0 .. Emitted(stats) - 1
    BY <1>2
  <2>2. Pushing
    BY <1>2 DEF Pushing
  <2>3. sink = TRUE /\ live \in BOOLEAN /\ stop \in BOOLEAN
    BY <1>1, <1>2
  <2>4. next \in Nat \ {0} /\ count \in Nat /\ frames \in Nat /\ quiet \in Nat
    BY <1>2
  <2>5. pc \in {"check", "recv", "push", "done"}
    BY <1>2
  <2> QED
    BY <1>3, <2>1, <2>2, <2>3, <2>4, <2>5 DEF LoopType
<1>7. OnlyThePartialWindowHeld
  BY <1>2, <1>3, <1>4, <1>5, FlowCount DEF OnlyThePartialWindowHeld
<1>8. Gathering /\ AnnouncedInTime
  BY <1>2, <1>3, <1>4, <1>5 DEF Gathering, AnnouncedInTime
<1>9. Gathered
  <2>1. 0 * SamplesPerPkt - 1 = -1
    BY Geometry
  <2> QED
    BY <1>3, <2>1 DEF Gathered
<1>10. FlowsContiguous /\ ConcealmentFlagged /\ EverySampleCarriedOnce
  BY <1>2 DEF FlowsContiguous, ConcealmentFlagged, EverySampleCarriedOnce, Nothing
<1> QED
  BY <1>6, <1>7, <1>8, <1>9, <1>10 DEF DInv

(* The loop counts a frame, and an announcement that is due is made.       *)
LEMMA AnnouncesInTime ==
  ASSUME LoopType, AnnouncedInTime, TookAFrame, live' = live
  PROVE  AnnouncedInTime' /\ frames' \in Nat /\ quiet' \in Nat
<1>1. frames \in Nat /\ quiet \in Nat /\ Pps \in Nat \ {0}
  BY Geometry DEF LoopType
<1>2. CASE ~live
  BY <1>1, <1>2 DEF TookAFrame, AnnouncedInTime
<1>3. CASE live
  <2>1. /\ frames' = frames + 1 /\ quiet <= frames % Pps
        /\ quiet' = IF (frames + 1) % Pps = 0 THEN 0 ELSE quiet + 1
    BY <1>3 DEF TookAFrame, AnnouncedInTime
  <2>2. /\ frames % Pps \in 0 .. Pps - 1
        /\ (frames % Pps) + 1 < Pps => (frames + 1) % Pps = (frames % Pps) + 1
        /\ ~((frames % Pps) + 1 < Pps) => (frames + 1) % Pps = 0
    BY <1>1, NextDivMod
  <2>3. quiet' <= frames' % Pps
    BY <1>1, <2>1, <2>2
  <2> QED
    BY <1>1, <2>1, <2>3 DEF AnnouncedInTime
<1> QED
  BY <1>2, <1>3

(* A step that pushes nothing leaves the window as it is, though it may    *)
(* mark frames that are still to be pushed.                                *)
LEMMA KeepsWindow ==
  ASSUME IInv, DInv, Pushed' = Pushed, pk' = pk, count' = count,
         clock'.anchor = clock.anchor,
         \A m \in 0 .. Pushed - 1 : m \in fills' <=> m \in fills,
         \/ packets' = packets /\ fills' = fills
         \/ packets' = Nothing
  PROVE  /\ OnlyThePartialWindowHeld' /\ Gathering' /\ Gathered'
         /\ FlowsContiguous' /\ ConcealmentFlagged' /\ EverySampleCarriedOnce'
<1> DEFINE w == Pushed \div Fpp
<1>1. Pushed \in Nat /\ Fpp \in Nat \ {0}
  BY PushedFacts, Geometry DEF DInv
<1>2. w \in Nat
  BY <1>1, NextDivMod
<1>3. w * Fpp \in Nat
  BY <1>1, <1>2
<1>4. w' = w /\ Window' = Window
  BY DEF Window
<1> HIDE DEF w
<1>5. OnlyThePartialWindowHeld'
  BY DEF DInv, OnlyThePartialWindowHeld
<1>6. Gathering'
  <2>1. (\E n \in w * Fpp .. Pushed - 1 : n \in fills')
          <=> (\E n \in w * Fpp .. Pushed - 1 : n \in fills)
    <3>1. \A n \in w * Fpp .. Pushed - 1 : n \in fills' <=> n \in fills
      BY <1>1, <1>3
    <3> QED
      BY <3>1
  <2>2. /\ \A i \in Flows : pk.seq[i] = w % SeqMod
        /\ pk.frames_buffered > 0 =>
             /\ pk.pending_ts = (clock.anchor + w * WindowSamples) % TsMod
             /\ pk.pending_concealed <=> \E n \in w * Fpp .. Pushed - 1 : n \in fills
    BY DEF DInv, Gathering, w
  <2>3. /\ \A i \in Flows : pk'.seq[i] = w' % SeqMod
        /\ pk'.frames_buffered > 0 =>
             /\ pk'.pending_ts = (clock'.anchor + w' * WindowSamples) % TsMod
             /\ pk'.pending_concealed <=> \E n \in w' * Fpp .. Pushed' - 1 : n \in fills'
    BY <1>4, <2>1, <2>2
  <2> QED
    BY <2>3 DEF Gathering, w
<1>7. Gathered'
  BY DEF DInv, Gathered
<1>8. CASE packets' = packets /\ fills' = fills
  BY <1>4, <1>5, <1>6, <1>7, <1>8
     DEF DInv, FlowsContiguous, ConcealmentFlagged, EverySampleCarriedOnce
<1>9. CASE packets' = Nothing
  BY <1>5, <1>6, <1>7, <1>9
     DEF FlowsContiguous, ConcealmentFlagged, EverySampleCarriedOnce, Nothing
<1> QED
  BY <1>8, <1>9

(* Signals, waiting and stopping leave the audio alone.                    *)
LEMMA LoopKeepsDInv ==
  ASSUME IInv, DInv, UNCHANGED vars, UNCHANGED <<live, next, pk, packets, count, frames, fills>>,
         quiet' \in {quiet, 0}, stop' \in BOOLEAN,
         \/ pc' = pc
         \/ pc # "push" /\ pc' \in {"check", "recv", "done"}
  PROVE  DInv'
<1>1. LoopType /\ Pushing /\ AnnouncedInTime
  BY DEF DInv
<1>2. Emitted(stats)' = Emitted(stats) /\ \A j : StreamPos(j)' = StreamPos(j)
  BY DEF vars, Emitted, StreamPos
<1>3. Pushed' = Pushed
  BY <1>2 DEF Pushed
<1>4. LoopType'
  <2>1. pc' \in {"check", "recv", "push", "done"}
    BY <1>1 DEF LoopType
  <2>2. sink' = TRUE /\ live' \in BOOLEAN
    BY <1>1 DEF LoopType, vars
  <2>3. quiet' \in Nat
    BY <1>1 DEF LoopType
  <2> QED
    BY <1>1, <1>2, <2>1, <2>2, <2>3 DEF LoopType
<1>5. Pushing'
  BY <1>1, <1>2 DEF Pushing, vars
<1>6. AnnouncedInTime'
  <2>1. frames % Pps >= 0
    BY <1>1, Geometry, NextDivMod DEF LoopType
  <2> QED
    BY <1>1, <2>1 DEF AnnouncedInTime
<1>7. clock' = clock
  BY DEF vars
<1> QED
  BY <1>3, <1>4, <1>5, <1>6, <1>7, KeepsWindow DEF DInv

(* A malformed frame counts for the announcements and for nothing else.    *)
LEMMA MalformedKeepsDInv ==
  ASSUME IInv, DInv, TakeMalformed
  PROVE  DInv'
<1>1. LoopType /\ Pushing /\ AnnouncedInTime
  BY DEF DInv
<1>2. Emitted(stats)' = Emitted(stats) /\ clock' = clock /\ sink' = sink
  BY DEF IInv, TypeOK, Stats, TakeMalformed, OnMalformed, Emitted
<1>3. Pushed' = Pushed
  BY <1>2 DEF Pushed, TakeMalformed
<1>4. AnnouncedInTime' /\ frames' \in Nat /\ quiet' \in Nat
  BY <1>1, AnnouncesInTime DEF TakeMalformed
<1>5. LoopType'
  <2>1. pc' \in {"check", "recv", "push", "done"} /\ pc' # "push"
    BY DEF TakeMalformed
  <2>2. sink' = TRUE /\ live' \in BOOLEAN /\ stop' \in BOOLEAN
    BY <1>1, <1>2 DEF LoopType, TakeMalformed
  <2> QED
    BY <1>1, <1>2, <1>4, <2>1, <2>2 DEF LoopType, TakeMalformed
<1>6. Pushing'
  BY DEF Pushing, TakeMalformed
<1>7. pk' = pk /\ count' = count /\ fills' = fills /\ packets' = Nothing
  BY DEF TakeMalformed
<1> QED
  BY <1>2, <1>3, <1>4, <1>5, <1>6, <1>7, KeepsWindow DEF DInv

(* A frame's burst is put before the packetizer and pushed later.          *)
LEMMA TakeKeepsDInv ==
  ASSUME IInv, DInv, NEW counter \in Counters, NEW pcm \in Packets, Take(counter, pcm)
  PROVE  DInv'
<1> DEFINE lost == LostBefore(clock, counter)
           E    == Emitted(stats)
           new  == {E + j - 1 : j \in {i \in DOMAIN out' : out'[i].concealed}}
<1>1. LoopType /\ Pushing /\ AnnouncedInTime
  BY DEF DInv
<1>2. /\ lost \in Nat /\ E \in Nat /\ E' = E + lost + 1
      /\ Len(out') = lost + 1 /\ DOMAIN out' = 1 .. lost + 1
      /\ \A j \in 1 .. lost + 1 : StreamPos(j)' = E + j - 1
  BY FrameFacts DEF Take
<1>3. clock'.anchor = clock.anchor
  <2>1. clock \in Clocks /\ clock' = media_clock_on_packet(clock, counter)
    BY DEF IInv, TypeOK, Take, OnFrame
  <2> QED
    BY <2>1, ClockStep
<1>4. /\ pk' = pk /\ count' = count /\ packets' = Nothing /\ fills' = fills \cup new
      /\ pc = "recv" /\ pc' = "push" /\ next' = 1 /\ sink' = sink
      /\ UNCHANGED <<live, frames, stop, quiet>>
  BY DEF Take, OnFrame
<1> HIDE DEF lost, E
<1>5. Pushed = E /\ Pushed' = E
  <2>1. Pushed = E
    BY <1>4 DEF Pushed, E
  <2>2. Pushed' = StreamPos(1)'
    BY <1>4 DEF Pushed, StreamPos
  <2>3. 1 \in 1 .. lost + 1
    BY <1>2
  <2>4. StreamPos(1)' = E + 1 - 1
    BY <1>2, <2>3
  <2> QED
    BY <1>2, <2>1, <2>2, <2>4
<1>6. \A m \in new : m \in E .. E + lost
  BY <1>2
<1>7. \A j \in 1 .. lost + 1 : out'[j].concealed <=> E + j - 1 \in new
  <2> SUFFICES ASSUME NEW j \in 1 .. lost + 1
               PROVE  out'[j].concealed <=> E + j - 1 \in new
    OBVIOUS
  <2>1. \A i \in DOMAIN out' : E + i - 1 = E + j - 1 => i = j
    BY <1>2
  <2>2. j \in DOMAIN out'
    BY <1>2
  <2> QED
    BY <2>1, <2>2
<1> HIDE DEF new
<1>8. \A m \in fills : m \in 0 .. E - 1
  BY <1>1 DEF LoopType, E
<1>9. \A m \in 0 .. Pushed - 1 : m \in fills' <=> m \in fills
  BY <1>2, <1>4, <1>5, <1>6
<1>10. LoopType'
  <2>1. pc' \in {"check", "recv", "push", "done"} /\ next' \in Nat \ {0}
    BY <1>4
  <2>2. sink' = TRUE /\ live' \in BOOLEAN /\ stop' \in BOOLEAN
    BY <1>1, <1>4 DEF LoopType
  <2>3. fills' \subseteq 0 .. E' - 1
    BY <1>2, <1>4, <1>6, <1>8
  <2>4. fills' \subseteq 0 .. Emitted(stats)' - 1
    BY <2>3 DEF E
  <2> QED
    BY <1>1, <1>4, <2>1, <2>2, <2>4 DEF LoopType
<1>11. Pushing'
  <2>1. next' <= Len(out') /\ Len(out') <= E'
    BY <1>2, <1>4
  <2>2. ASSUME NEW j \in 1 .. Len(out') PROVE out'[j].concealed <=> StreamPos(j)' \in fills'
    <3>1. j \in 1 .. lost + 1 /\ E + j - 1 \notin fills
      BY <1>2, <1>8
    <3> QED
      BY <1>2, <1>4, <1>7, <3>1
  <2> QED
    BY <2>1, <2>2 DEF Pushing, E
<1>12. AnnouncedInTime'
  BY <1>1, <1>4 DEF AnnouncedInTime
<1>13. /\ OnlyThePartialWindowHeld' /\ Gathering' /\ Gathered'
       /\ FlowsContiguous' /\ ConcealmentFlagged' /\ EverySampleCarriedOnce'
  BY <1>3, <1>4, <1>5, <1>9, KeepsWindow
<1> QED
  BY <1>10, <1>11, <1>12, <1>13 DEF DInv

(* Where the frame to be pushed stands in the stream and in its window.    *)
LEMMA FrameToPush ==
  ASSUME IInv, DInv, pc = "push"
  PROVE  /\ Pushed \in Nat /\ Pushed = StreamPos(next) /\ next \in 1 .. Len(out)
         /\ Len(out) \in Nat /\ Emitted(stats) \in Nat
         /\ Pushed \div Fpp \in Nat /\ (Pushed \div Fpp) * Fpp \in Nat
         /\ pk.frames_buffered = Pushed % Fpp
         /\ pk.frames_buffered \in 0 .. Fpp - 1
         /\ Pushed = (Pushed \div Fpp) * Fpp + pk.frames_buffered
         /\ out[next].ts \in Timestamps /\ out[next].concealed \in BOOLEAN
         /\ out[next].ts = (clock.anchor + Pushed * SamplesPerPkt) % TsMod
         /\ out[next].concealed <=> Pushed \in fills
         /\ clock.anchor \in Int
<1> DEFINE w == Pushed \div Fpp
           f == Pushed % Fpp
<1>1. LoopType /\ Pushing /\ OnlyThePartialWindowHeld
  BY DEF DInv
<1>2. /\ Emitted(stats) \in Nat /\ Len(out) \in Nat /\ Pushed \in Nat /\ Pushed = StreamPos(next)
  BY <1>1, PushedFacts
<1>3. next \in 1 .. Len(out)
  BY <1>1, <1>2 DEF LoopType, Pushing
<1>4. pk.frames_buffered = f
  BY <1>1 DEF OnlyThePartialWindowHeld
<1>5. w \in Nat /\ f \in 0 .. Fpp - 1 /\ Pushed = Fpp * w + f /\ Fpp \in Nat \ {0}
  BY <1>2, Geometry, NextDivMod
<1> HIDE DEF w, f
<1>6. w * Fpp \in Nat /\ Pushed = w * Fpp + f
  BY <1>5, Fpp * w = w * Fpp
<1>7. out[next] \in Emissions
  BY <1>3 DEF IInv, TypeOK
<1>8. out[next].ts \in Timestamps /\ out[next].concealed \in BOOLEAN
  BY <1>7 DEF Emissions
<1>9. out[next].ts = (clock.anchor + Pushed * SamplesPerPkt) % TsMod
  BY <1>2, <1>3 DEF IInv, TimelineContiguous
<1>10. out[next].concealed <=> Pushed \in fills
  BY <1>1, <1>2, <1>3 DEF Pushing
<1>11. clock.anchor \in Int
  BY Geometry DEF IInv, TypeOK, Clocks, Timestamps
<1> QED
  BY <1>2, <1>3, <1>4, <1>5, <1>6, <1>8, <1>9, <1>10, <1>11 DEF w, f

(* The window is stamped with the position of its first frame.             *)
LEMMA WindowStamp ==
  ASSUME IInv, DInv, pc = "push"
  PROVE  WindowTs(pk, out[next].ts) =
           (clock.anchor + (Pushed \div Fpp) * WindowSamples) % TsMod
<1> DEFINE w == Pushed \div Fpp
<1>1. /\ Pushed \in Nat /\ w \in Nat
      /\ pk.frames_buffered \in 0 .. Fpp - 1
      /\ Pushed = w * Fpp + pk.frames_buffered
      /\ out[next].ts = (clock.anchor + Pushed * SamplesPerPkt) % TsMod
  BY FrameToPush
<1>2. CASE pk.frames_buffered = 0
  <2>1. /\ SamplesPerPkt \in Nat /\ Fpp \in Nat /\ WindowSamples = Fpp * SamplesPerPkt
    BY Geometry
  <2> HIDE DEF w
  <2>2. Pushed = w * Fpp
    BY <1>1, <1>2, <2>1
  <2>3. (w * Fpp) * SamplesPerPkt = w * (Fpp * SamplesPerPkt)
    BY <1>1, <2>1, SMTT(30)
  <2>4. Pushed * SamplesPerPkt = w * WindowSamples
    BY <2>1, <2>2, <2>3
  <2> QED
    BY <1>1, <1>2, <2>4 DEF WindowTs, w
<1>3. CASE pk.frames_buffered # 0
  <2>1. pk.frames_buffered > 0
    BY <1>1, <1>3, Geometry
  <2> QED
    BY <1>3, <2>1 DEF WindowTs, DInv, Gathering
<1> QED
  BY <1>2, <1>3

(* The window is marked when one of its frames up to this one was          *)
(* concealed.                                                              *)
LEMMA WindowMarked ==
  ASSUME IInv, DInv, pc = "push"
  PROVE  WindowMark(pk, out[next].concealed)
           <=> \E m \in (Pushed \div Fpp) * Fpp .. Pushed : m \in fills
<1> DEFINE lo == (Pushed \div Fpp) * Fpp
           buf == pk.frames_buffered
           con == out[next].concealed
           pend == pk.pending_concealed
<1>1. /\ Pushed \in Nat /\ lo \in Nat /\ buf \in 0 .. Fpp - 1 /\ Pushed = lo + buf
      /\ con <=> Pushed \in fills
  BY FrameToPush
<1>2. WindowMark(pk, con) <=> con \/ (buf > 0 /\ pend)
  BY DEF WindowMark
<1>3. buf > 0 => (pend <=> \E m \in lo .. Pushed - 1 : m \in fills)
  BY DEF DInv, Gathering
<1> HIDE DEF lo, buf, con, pend
<1>4. (\E m \in lo .. Pushed : m \in fills)
        <=> Pushed \in fills \/ (buf > 0 /\ \E m \in lo .. Pushed - 1 : m \in fills)
  <2>0. buf \in Nat
    BY <1>1, Geometry
  <2>1. ASSUME NEW m \in lo .. Pushed, m \in fills
        PROVE  Pushed \in fills \/ (buf > 0 /\ \E k \in lo .. Pushed - 1 : k \in fills)
    <3>1. CASE m = Pushed
      BY <2>1, <3>1
    <3>2. CASE m # Pushed
      <4>1. m \in lo .. Pushed - 1 /\ buf > 0
        BY <1>1, <2>0, <3>2
      <4> QED
        BY <2>1, <4>1
    <3> QED
      BY <3>1, <3>2
  <2>2. Pushed \in lo .. Pushed /\ lo .. Pushed - 1 \subseteq lo .. Pushed
    BY <1>1, <2>0
  <2> QED
    BY <2>1, <2>2
<1>5. WindowMark(pk, con) <=> \E m \in lo .. Pushed : m \in fills
  BY <1>1, <1>2, <1>3, <1>4
<1> QED
  BY <1>5 DEF lo, con

(* The frame completes the samples gathered: all of them are in place.     *)
LEMMA WindowJoined ==
  ASSUME IInv, DInv, pc = "push",
         NEW c \in Chans, NEW s \in 0 .. (pk.frames_buffered + 1) * SamplesPerPkt - 1
  PROVE  /\ s \in 0 .. WindowSamples - 1
         /\ AppendFrame(pk.planar, pk.frames_buffered, Block(Pushed))[c * WindowSamples + s] =
              <<(Pushed \div Fpp) * Fpp + s \div SamplesPerPkt, c, s % SamplesPerPkt>>
<1> DEFINE S == SamplesPerPkt
           f == pk.frames_buffered
           F == f * S
           d == s - F
           lo == (Pushed \div Fpp) * Fpp
           joined == AppendFrame(pk.planar, f, Block(Pushed))
<1>1. /\ Pushed \in Nat /\ lo \in Nat /\ f \in 0 .. Fpp - 1 /\ Pushed = lo + f
      /\ S \in Nat \ {0} /\ Fpp \in Nat /\ WindowSamples = Fpp * S
  BY FrameToPush, Geometry
<1>2. f \in Nat /\ F \in Nat /\ (f + 1) * S = F + S /\ (f + 1) * S <= Fpp * S
  <2>1. f \in Nat /\ f + 1 <= Fpp
    BY <1>1
  <2>2. (f + 1) * S <= Fpp * S
    BY <1>1, <2>1, ProductOrder
  <2> HIDE DEF S, f
  <2>3. (f + 1) * S = f * S + S /\ f * S \in Nat
    BY <1>1, <2>1, SMTT(30)
  <2> QED
    BY <2>1, <2>2, <2>3
<1>3. s \in 0 .. WindowSamples - 1 /\ s < F + S
  <2>1. s \in 0 .. (f + 1) * S - 1
    OBVIOUS
  <2>2. Fpp * S \in Int
    BY <1>1
  <2> HIDE DEF F, S, f
  <2> QED
    BY <1>1, <1>2, <2>1, <2>2
<1>4. joined[c * WindowSamples + s] =
        IF d \in 0 .. S - 1 THEN <<Pushed, c, d>> ELSE pk.planar[c * WindowSamples + s]
  <2>1. pk.planar \in [Cells -> Names]
    BY DEF DInv, LoopType, Packetizers
  <2>2. f \in Nat /\ Pushed \in Nat
    BY <1>1, <1>2
  <2>3. \A b \in Chans : \A t \in 0 .. WindowSamples - 1 :
          joined[b * WindowSamples + t] =
            IF t - f * SamplesPerPkt \in 0 .. SamplesPerPkt - 1
            THEN <<Pushed, b, t - f * SamplesPerPkt>>
            ELSE pk.planar[b * WindowSamples + t]
    <3> HIDE DEF f
    <3> QED
      BY ONLY <2>1, <2>2, AppendedFrame
  <2> HIDE DEF joined
  <2>4. s \in 0 .. WindowSamples - 1
    BY <1>3
  <2> QED
    BY ONLY <2>3, <2>4, c \in Chans
<1> HIDE DEF joined
<1>5. CASE s < F
  <2>1. s \in 0 .. f * SamplesPerPkt - 1
    BY <1>2, <1>3, <1>5
  <2>2. pk.planar[c * WindowSamples + s] = <<lo + s \div S, c, s % S>>
    BY <2>1 DEF DInv, Gathered
  <2>3. ~(d \in 0 .. S - 1)
    BY <1>1, <1>2, <1>3, <1>5
  <2> QED
    BY <1>3, <1>4, <2>2, <2>3 DEF joined
<1>6. CASE ~(s < F)
  <2>1. d \in 0 .. S - 1 /\ s = F + d
    BY <1>1, <1>2, <1>3, <1>6
  <2>2. s \div S = f /\ s % S = d
    <3>1. (f * S + d) \div S = f /\ (f * S + d) % S = d
      BY <1>1, <1>2, <2>1, RowColumn
    <3> QED
      BY <2>1, <3>1
  <2> HIDE DEF d, f, S
  <2>3. joined[c * WindowSamples + s] = <<lo + s \div S, c, s % S>>
    BY <1>1, <1>4, <2>1, <2>2
  <2> QED
    BY <1>3, <2>3 DEF joined, f, S
<1> QED
  BY <1>5, <1>6

(* A push moves the loop by one frame of the burst, and past its end the   *)
(* whole of the stream was pushed.                                         *)
LEMMA PushMoves ==
  ASSUME IInv, DInv, Push, pk' \in Packetizers, count' \in Nat
  PROVE  /\ Pushed' = Pushed + 1 /\ clock' = clock /\ fills' = fills
         /\ LoopType' /\ Pushing' /\ AnnouncedInTime'
<1>1. LoopType /\ Pushing /\ AnnouncedInTime
  BY DEF DInv
<1>2. /\ pc = "push" /\ next' = next + 1 /\ UNCHANGED <<vars, live, stop, fills>>
      /\ IF next < Len(out) THEN pc' = "push" /\ UNCHANGED <<frames, quiet>>
         ELSE pc' = "check" /\ TookAFrame
  BY DEF Push
<1>3. /\ next \in 1 .. Len(out) /\ Len(out) \in Nat /\ Emitted(stats) \in Nat
      /\ Pushed = StreamPos(next)
  BY <1>2, FrameToPush
<1>4. /\ Emitted(stats)' = Emitted(stats) /\ out' = out
      /\ clock' = clock /\ fills' = fills /\ sink' = sink
      /\ \A j : StreamPos(j)' = StreamPos(j)
  BY <1>2 DEF vars, Emitted, StreamPos
<1>5. next + 1 \in Nat \ {0}
  BY <1>3
<1>6. sink' = TRUE /\ live' \in BOOLEAN /\ stop' \in BOOLEAN
  BY <1>1, <1>2, <1>4 DEF LoopType
<1>7. CASE next < Len(out)
  <2>1. pc' = "push" /\ frames' = frames /\ quiet' = quiet
    BY <1>2, <1>7
  <2>2. Pushed' = Pushed + 1
    <3>1. Pushed' = Emitted(stats)' - Len(out') + next' - 1
      BY <2>1 DEF Pushed, StreamPos
    <3> QED
      BY <1>2, <1>3, <1>4, <3>1 DEF StreamPos
  <2>3. AnnouncedInTime'
    BY <1>1, <1>2, <2>1 DEF AnnouncedInTime
  <2>4. LoopType'
    BY <1>1, <1>2, <1>4, <1>5, <1>6, <2>1 DEF LoopType
  <2>5. Pushing'
    <3>1. next' <= Len(out')
      BY <1>2, <1>3, <1>4, <1>7
    <3> QED
      BY <1>1, <1>2, <1>4, <3>1 DEF Pushing
  <2> QED
    BY <1>4, <2>2, <2>3, <2>4, <2>5
<1>8. CASE ~(next < Len(out))
  <2>1. pc' = "check" /\ TookAFrame
    BY <1>2, <1>8
  <2>2. Pushed' = Pushed + 1
    <3>1. Pushed' = Emitted(stats)
      BY <1>4, <2>1 DEF Pushed
    <3>2. next = Len(out)
      BY <1>3, <1>8
    <3> QED
      BY <1>3, <3>1, <3>2 DEF StreamPos
  <2>3. AnnouncedInTime' /\ frames' \in Nat /\ quiet' \in Nat
    BY <1>1, <1>2, <2>1, AnnouncesInTime
  <2>4. pc' \in {"check", "recv", "push", "done"} /\ pc' # "push"
    BY <2>1
  <2>5. LoopType'
    BY <1>1, <1>2, <1>4, <1>5, <1>6, <2>3, <2>4 DEF LoopType
  <2>6. Pushing'
    BY <2>4 DEF Pushing
  <2> QED
    BY <1>4, <2>2, <2>3, <2>5, <2>6
<1> QED
  BY <1>7, <1>8

(* What a push does to the packetizer, told from the frame's position.     *)
LEMMA PushFacts ==
  ASSUME IInv, DInv, Push
  PROVE  LET f == pk.frames_buffered
             w == Pushed \div Fpp
             stamp == (clock.anchor + w * WindowSamples) % TsMod
         IN  /\ pk' \in Packetizers
             /\ pk'.pending_ts = stamp
             /\ pk'.pending_concealed <=> \E m \in w * Fpp .. Pushed : m \in fills
             /\ \A c \in Chans : \A s \in 0 .. (f + 1) * SamplesPerPkt - 1 :
                  /\ s \in 0 .. WindowSamples - 1
                  /\ pk'.planar[c * WindowSamples + s] =
                       <<w * Fpp + s \div SamplesPerPkt, c, s % SamplesPerPkt>>
             /\ count' = count + Cardinality(DOMAIN packets')
             /\ f + 1 < Fpp => /\ packets' = Nothing /\ pk'.frames_buffered = f + 1
                               /\ pk'.seq = pk.seq
             /\ ~(f + 1 < Fpp) =>
                  /\ pk'.frames_buffered = 0
                  /\ \A i \in Flows : pk'.seq[i] = NextSeq(pk.seq[i])
                  /\ DOMAIN packets' = Flows
                  /\ \A i \in Flows :
                       LET fl == dante_build_flows[i]
                       IN  /\ packets'[i].seq = pk.seq[i]
                           /\ packets'[i].ts = stamp
                           /\ packets'[i].concealed = pk'.pending_concealed
                           /\ packets'[i].payload =
                                rtp_l24_build_flow(pk'.planar, fl.ch_start, fl.n_ch,
                                                   WindowSamples)
<1> DEFINE f == pk.frames_buffered
           lo == (Pushed \div Fpp) * Fpp
           ts == out[next].ts
           con == out[next].concealed
           joined == AppendFrame(pk.planar, f, Block(Pushed))
           r == packetizer_push(pk, Block(Pushed), ts, con)
           stamp == (clock.anchor + (Pushed \div Fpp) * WindowSamples) % TsMod
<1>1. pc = "push" /\ pk \in Packetizers
  BY DEF Push, DInv, LoopType
<1>2. /\ Pushed \in Nat /\ Pushed = StreamPos(next)
      /\ ts \in Timestamps /\ con \in BOOLEAN
  BY <1>1, FrameToPush
<1>3. /\ pk' = r.pk /\ packets' = r.packets
      /\ count' = count + Cardinality(DOMAIN packets')
  BY <1>2 DEF Push
<1>4. WindowTs(pk, ts) = stamp
  BY <1>1, WindowStamp
<1>5. WindowMark(pk, con) <=> \E m \in lo .. Pushed : m \in fills
  BY <1>1, WindowMarked
<1>6. \A c \in Chans : \A s \in 0 .. (f + 1) * SamplesPerPkt - 1 :
        /\ s \in 0 .. WindowSamples - 1
        /\ joined[c * WindowSamples + s] =
             <<lo + s \div SamplesPerPkt, c, s % SamplesPerPkt>>
  BY <1>1, WindowJoined
<1> HIDE DEF ts, con
<1>7. /\ r.pk \in Packetizers /\ r.pk.planar = joined
      /\ r.pk.pending_ts = WindowTs(pk, ts)
      /\ r.pk.pending_concealed = WindowMark(pk, con)
      /\ f + 1 < Fpp => /\ r.packets = Nothing /\ r.pk.frames_buffered = f + 1
                        /\ r.pk.seq = pk.seq
      /\ ~(f + 1 < Fpp) =>
           /\ r.pk.frames_buffered = 0
           /\ \A i \in Flows : r.pk.seq[i] = NextSeq(pk.seq[i])
           /\ DOMAIN r.packets = Flows
           /\ \A i \in Flows :
                /\ r.packets[i].seq = pk.seq[i]
                /\ r.packets[i].ts = WindowTs(pk, ts)
                /\ r.packets[i].concealed = WindowMark(pk, con)
                /\ r.packets[i].payload =
                     rtp_l24_build_flow(joined, dante_build_flows[i].ch_start,
                                        dante_build_flows[i].n_ch, WindowSamples)
  BY ONLY <1>1, <1>2, PushResult
<1> HIDE DEF f, lo, joined, r, stamp
<1>8. /\ pk' \in Packetizers /\ pk'.planar = joined
      /\ pk'.pending_ts = stamp
      /\ pk'.pending_concealed = WindowMark(pk, con)
  BY <1>3, <1>4, <1>7
<1>9. pk'.pending_concealed <=> \E m \in lo .. Pushed : m \in fills
  BY <1>5, <1>8
<1>10. \A c \in Chans : \A s \in 0 .. (f + 1) * SamplesPerPkt - 1 :
         /\ s \in 0 .. WindowSamples - 1
         /\ pk'.planar[c * WindowSamples + s] =
              <<lo + s \div SamplesPerPkt, c, s % SamplesPerPkt>>
  BY <1>6, <1>8
<1>11. f + 1 < Fpp => /\ packets' = Nothing /\ pk'.frames_buffered = f + 1
                      /\ pk'.seq = pk.seq
  BY <1>3, <1>7
<1>12. ~(f + 1 < Fpp) =>
         /\ pk'.frames_buffered = 0
         /\ \A i \in Flows : pk'.seq[i] = NextSeq(pk.seq[i])
         /\ DOMAIN packets' = Flows
         /\ \A i \in Flows :
              /\ packets'[i].seq = pk.seq[i]
              /\ packets'[i].ts = stamp
              /\ packets'[i].concealed = pk'.pending_concealed
              /\ packets'[i].payload =
                   rtp_l24_build_flow(pk'.planar, dante_build_flows[i].ch_start,
                                      dante_build_flows[i].n_ch, WindowSamples)
  BY <1>3, <1>4, <1>7, <1>8
<1> QED
  BY <1>3, <1>8, <1>9, <1>10, <1>11, <1>12 DEF f, lo, stamp

(* A push that does not fill the window.                                   *)
LEMMA PartialKeepsDInv ==
  ASSUME IInv, DInv, Push, pk.frames_buffered + 1 < Fpp
  PROVE  DInv'
<1> DEFINE f == pk.frames_buffered
           w == Pushed \div Fpp
<1>1. /\ pk' \in Packetizers /\ packets' = Nothing /\ pk'.frames_buffered = f + 1
      /\ pk'.seq = pk.seq
      /\ pk'.pending_ts = (clock.anchor + w * WindowSamples) % TsMod
      /\ pk'.pending_concealed <=> \E m \in w * Fpp .. Pushed : m \in fills
      /\ \A c \in Chans : \A s \in 0 .. (f + 1) * SamplesPerPkt - 1 :
           pk'.planar[c * WindowSamples + s] =
             <<w * Fpp + s \div SamplesPerPkt, c, s % SamplesPerPkt>>
      /\ count' = count + Cardinality(DOMAIN packets')
  BY PushFacts
<1>2. count' = count /\ count' \in Nat
  <2>1. Cardinality(DOMAIN packets') = 0
    BY <1>1, FS_EmptySet DEF Nothing
  <2> QED
    BY <1>1, <2>1 DEF DInv, LoopType
<1>3. /\ Pushed' = Pushed + 1 /\ clock' = clock /\ fills' = fills
      /\ LoopType' /\ Pushing' /\ AnnouncedInTime'
  BY <1>1, <1>2, PushMoves
<1>4. Pushed \in Nat /\ f = Pushed % Fpp /\ Fpp \in Nat \ {0}
  BY FrameToPush, Geometry DEF Push
<1>5. Pushed' % Fpp = f + 1 /\ Pushed' \div Fpp = w
  <2>1. (Pushed % Fpp) + 1 < Fpp
    BY <1>4
  <2>2. (Pushed + 1) % Fpp = (Pushed % Fpp) + 1 /\ (Pushed + 1) \div Fpp = Pushed \div Fpp
    BY <1>4, <2>1, NextDivMod
  <2> QED
    BY <1>3, <1>4, <2>2
<1> HIDE DEF f, w
<1>6. OnlyThePartialWindowHeld'
  <2>1. count = NFlows * w
    BY DEF DInv, OnlyThePartialWindowHeld, w
  <2> QED
    BY <1>1, <1>2, <1>5, <2>1 DEF OnlyThePartialWindowHeld
<1>7. Gathering'
  <2>1. \A i \in Flows : pk.seq[i] = w % SeqMod
    BY DEF DInv, Gathering, w
  <2>2. w * Fpp .. Pushed' - 1 = w * Fpp .. Pushed
    BY <1>3, <1>4
  <2>3. pk'.pending_concealed <=> \E m \in w * Fpp .. Pushed' - 1 : m \in fills'
    BY <1>1, <1>3, <2>2
  <2> QED
    BY <1>1, <1>3, <1>5, <2>1, <2>3 DEF Gathering
<1>8. Gathered'
  BY <1>1, <1>5 DEF Gathered
<1>9. FlowsContiguous' /\ ConcealmentFlagged' /\ EverySampleCarriedOnce'
  BY <1>1 DEF FlowsContiguous, ConcealmentFlagged, EverySampleCarriedOnce, Nothing
<1> QED
  BY <1>3, <1>6, <1>7, <1>8, <1>9 DEF DInv

(* A push that fills the window: one packet of every flow goes out.        *)
LEMMA FullKeepsDInv ==
  ASSUME IInv, DInv, Push, ~(pk.frames_buffered + 1 < Fpp)
  PROVE  DInv'
<1> DEFINE f == pk.frames_buffered
           w == Pushed \div Fpp
           stamp == (clock.anchor + w * WindowSamples) % TsMod
<1>1. /\ pk' \in Packetizers /\ pk'.frames_buffered = 0
      /\ \A i \in Flows : pk'.seq[i] = NextSeq(pk.seq[i])
      /\ pk'.pending_concealed <=> \E m \in w * Fpp .. Pushed : m \in fills
      /\ \A c \in Chans : \A s \in 0 .. (f + 1) * SamplesPerPkt - 1 :
           pk'.planar[c * WindowSamples + s] =
             <<w * Fpp + s \div SamplesPerPkt, c, s % SamplesPerPkt>>
      /\ DOMAIN packets' = Flows
      /\ \A i \in Flows :
           /\ packets'[i].seq = pk.seq[i]
           /\ packets'[i].ts = stamp
           /\ packets'[i].concealed = pk'.pending_concealed
           /\ packets'[i].payload =
                rtp_l24_build_flow(pk'.planar, dante_build_flows[i].ch_start,
                                   dante_build_flows[i].n_ch, WindowSamples)
      /\ count' = count + Cardinality(DOMAIN packets')
  BY PushFacts
<1>2. NFlows \in Nat \ {0} /\ Cardinality(Flows) = NFlows
  <2>1. NFlows \in Nat \ {0} /\ 0 \in Int /\ NFlows - 1 \in Int
    BY FlowCount
  <2> HIDE DEF NFlows
  <2>2. Cardinality(0 .. NFlows - 1) = IF 0 > NFlows - 1 THEN 0 ELSE NFlows - 1 - 0 + 1
    BY <2>1, FS_Interval
  <2>3. NFlows - 1 - 0 + 1 = NFlows
    BY <2>1
  <2> QED
    BY <2>1, <2>2, <2>3 DEF Flows
<1>3. count \in Nat /\ count' = count + NFlows /\ count' \in Nat
  BY <1>1, <1>2 DEF DInv, LoopType
<1>4. /\ Pushed' = Pushed + 1 /\ clock' = clock /\ fills' = fills
      /\ LoopType' /\ Pushing' /\ AnnouncedInTime'
  BY <1>1, <1>3, PushMoves
<1>5. /\ Pushed \in Nat /\ f = Pushed % Fpp /\ Fpp \in Nat \ {0} /\ w \in Nat
      /\ w * Fpp \in Nat /\ Pushed = w * Fpp + f
  BY FrameToPush, Geometry DEF Push
<1>6. Pushed' % Fpp = 0 /\ Pushed' \div Fpp = w + 1 /\ f + 1 = Fpp
  <2>1. ~((Pushed % Fpp) + 1 < Fpp)
    BY <1>5
  <2>2. /\ (Pushed + 1) % Fpp = 0 /\ (Pushed + 1) \div Fpp = (Pushed \div Fpp) + 1
        /\ (Pushed % Fpp) + 1 = Fpp
    BY ONLY <1>5, <2>1, NextDivMod
  <2> QED
    BY <1>4, <1>5, <2>2
<1> HIDE DEF f, w, stamp
<1>7. Window' = w
  BY <1>5, <1>6 DEF Window
<1>8. w * Fpp + Fpp - 1 = Pushed
  BY <1>5, <1>6
<1>9. \A i \in Flows : pk.seq[i] = w % SeqMod
  BY DEF DInv, Gathering, w
<1>10. OnlyThePartialWindowHeld'
  <2>1. count = NFlows * w
    BY DEF DInv, OnlyThePartialWindowHeld, w
  <2>2. NFlows * (w + 1) = NFlows * w + NFlows
    BY <1>2, <1>5, SMTT(30)
  <2> QED
    BY <1>1, <1>3, <1>6, <2>1, <2>2 DEF OnlyThePartialWindowHeld
<1>11. Gathering'
  <2>1. NextSeq(w % SeqMod) = (w + 1) % SeqMod
    <3>1. SeqMod \in Nat \ {0} /\ w \in Int /\ 1 \in Int
      BY <1>5, Geometry
    <3> QED
      BY ONLY <3>1, ModAdd DEF NextSeq
  <2>2. \A i \in Flows : pk'.seq[i] = (w + 1) % SeqMod
    BY <1>1, <1>9, <2>1
  <2> QED
    BY <1>1, <1>6, <2>2 DEF Gathering
<1>12. Gathered'
  <2>1. 0 * SamplesPerPkt - 1 = -1
    BY Geometry
  <2> QED
    BY <1>1, <2>1 DEF Gathered
<1>13. FlowsContiguous'
  BY <1>1, <1>4, <1>7, <1>9 DEF FlowsContiguous, stamp
<1>14. ConcealmentFlagged'
  BY <1>1, <1>4, <1>7, <1>8 DEF ConcealmentFlagged
<1>15. EverySampleCarriedOnce'
  <2> SUFFICES ASSUME NEW c \in Chans
               PROVE  \E i \in Flows :
                        LET fl == dante_build_flows[i]
                            c0 == c - fl.ch_start
                        IN  /\ c0 \in 0 .. fl.n_ch - 1
                            /\ \A j \in Flows \ {i} :
                                 c < dante_build_flows[j].ch_start \/
                                 c >= dante_build_flows[j].ch_start + dante_build_flows[j].n_ch
                            /\ \A s \in 0 .. WindowSamples - 1 :
                                 packets'[i].payload[s * fl.n_ch + c0] =
                                   <<w * Fpp + s \div SamplesPerPkt, c, s % SamplesPerPkt>>
    BY <1>7 DEF EverySampleCarriedOnce
  <2> DEFINE i == c \div ChPerFlow
             start == dante_build_flows[i].ch_start
             n == dante_build_flows[i].n_ch
             c0 == c - start
  <2>1. /\ i \in Flows /\ c0 \in 0 .. n - 1
        /\ \A j \in Flows \ {i} :
             c < dante_build_flows[j].ch_start \/
             c >= dante_build_flows[j].ch_start + dante_build_flows[j].n_ch
    BY ChannelFlow
  <2> HIDE DEF i
  <2>2. start \in Nat /\ n \in Nat \ {0}
    BY <2>1, FlowShape
  <2>3. packets'[i].payload = rtp_l24_build_flow(pk'.planar, start, n, WindowSamples)
    BY <1>1, <2>1
  <2> HIDE DEF start, n
  <2>4. ASSUME NEW s \in 0 .. WindowSamples - 1
        PROVE  packets'[i].payload[s * n + c0] =
                 <<w * Fpp + s \div SamplesPerPkt, c, s % SamplesPerPkt>>
    <3>1. rtp_l24_build_flow(pk'.planar, start, n, WindowSamples)[s * n + c0] =
            pk'.planar[(start + c0) * WindowSamples + s]
      <4> HIDE DEF c0
      <4> QED
        BY <2>1, <2>2, PayloadPlace
    <3>2. start + c0 = c
      BY <2>2, Geometry DEF Chans
    <3>3. s \in 0 .. (f + 1) * SamplesPerPkt - 1
      BY <1>6, Geometry
    <3>4. pk'.planar[c * WindowSamples + s] =
            <<w * Fpp + s \div SamplesPerPkt, c, s % SamplesPerPkt>>
      BY <1>1, <3>3 DEF f
    <3> HIDE DEF c0
    <3> QED
      BY <2>3, <3>1, <3>2, <3>4
  <2> QED
    BY <2>1, <2>4 DEF start, n
<1> QED
  BY <1>4, <1>10, <1>11, <1>12, <1>13, <1>14, <1>15 DEF DInv

(* Every step keeps the invariant.                                         *)
LEMMA NextDInv == IInv /\ DInv /\ [DanteNext]_danteAllVars => DInv'
<1> SUFFICES ASSUME IInv, DInv, [DanteNext]_danteAllVars PROVE DInv'
  OBVIOUS
<1>1. stop \in BOOLEAN
  BY DEF DInv, LoopType
<1>2. CASE Signal
  BY <1>2, LoopKeepsDInv DEF Signal
<1>3. CASE Check
  BY <1>1, <1>3, LoopKeepsDInv DEF Check
<1>4. CASE Push
  BY <1>4, PartialKeepsDInv, FullKeepsDInv
<1>5. CASE Idle
  BY <1>1, <1>5, LoopKeepsDInv DEF Idle
<1>6. CASE End
  BY <1>1, <1>6, LoopKeepsDInv DEF End
<1>7. CASE Finished
  BY <1>1, <1>7, LoopKeepsDInv DEF Finished, danteAllVars, danteVars
<1>8. CASE TakeMalformed
  BY <1>8, MalformedKeepsDInv
<1>9. CASE \E counter \in Counters, pcm \in Packets : Take(counter, pcm)
  BY <1>9, TakeKeepsDInv
<1>10. CASE UNCHANGED danteAllVars
  BY <1>1, <1>10, LoopKeepsDInv DEF danteAllVars, danteVars
<1> QED
  BY <1>2, <1>3, <1>4, <1>5, <1>6, <1>7, <1>8, <1>9, <1>10 DEF DanteNext

(* The invariant holds throughout.                                         *)
THEOREM DanteInvariant == DanteSpec => []DInv
<1>1. DanteInit => DInv
  BY InitDInv
<1>2. IInv /\ DInv /\ [DanteNext]_danteAllVars => DInv'
  BY NextDInv
<1>3. DanteSpec => []IInv
  BY DantePipelineInvariant
<1> QED
  BY <1>1, <1>2, <1>3, PTL DEF DanteSpec

(* Every flow is a contiguous RTP stream of its own, whatever is lost on   *)
(* the wire and however bursts of concealment straddle the windows.        *)
THEOREM FlowsAlwaysContiguous == DanteSpec => []FlowsContiguous
<1>1. DInv => FlowsContiguous
  BY DEF DInv
<1> QED
  BY <1>1, DanteInvariant, PTL

(* Every sample of a window is in exactly one flow's packet, at its place. *)
THEOREM EverySampleAlwaysCarriedOnce == DanteSpec => []EverySampleCarriedOnce
<1>1. DInv => EverySampleCarriedOnce
  BY DEF DInv
<1> QED
  BY <1>1, DanteInvariant, PTL

(* A packet is flagged exactly when one of its frames was concealed.       *)
THEOREM ConcealmentAlwaysFlagged == DanteSpec => []ConcealmentFlagged
<1>1. DInv => ConcealmentFlagged
  BY DEF DInv
<1> QED
  BY <1>1, DanteInvariant, PTL

(* All whole windows went out on every flow; only the rest is held.        *)
THEOREM AlwaysOnlyThePartialWindowHeld == DanteSpec => []OnlyThePartialWindowHeld
<1>1. DInv => OnlyThePartialWindowHeld
  BY DEF DInv
<1> QED
  BY <1>1, DanteInvariant, PTL

(* The live loop never takes Pps frames without an announcement.           *)
THEOREM SessionAlwaysKeptFresh == DanteSpec => []SessionKeptFresh
<1>1. DInv => SessionKeptFresh
  <2> SUFFICES ASSUME DInv, live PROVE quiet < Pps
    BY DEF SessionKeptFresh
  <2>1. frames \in Nat /\ quiet \in Nat /\ quiet <= frames % Pps
    BY DEF DInv, LoopType, AnnouncedInTime
  <2>2. frames % Pps \in 0 .. Pps - 1 /\ Pps \in Nat
    BY <2>1, Geometry, NextDivMod
  <2> QED
    BY <2>1, <2>2
<1> QED
  BY <1>1, DanteInvariant, PTL
=============================================================================
