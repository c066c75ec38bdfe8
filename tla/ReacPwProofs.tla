---------------------------- MODULE ReacPwProofs ----------------------------
(***************************************************************************)
(* Proofs about reac-pw.  Its life cycle: main takes its parts down in an  *)
(* order in which nothing is freed while a thread may use it.  Its sink,   *)
(* heard by a feeder (Loopback): what is played is what is heard, for every *)
(* frame size and number of channels, every sequence of quanta and links   *)
(* and every pattern of failing sends.                                     *)
(***************************************************************************)
EXTENDS ReacPw, Loopback, ModArith

(* Where main is says what exists.  The ring lives from reac_rx_open to    *)
(* reac_ring_free.                                                         *)
RingStage ==
  /\ pc = "open" => ring = "none"
  /\ pc \in {"source", "sink", "start", "loop", "stop", "join", "unsource", "unsink", "free"}
       => ring = "alive"
  /\ pc = "deinit" => ring # "alive" /\ txring # "alive"

(* The feeder exists from reac_rx_start on and has ended when main is past *)
(* the join; it holds its source between opening and closing it.           *)
FeederStage ==
  /\ pc \in {"open", "source", "sink", "start"} => feeder = "none"
  /\ pc \in {"unsource", "unsink", "free", "deinit"} => feeder = "ended"
  /\ feeder \in {"none", "open", "ended"} => ~wire

(* The realtime thread is only in the callback of a connected node, and a  *)
(* connected sink has its socket.                                          *)
NodeStage ==
  /\ pc = "open" => source = "none"
  /\ pc \in {"open", "source"} => sink = "none"
  /\ pc \in {"unsink", "free", "deinit"} => source # "connected"
  /\ pc \in {"free", "deinit"} => sink # "connected" /\ ~sock
  /\ rt = "source" => source = "connected"
  /\ rt = "sink" => sink = "connected"
  /\ sink = "connected" => sock
  /\ pc = "sink" => tx
  /\ ~tx => txring = "none"

(* running is cleared once, and the frame in hand is the last one.         *)
StopStage ==
  /\ running => after = 0
  /\ pc \in {"open", "source", "sink", "start", "loop", "stop"} => after = 0
  /\ pc \in {"loop", "stop"} => running
  /\ after > 0 => after = 1 /\ feeder \in {"check", "close", "ended"}

PwInv ==
  /\ TypeOK
  /\ RingStage /\ FeederStage /\ NodeStage /\ StopStage
  /\ CleanExit
  /\ pc # "exit" => code = 0

LEMMA InitPw == Init => PwInv
<1> SUFFICES ASSUME Init PROVE PwInv
  OBVIOUS
<1>1. /\ ~sock /\ ~running /\ ~wire /\ ~signal
      /\ sock \in BOOLEAN /\ running \in BOOLEAN /\ wire \in BOOLEAN
      /\ signal \in BOOLEAN
  BY Zenon DEF Init
<1> QED
  BY <1>1 DEF Init, PwInv, TypeOK, RingStage, FeederStage, NodeStage, StopStage, CleanExit

(* Every step of every thread keeps the stages.                            *)
LEMMA NextPw == PwInv /\ [Next]_vars => PwInv'
<1> SUFFICES ASSUME PwInv, [Next]_vars PROVE PwInv'
  OBVIOUS
<1> USE DEF PwInv, TypeOK, RingStage, FeederStage, NodeStage, StopStage, CleanExit,
            config, nodeVars, rxVars, vars, Exit, Feeding, FeederLeaves
<1>1. CASE Open
  BY <1>1 DEF Open
<1>2. CASE OpenFails
  BY <1>2 DEF OpenFails
<1>3. CASE NewSource
  BY <1>3 DEF NewSource
<1>4. CASE NewSourceFails
  BY <1>4 DEF NewSourceFails
<1>5. CASE NewSink
  <2>1. CASE sink' = "connected" /\ sock' = TRUE
    <3>1. sock' /\ sock' \in BOOLEAN
      BY <2>1, Zenon
    <3> QED
      BY <1>5, <2>1, <3>1 DEF NewSink
  <2>2. CASE UNCHANGED <<sink, sock>>
    BY <1>5, <2>2 DEF NewSink
  <2> QED
    BY <1>5, <2>1, <2>2 DEF NewSink
<1>6. CASE Start
  BY <1>6 DEF Start
<1>7. CASE StartFails
  BY <1>7 DEF StartFails
<1>8. CASE Quit
  BY <1>8 DEF Quit
<1>9. CASE Stop
  <2>1. ~running' /\ running' \in BOOLEAN
    BY <1>9, Zenon DEF Stop
  <2> QED
    BY <1>9, <2>1 DEF Stop
<1>10. CASE Join
  BY <1>10 DEF Join
<1>11. CASE DestroySource
  BY <1>11 DEF DestroySource
<1>12. CASE DestroySink
  <2>1. ~sock' /\ sock' \in BOOLEAN
    BY <1>12, Zenon DEF DestroySink
  <2> QED
    BY <1>12, <2>1 DEF DestroySink
<1>13. CASE Free
  BY <1>13 DEF Free
<1>14. CASE Deinit
  BY <1>14 DEF Deinit
<1>15. CASE Signal
  BY <1>15 DEF Signal
<1>16. CASE FeederOpen
  <2>1. CASE feeder' = "check" /\ wire' = TRUE
    <3>1. wire' /\ wire' \in BOOLEAN
      BY <2>1, Zenon
    <3> QED
      BY <1>16, <2>1, <3>1 DEF FeederOpen
  <2>2. CASE feeder' = "ended" /\ UNCHANGED wire
    BY <1>16, <2>2 DEF FeederOpen
  <2> QED
    BY <1>16, <2>1, <2>2 DEF FeederOpen
<1>17. CASE FeederCheck
  BY <1>17 DEF FeederCheck
<1>18. CASE Frame
  BY <1>18 DEF Frame
<1>19. CASE NoFrame
  BY <1>19 DEF NoFrame
<1>20. CASE Rewind
  BY <1>20 DEF Rewind
<1>21. CASE Feed
  BY <1>21 DEF Feed
<1>22. CASE FeederClose
  <2>1. ~wire' /\ wire' \in BOOLEAN
    BY <1>22, Zenon DEF FeederClose
  <2> QED
    BY <1>22, <2>1 DEF FeederClose
<1>23. CASE Process
  BY <1>23 DEF Process
<1>24. CASE ProcessDone
  BY <1>24 DEF ProcessDone
<1>25. CASE UNCHANGED vars
  BY <1>25
<1> QED
  BY <1>1, <1>2, <1>3, <1>4, <1>5, <1>6, <1>7, <1>8, <1>9, <1>10, <1>11, <1>12, <1>13, <1>14, <1>15, <1>16, <1>17, <1>18, <1>19, <1>20, <1>21, <1>22, <1>23, <1>24, <1>25 DEF Next, Main, Exited

(* The strengthened invariant of the life cycle of reac-pw, for both kinds *)
(* of source and every point at which signals and failures strike.         *)
THEOREM PwInvariant == Spec => []PwInv
  BY InitPw, NextPw, PTL DEF Spec

(* All state of the life cycle keeps its type (main.c, reac_rx.c).         *)
THEOREM PwTypeCorrect == Spec => []TypeOK
<1>1. PwInv => TypeOK
  BY DEF PwInv
<1> QED
  BY PwInvariant, <1>1, PTL

(* Neither the feeder nor a realtime callback uses the ring or the socket  *)
(* outside its life: the teardown of main.c is in the right order.         *)
THEOREM NothingEverFreedInUse == Spec => []NothingFreedInUse
<1>1. PwInv => NothingFreedInUse
  BY DEF PwInv, TypeOK, RingStage, FeederStage, NodeStage, NothingFreedInUse
<1> QED
  BY PwInvariant, <1>1, PTL

(* An exit with status 0 leaves neither thread, node, ring, source nor     *)
(* socket behind.                                                          *)
THEOREM ExitAlwaysClean == Spec => []CleanExit
<1>1. PwInv => CleanExit
  BY DEF PwInv
<1> QED
  BY PwInvariant, <1>1, PTL

(* After reac_rx_stop has cleared running at most one frame is fed.        *)
THEOREM AtMostOneFrameAfterStop == Spec => []OneFrameAfterStop
<1>1. PwInv => OneFrameAfterStop
  BY DEF PwInv, TypeOK, StopStage, OneFrameAfterStop
<1> QED
  BY PwInvariant, <1>1, PTL

-----------------------------------------------------------------------------
(***************************************************************************)
(* The playback path.                                                      *)
(***************************************************************************)

(* Whole frames played so far.                                             *)
FramesPlayed == pos \div SamplesPerPkt

(* The number of the k-th frame in flight, after the newest received.      *)
SentAt(k) == IF k = 0 THEN newest ELSE air[k].n

-----------------------------------------------------------------------------
(* The inductive invariant.                                                *)

Frames == [counter : 0 .. TxCounterMod - 1,
           audio : [0 .. SamplesPerPkt * NChannels - 1 -> Int]]

Sendings == [frame : Frames, n : Nat]

LoopType ==
  /\ stage \in [Ports -> [Slots -> Int]]
  /\ staged \in Slots /\ counter \in 0 .. TxCounterMod - 1
  /\ linked \subseteq Ports
  /\ pos \in Nat /\ left \in Nat /\ pos + left <= MaxSamples
  /\ fails \in 0 .. MaxFails
  /\ muted \subseteq Ports \X (0 .. pos - 1)
  /\ air \in Seq(Sendings)
  /\ have_counter \in BOOLEAN /\ last_counter \in Int /\ counter_gaps \in Int
  /\ newest \in Int /\ first \in Int /\ received \in Nat

(* PlayedOn for a given set m of muted samples.                            *)
SampleOn(m, ch, i) == IF ch \in Ports /\ <<ch, i>> \notin m THEN Input(ch, i) ELSE 0

(* The stage holds the samples played since the last whole frame.          *)
StagePlayed ==
  \A c \in Ports, s \in Slots :
    s < staged => stage[c][s] = SampleOn(muted, c, FramesPlayed * SamplesPerPkt + s)

(* A frame carries its number and the samples of its place.                *)
Carries(f, m) ==
  /\ f.frame.counter = f.n % TxCounterMod
  /\ \A ch \in Chans, s \in Slots :
       f.frame.audio[s * NChannels + ch] =
         f32_to_s24le(SampleOn(m, ch, f.n * SamplesPerPkt + s))

InFlight == \A k \in 1 .. Len(air) : Carries(air[k], muted)

(* Frames leave in order, and between two of them at most MaxFails were    *)
(* not sent, so that the counter tells how many.                           *)
SendsInOrder ==
  /\ \A k \in 1 .. Len(air) : SentAt(k) - SentAt(k - 1) \in 1 .. MaxFails + 1
  /\ \A k \in 0 .. Len(air) : SentAt(k) < FramesPlayed
  /\ SentAt(Len(air)) + 1 + fails = FramesPlayed

(* What the feeder knows is what the newest frame told it.                 *)
Receiver ==
  IF received = 0 THEN ~have_counter /\ counter_gaps = 0 /\ newest = -1
  ELSE have_counter /\ newest >= 0 /\ last_counter = newest % TxCounterMod

LInv ==
  /\ LoopType /\ CadenceFollowsGraph /\ StagePlayed /\ InFlight
  /\ SendsInOrder /\ Receiver
  /\ HeardIsPlayed /\ FailedSendsAreGaps

-----------------------------------------------------------------------------
(* What the wire does to a sample.                                         *)

(* The sizes of frames and ranges.                                         *)
LEMMA Sizes ==
  /\ SamplesPerPkt \in Nat \ {0} /\ NChannels \in Nat \ {0}
  /\ SinkChannels \in Nat \ {0} /\ SinkChannels <= NChannels
  /\ SMax \in Nat \ {0} /\ TxCounterMod \in Nat \ {0}
  /\ MaxFails \in Nat /\ MaxFails < TxCounterMod
  /\ WireRange \in Nat \ {0} /\ WireRange = 2 * SMax + 2
  BY SinkAssumption, ModeAssumption DEF WireRange

(* The nearest whole unit is at most half a unit away, and on the scale    *)
(* for what is on the scale.                                               *)
LEMMA Rounding ==
  ASSUME NEW y \in Int, -(2 * SMax + 2) <= y, y <= 2 * SMax
  PROVE  /\ lrintf(y) \in -(SMax + 1) .. SMax
         /\ y - 1 <= 2 * lrintf(y) /\ 2 * lrintf(y) <= y + 1
         /\ y % 2 = 0 => 2 * lrintf(y) = y
<1> DEFINE q == y \div 2
           e == q % 2
<1>1. SMax \in Nat /\ 2 \in Nat \ {0}
  BY Sizes
<1>2. q \in Int /\ y % 2 \in 0 .. 1 /\ y = 2 * q + (y % 2)
  BY <1>1, DivMod
<1>3. e \in 0 .. 1 /\ q = 2 * (q \div 2) + e /\ q \div 2 \in Int
  BY <1>1, <1>2, DivMod
<1>4. lrintf(y) = IF y % 2 = 0 THEN q ELSE q + e
  BY DEF lrintf
<1> HIDE DEF q, e
<1>5. CASE y % 2 = 0
  BY <1>1, <1>2, <1>4, <1>5
<1>6. CASE y % 2 # 0
  BY <1>1, <1>2, <1>3, <1>4, <1>6
<1> QED
  BY <1>5, <1>6

(* Two's complement and back is the identity on the scale.                 *)
LEMMA TwosComplement ==
  ASSUME NEW v \in -(SMax + 1) .. SMax
  PROVE  /\ v % WireRange \in Int
         /\ s24le_to_f32(v % WireRange) = 2 * v
<1>1. SMax \in Nat \ {0} /\ WireRange \in Nat \ {0} /\ WireRange = 2 * SMax + 2
  BY Sizes
<1> HIDE DEF WireRange
<1>2. v \in Int
  BY <1>1
<1>3. CASE v >= 0
  <2>1. v \in 0 .. WireRange - 1
    BY <1>1, <1>2, <1>3
  <2>2. v % WireRange = v
    BY <1>1, <2>1, ModSmall
  <2> QED
    BY <1>1, <1>2, <2>2 DEF s24le_to_f32
<1>4. CASE v < 0
  <2> DEFINE r == v + WireRange
  <2>1. r \in 0 .. WireRange - 1 /\ v = WireRange * (-1) + r /\ -1 \in Int /\ r > SMax
    BY <1>1, <1>2, <1>4
  <2> HIDE DEF r
  <2>2. v % WireRange = r
    BY <1>1, <1>2, <2>1, ModUnique
  <2>3. r - WireRange = v /\ r \in Int
    BY <1>1, <1>2 DEF r
  <2> QED
    BY <1>1, <1>2, <2>1, <2>2, <2>3 DEF s24le_to_f32
<1> QED
  BY <1>2, <1>3, <1>4

(* A sample arrives as it was played, half a unit off at most or clipped.  *)
LEMMA RoundTrip ==
  ASSUME NEW x \in Int
  PROVE  LET y == s24le_to_f32(f32_to_s24le(x))
         IN  /\ f32_to_s24le(x) \in Int
             /\ IF x > 2 * SMax THEN y = 2 * SMax
                ELSE IF x < -2 * (SMax + 1) THEN y = -2 * (SMax + 1)
                ELSE x - 1 <= y /\ y <= x + 1
<1> DEFINE z == IF x > 2 * SMax THEN 2 * SMax
                ELSE IF x < -2 * (SMax + 1) THEN -2 * (SMax + 1) ELSE x
           y == s24le_to_f32(f32_to_s24le(x))
<1>1. SMax \in Nat
  BY Sizes
<1>2. z \in Int /\ -(2 * SMax + 2) <= z /\ z <= 2 * SMax
  BY <1>1
<1>3. f32_to_s24le(x) = lrintf(z) % WireRange
  BY DEF f32_to_s24le
<1> HIDE DEF z
<1>4. /\ lrintf(z) \in -(SMax + 1) .. SMax
      /\ z - 1 <= 2 * lrintf(z) /\ 2 * lrintf(z) <= z + 1
      /\ z % 2 = 0 => 2 * lrintf(z) = z
  BY <1>2, Rounding
<1>5. f32_to_s24le(x) \in Int /\ y = 2 * lrintf(z)
  BY <1>3, <1>4, TwosComplement
<1> HIDE DEF y
<1>6. CASE x > 2 * SMax
  <2>1. z = 2 * SMax /\ z % 2 = 0
    <3>1. z = 2 * SMax
      BY <1>6 DEF z
    <3>2. z = 2 * SMax + 0 /\ 0 \in 0 .. 1 /\ SMax \in Int /\ 2 \in Nat \ {0}
      BY <1>1, <3>1
    <3> QED
      BY <1>2, <3>1, <3>2, ModUnique
  <2> QED
    BY <1>4, <1>5, <1>6, <2>1 DEF y
<1>7. CASE ~(x > 2 * SMax) /\ x < -2 * (SMax + 1)
  <2>1. z = -2 * (SMax + 1)
    BY <1>7 DEF z
  <2>2. z % 2 = 0
    <3>1. z = 2 * (-(SMax + 1)) + 0 /\ 0 \in 0 .. 1 /\ -(SMax + 1) \in Int /\ 2 \in Nat \ {0}
      BY <1>1, <2>1
    <3> QED
      BY <1>2, <3>1, ModUnique
  <2> QED
    BY <1>4, <1>5, <1>7, <2>1, <2>2 DEF y
<1>8. CASE ~(x > 2 * SMax) /\ ~(x < -2 * (SMax + 1))
  <2>1. z = x
    BY <1>8 DEF z
  <2> QED
    BY <1>4, <1>5, <1>8, <2>1 DEF y
<1> QED
  BY <1>6, <1>7, <1>8

(* Where a frame keeps sample s of channel ch, and what it puts there.     *)
LEMMA BuiltPlace ==
  ASSUME NEW planar, NEW ch \in Chans, NEW s \in Slots
  PROVE  /\ s * NChannels + ch \in 0 .. SamplesPerPkt * NChannels - 1
         /\ reac_tx_build(planar, counter).audio[s * NChannels + ch] =
              f32_to_s24le(IF ch < SinkChannels THEN planar[ch][s] ELSE 0)
<1> DEFINE N == NChannels
           S == SamplesPerPkt
           p == s * N + ch
<1>1. N \in Nat \ {0} /\ S \in Nat \ {0} /\ s \in Nat /\ s + 1 <= S /\ ch \in 0 .. N - 1
  BY Sizes DEF Slots, Chans
<1>2. p \div N = s /\ p % N = ch
  BY <1>1, RowColumn
<1>3. p \in 0 .. S * N - 1
  <2>1. (s + 1) * N <= S * N
    BY <1>1, ProductOrder
  <2>2. (s + 1) * N = s * N + N /\ s * N \in Nat /\ S * N \in Int
    BY <1>1, SMTT(30)
  <2> QED
    BY <1>1, <2>1, <2>2
<1> HIDE DEF p
<1>4. reac_tx_build(planar, counter).audio[p] =
        f32_to_s24le(IF p % N < SinkChannels THEN planar[p % N][p \div N] ELSE 0)
  BY <1>3 DEF reac_tx_build
<1> QED
  BY <1>2, <1>3, <1>4 DEF p

(* Where the feeder finds it again.                                        *)
LEMMA DecodedPlace ==
  ASSUME NEW frame, NEW ch \in Chans, NEW s \in Slots
  PROVE  /\ ch * SamplesPerPkt + s \in DOMAIN reac_decode(frame)
         /\ reac_decode(frame)[ch * SamplesPerPkt + s] = frame.audio[s * NChannels + ch]
<1> DEFINE N == NChannels
           S == SamplesPerPkt
           p == ch * S + s
<1>1. N \in Nat \ {0} /\ S \in Nat \ {0} /\ ch \in Nat /\ ch + 1 <= N /\ s \in 0 .. S - 1
  BY Sizes DEF Slots, Chans
<1>2. p \div S = ch /\ p % S = s
  BY <1>1, RowColumn
<1>3. p \in 0 .. N * S - 1
  <2>1. (ch + 1) * S <= N * S
    BY <1>1, ProductOrder
  <2>2. (ch + 1) * S = ch * S + S /\ ch * S \in Nat /\ N * S \in Int
    BY <1>1, SMTT(30)
  <2> QED
    BY <1>1, <2>1, <2>2
<1> HIDE DEF p
<1>4. p \in DOMAIN reac_decode(frame)
      /\ reac_decode(frame)[p] = frame.audio[(p % S) * N + p \div S]
  BY <1>3 DEF reac_decode
<1> QED
  BY <1>2, <1>4 DEF p

(* A frame is a frame.                                                     *)
LEMMA BuiltType ==
  ASSUME NEW planar \in [Ports -> [Slots -> Int]], counter \in 0 .. TxCounterMod - 1
  PROVE  reac_tx_build(planar, counter) \in Frames
<1> DEFINE N == NChannels
           S == SamplesPerPkt
           val(p) == f32_to_s24le(IF p % N < SinkChannels THEN planar[p % N][p \div N] ELSE 0)
<1>1. N \in Nat \ {0} /\ S \in Nat \ {0} /\ SinkChannels \in Nat /\ S * N \in Nat
  BY Sizes
<1>2. ASSUME NEW p \in 0 .. S * N - 1 PROVE val(p) \in Int
  <2> DEFINE q == p \div N
             r == p % N
  <2>1. p \in Nat
    BY <1>1
  <2>2. q \in Nat /\ r \in 0 .. N - 1 /\ p = N * q + r
    BY <1>1, <2>1, NextDivMod
  <2> HIDE DEF q, r
  <2>3. q < S
    <3> SUFFICES ASSUME S <= q PROVE FALSE
      BY <1>1, <2>2
    <3>1. S * N <= q * N
      BY <1>1, <2>2, ProductOrder
    <3>2. q * N = N * q /\ q * N \in Int
      BY <1>1, <2>2
    <3> QED
      BY <1>1, <2>2, <3>1, <3>2
  <2>4. (IF r < SinkChannels THEN planar[r][q] ELSE 0) \in Int
    <3>1. CASE r < SinkChannels
      <4>1. r \in Ports /\ q \in Slots
        BY <1>1, <2>2, <2>3, <3>1 DEF Ports, Slots
      <4> QED
        BY <3>1, <4>1
    <3> QED
      BY <3>1
  <2> QED
    BY <2>4, RoundTrip DEF q, r
<1>3. [p \in 0 .. S * N - 1 |-> val(p)] \in [0 .. S * N - 1 -> Int]
  <2> HIDE DEF val
  <2> QED
    BY <1>2
<1>4. reac_tx_build(planar, counter) =
        [counter |-> counter, audio |-> [p \in 0 .. S * N - 1 |-> val(p)]]
  BY DEF reac_tx_build
<1> HIDE DEF val
<1> QED
  BY <1>3, <1>4 DEF Frames

-----------------------------------------------------------------------------
(* What the invariant says of numbers and places.                          *)

(* How many samples and frames were played.                                *)
LEMMA Places ==
  ASSUME LInv
  PROVE  /\ pos \in Nat /\ FramesPlayed \in Nat /\ staged \in 0 .. SamplesPerPkt - 1
         /\ FramesPlayed * SamplesPerPkt \in Nat
         /\ pos = FramesPlayed * SamplesPerPkt + staged
<1> DEFINE S == SamplesPerPkt
           q == pos \div S
           r == pos % S
<1>1. pos \in Nat /\ S \in Nat \ {0}
  BY Sizes DEF LInv, LoopType
<1>2. staged = r /\ FramesPlayed = q
  BY DEF LInv, CadenceFollowsGraph, FramesPlayed
<1>3. q \in Nat /\ r \in 0 .. S - 1 /\ pos = S * q + r
  BY ONLY <1>1, NextDivMod
<1> HIDE DEF q, r
<1>4. S * q = q * S /\ q * S \in Nat
  BY <1>1, <1>3
<1> QED
  BY <1>1, <1>2, <1>3, <1>4

(* The samples of whole frames were played.                                *)
LEMMA PastPlace ==
  ASSUME LInv, NEW n \in Nat, n < FramesPlayed, NEW s \in Slots
  PROVE  n * SamplesPerPkt + s \in 0 .. pos - 1
<1> DEFINE S == SamplesPerPkt
           F == FramesPlayed
<1>1. /\ pos \in Nat /\ F \in Nat /\ staged \in 0 .. S - 1 /\ F * S \in Nat
      /\ pos = F * S + staged /\ S \in Nat \ {0} /\ s \in 0 .. S - 1
  BY Places, Sizes DEF Slots
<1> HIDE DEF F
<1>2. (n + 1) * S <= F * S
  BY <1>1, ProductOrder DEF F
<1>3. (n + 1) * S = n * S + S /\ n * S \in Nat
  BY <1>1, SMTT(30)
<1> QED
  BY <1>1, <1>2, <1>3

(* Muting samples that are still to come does not change a frame.          *)
LEMMA CarriesKept ==
  ASSUME NEW f, NEW m, NEW mm, Carries(f, m),
         \A c \in Ports, s \in Slots :
           <<c, f.n * SamplesPerPkt + s>> \in m <=> <<c, f.n * SamplesPerPkt + s>> \in mm
  PROVE  Carries(f, mm)
<1>1. \A ch \in Chans, s \in Slots :
        SampleOn(mm, ch, f.n * SamplesPerPkt + s) = SampleOn(m, ch, f.n * SamplesPerPkt + s)
  BY DEF SampleOn
<1> QED
  BY <1>1 DEF Carries

(* What was played is a number of half units.                              *)
LEMMA SampleType ==
  ASSUME NEW m, NEW ch, NEW i \in 0 .. MaxSamples
  PROVE  SampleOn(m, ch, i) \in Int
  BY InputAssumption DEF SampleOn

-----------------------------------------------------------------------------
(* The steps.                                                              *)

(* Nothing was played, sent or received.                                   *)
LEMMA InitLInv == LoopInit => LInv
<1> SUFFICES ASSUME LoopInit PROVE LInv
  OBVIOUS
<1>1. /\ stage = [c \in Ports |-> [s \in Slots |-> 0]]
      /\ staged = 0 /\ counter = 0 /\ linked = {} /\ left = 0
      /\ air = << >> /\ fails = 0 /\ pos = 0 /\ muted = {}
      /\ have_counter = FALSE /\ last_counter = 0 /\ counter_gaps = 0
      /\ newest = -1 /\ first = -1 /\ received = 0
  BY DEF LoopInit, SinkInit
<1>2. /\ SamplesPerPkt \in Nat \ {0} /\ TxCounterMod \in Nat \ {0} /\ MaxFails \in Nat
      /\ MaxSamples \in Nat
  BY Sizes, SinkAssumption
<1>3. 0 % SamplesPerPkt = 0 /\ 0 \div SamplesPerPkt = 0 /\ 0 % TxCounterMod = 0
  <2>1. \A m \in Nat \ {0} : 0 % m = 0 /\ 0 \div m = 0
    <3> SUFFICES ASSUME NEW m \in Nat \ {0} PROVE 0 % m = 0 /\ 0 \div m = 0
      OBVIOUS
    <3>1. 0 \in 0 .. m - 1 /\ 0 = m * 0 + 0 /\ 0 \in Int
      OBVIOUS
    <3> QED
      BY <3>1, ModUnique, DivUnique
  <2> QED
    BY <1>2, <2>1
<1>4. FramesPlayed = 0 /\ Len(air) = 0 /\ SentAt(0) = -1
  BY <1>1, <1>3 DEF FramesPlayed, SentAt
<1>5. LoopType
  <2>1. stage \in [Ports -> [Slots -> Int]]
    BY <1>1
  <2>2. staged \in Slots /\ counter \in 0 .. TxCounterMod - 1 /\ fails \in 0 .. MaxFails
    BY <1>1, <1>2 DEF Slots
  <2>3. pos \in Nat /\ left \in Nat /\ pos + left <= MaxSamples /\ received \in Nat
    BY <1>1, <1>2
  <2>4. muted \subseteq Ports \X (0 .. pos - 1) /\ linked \subseteq Ports
    BY <1>1
  <2>5. air \in Seq(Sendings)
    BY <1>1
  <2>6. /\ last_counter \in Int /\ counter_gaps \in Int
        /\ newest \in Int /\ first \in Int
    BY <1>1
  <2>7. have_counter \in BOOLEAN
    BY <1>1
  <2> QED
    BY <2>1, <2>2, <2>3, <2>4, <2>5, <2>6, <2>7 DEF LoopType
<1>6. CadenceFollowsGraph
  BY <1>1, <1>3 DEF CadenceFollowsGraph
<1>7. StagePlayed
  BY <1>1 DEF StagePlayed, Slots
<1>8. InFlight /\ SendsInOrder
  <2>1. \A k \in 0 .. 0 : k = 0
    OBVIOUS
  <2> QED
    BY <1>1, <1>2, <1>4, <2>1 DEF InFlight, SendsInOrder
<1>9. Receiver /\ HeardIsPlayed /\ FailedSendsAreGaps
  BY <1>1 DEF Receiver, HeardIsPlayed, FailedSendsAreGaps
<1> QED
  BY <1>5, <1>6, <1>7, <1>8, <1>9 DEF LInv

(* The start of a cycle touches no audio.                                  *)
LEMMA BeginKeepsLInv ==
  ASSUME LInv, UNCHANGED <<stage, staged, counter, air, fails, pos, muted>>,
         UNCHANGED feederVars, linked' \subseteq Ports, left' \in Nat, pos + left' <= MaxSamples
  PROVE  LInv'
<1>1. FramesPlayed' = FramesPlayed /\ \A k : SentAt(k)' = SentAt(k)
  BY DEF FramesPlayed, SentAt, feederVars
<1>2. LoopType'
  BY DEF LInv, LoopType, feederVars
<1>3. CadenceFollowsGraph' /\ StagePlayed' /\ InFlight'
  BY <1>1 DEF LInv, CadenceFollowsGraph, StagePlayed, InFlight
<1>4. SendsInOrder'
  BY <1>1 DEF LInv, SendsInOrder
<1>5. Receiver' /\ HeardIsPlayed' /\ FailedSendsAreGaps'
  BY DEF LInv, Receiver, HeardIsPlayed, FailedSendsAreGaps, PlayedOn, feederVars
<1> QED
  BY <1>2, <1>3, <1>4, <1>5 DEF LInv

(* One more sample is played: it joins the stage, and what was muted       *)
(* before stays so.                                                        *)
LEMMA PlayedSample ==
  ASSUME LInv, left > 0, Played
  PROVE  /\ pos' = pos + 1 /\ pos' \in Nat /\ left' \in Nat /\ pos' + left' <= MaxSamples
         /\ linked' = linked /\ linked \subseteq Ports
         /\ muted' \subseteq Ports \X (0 .. pos' - 1)
         /\ \A c \in Ports, i \in 0 .. pos - 1 : <<c, i>> \in muted' <=> <<c, i>> \in muted
         /\ stage' = NextStage /\ NextStage \in [Ports -> [Slots -> Int]]
         /\ \A c \in Ports, s \in Slots :
              s <= staged => NextStage[c][s] =
                               SampleOn(muted', c, FramesPlayed * SamplesPerPkt + s)
<1> DEFINE new == {<<c, pos>> : c \in Ports \ linked}
           x(c) == IF c \in linked THEN Input(c, pos) ELSE 0
<1>1. /\ pos \in Nat /\ left \in Nat /\ pos + left <= MaxSamples /\ linked \subseteq Ports
      /\ muted \subseteq Ports \X (0 .. pos - 1) /\ staged \in Slots
      /\ stage \in [Ports -> [Slots -> Int]]
  BY DEF LInv, LoopType
<1>2. /\ stage' = NextStage /\ left' = left - 1 /\ pos' = pos + 1 /\ linked' = linked
      /\ muted' = muted \cup new
  BY DEF Played
<1>3. pos' \in Nat /\ left' \in Nat /\ pos' + left' <= MaxSamples /\ pos \in 0 .. MaxSamples
  BY <1>1, <1>2, SinkAssumption
<1>4. muted' \subseteq Ports \X (0 .. pos' - 1)
  <2>1. \A i \in 0 .. pos - 1 : i \in 0 .. pos' - 1
    BY <1>1, <1>2
  <2>2. pos \in 0 .. pos' - 1
    BY <1>1, <1>2
  <2> QED
    BY <1>1, <1>2, <2>1, <2>2
<1>5. \A c \in Ports, i \in 0 .. pos - 1 : <<c, i>> \in muted' <=> <<c, i>> \in muted
  <2>1. \A i \in 0 .. pos - 1 : i # pos
    BY <1>1
  <2> QED
    BY <1>2, <2>1
<1>6. \A c \in Ports : <<c, pos>> \in muted' <=> c \notin linked
  <2>1. pos \notin 0 .. pos - 1
    BY <1>1
  <2>2. \A c \in Ports : <<c, pos>> \notin muted
    BY <1>1, <2>1
  <2> QED
    BY <1>2, <2>2
<1>7. \A c \in Ports : x(c) \in Int /\ x(c) = SampleOn(muted', c, pos)
  BY <1>3, <1>6, InputAssumption DEF SampleOn
<1> HIDE DEF x
<1>8. NextStage = [c \in Ports |-> [stage[c] EXCEPT ![staged] = x(c)]]
  BY DEF NextStage, x
<1>9. NextStage \in [Ports -> [Slots -> Int]]
  BY <1>1, <1>7, <1>8
<1>10. ASSUME NEW c \in Ports, NEW s \in Slots, s <= staged
       PROVE  NextStage[c][s] = SampleOn(muted', c, FramesPlayed * SamplesPerPkt + s)
  <2>1. /\ staged \in 0 .. SamplesPerPkt - 1 /\ FramesPlayed * SamplesPerPkt \in Nat
        /\ pos = FramesPlayed * SamplesPerPkt + staged /\ SamplesPerPkt \in Nat
    BY Places, Sizes
  <2>2. CASE s = staged
    <3>1. NextStage[c][s] = x(c)
      BY <1>1, <1>8, <2>2
    <3> QED
      BY <1>7, <2>1, <2>2, <3>1
  <2>3. CASE s # staged
    <3>1. NextStage[c][s] = stage[c][s]
      BY <1>1, <1>8, <2>3
    <3>2. s < staged
      BY <1>10, <2>1, <2>3 DEF Slots
    <3>3. stage[c][s] = SampleOn(muted, c, FramesPlayed * SamplesPerPkt + s)
      BY <3>2 DEF LInv, StagePlayed
    <3> DEFINE i == FramesPlayed * SamplesPerPkt + s
    <3>4. i \in 0 .. pos - 1
      BY <2>1, <3>2 DEF Slots
    <3> HIDE DEF i
    <3>5. SampleOn(muted', c, i) = SampleOn(muted, c, i)
      BY <1>5, <3>4 DEF SampleOn
    <3> QED
      BY <3>1, <3>3, <3>5 DEF i
  <2> QED
    BY <2>2, <2>3
<1> QED
  BY <1>1, <1>2, <1>3, <1>4, <1>5, <1>9, <1>10

(* What is in flight or was heard is not changed by playing on.            *)
LEMMA PlayingKeepsSent ==
  ASSUME LInv, left > 0, Played, UNCHANGED feederVars
  PROVE  /\ \A k \in 1 .. Len(air) : Carries(air[k], muted')
         /\ Receiver' /\ HeardIsPlayed' /\ FailedSendsAreGaps'
<1>1. \A c \in Ports, i \in 0 .. pos - 1 : <<c, i>> \in muted' <=> <<c, i>> \in muted
  BY PlayedSample
<1>2. \A k \in 0 .. Len(air) : SentAt(k) < FramesPlayed
  BY DEF LInv, SendsInOrder
<1>3. air \in Seq(Sendings) /\ received \in Nat /\ newest \in Int
  BY DEF LInv, LoopType
<1>4. ASSUME NEW k \in 1 .. Len(air) PROVE Carries(air[k], muted')
  <2>1. air[k].n \in Nat
    <3>1. air[k] \in Sendings
      BY <1>3
    <3> QED
      BY <3>1 DEF Sendings
  <2>2. air[k].n < FramesPlayed
    <3>1. k \in 0 .. Len(air) /\ k # 0
      BY <1>3
    <3> QED
      BY <1>2, <3>1 DEF SentAt
  <2>3. \A s \in Slots : air[k].n * SamplesPerPkt + s \in 0 .. pos - 1
    BY <2>1, <2>2, PastPlace
  <2>4. Carries(air[k], muted)
    BY DEF LInv, InFlight
  <2> QED
    BY <1>1, <2>3, <2>4, CarriesKept
<1>5. Receiver' /\ FailedSendsAreGaps'
  BY DEF LInv, Receiver, FailedSendsAreGaps, feederVars
<1>6. HeardIsPlayed'
  <2>1. newest' = newest /\ heard' = heard /\ received' = received
    BY DEF feederVars
  <2>2. CASE received = 0
    BY <2>1, <2>2 DEF HeardIsPlayed
  <2>3. CASE received # 0
    <3>1. newest \in Nat /\ newest < FramesPlayed
      <4>1. 0 \in 0 .. Len(air) /\ SentAt(0) = newest
        BY <1>3 DEF SentAt
      <4> QED
        BY <1>2, <1>3, <2>3, <4>1 DEF LInv, Receiver
    <3>2. ASSUME NEW ch \in Chans, NEW s \in Slots
          PROVE  PlayedOn(ch, newest * SamplesPerPkt + s)' = PlayedOn(ch, newest * SamplesPerPkt + s)
      <4>1. newest * SamplesPerPkt + s \in 0 .. pos - 1
        BY <3>1, PastPlace
      <4> QED
        BY <1>1, <2>1, <4>1 DEF PlayedOn
    <3>3. HeardIsPlayed
      BY DEF LInv
    <3> QED
      BY <2>1, <3>2, <3>3 DEF HeardIsPlayed
  <2> QED
    BY <2>2, <2>3
<1> QED
  BY <1>4, <1>5, <1>6

(* A sample that leaves the stage unfilled.                                *)
LEMMA StageKeepsLInv ==
  ASSUME LInv, StageSample, UNCHANGED feederVars
  PROVE  LInv'
<1> DEFINE S == SamplesPerPkt
<1>1. /\ left > 0 /\ staged + 1 < S /\ Played /\ staged' = staged + 1
      /\ counter' = counter /\ air' = air /\ fails' = fails
  BY DEF StageSample
<1>2. /\ pos' = pos + 1 /\ pos' \in Nat /\ left' \in Nat /\ pos' + left' <= MaxSamples
      /\ linked' = linked /\ linked \subseteq Ports
      /\ muted' \subseteq Ports \X (0 .. pos' - 1)
      /\ stage' = NextStage /\ NextStage \in [Ports -> [Slots -> Int]]
      /\ \A c \in Ports, s \in Slots :
           s <= staged => NextStage[c][s] = SampleOn(muted', c, FramesPlayed * S + s)
  BY <1>1, PlayedSample
<1>3. /\ pos \in Nat /\ S \in Nat \ {0} /\ staged = pos % S /\ staged \in 0 .. S - 1
      /\ counter = FramesPlayed % TxCounterMod
  BY Places, Sizes DEF LInv, CadenceFollowsGraph, FramesPlayed
<1>4. pos' % S = staged + 1 /\ FramesPlayed' = FramesPlayed
  <2>1. (pos + 1) % S = (pos % S) + 1 /\ (pos + 1) \div S = pos \div S
    <3>1. (pos % S) + 1 < S
      BY <1>1, <1>3
    <3> QED
      BY ONLY <1>3, <3>1, NextDivMod
  <2> QED
    BY <1>2, <1>3, <2>1 DEF FramesPlayed
<1>5. /\ \A k \in 1 .. Len(air) : Carries(air[k], muted')
      /\ Receiver' /\ HeardIsPlayed' /\ FailedSendsAreGaps'
  BY <1>1, PlayingKeepsSent
<1>6. LoopType'
  <2>1. staged' \in Slots
    BY <1>1, <1>3 DEF Slots
  <2> QED
    BY <1>1, <1>2, <2>1 DEF LInv, LoopType, feederVars
<1>7. CadenceFollowsGraph'
  BY <1>1, <1>3, <1>4 DEF CadenceFollowsGraph, FramesPlayed
<1>8. StagePlayed'
  <2>1. \A c \in Ports, s \in Slots :
          s < staged' => stage'[c][s] = SampleOn(muted', c, FramesPlayed' * SamplesPerPkt + s)
    <3>1. \A s \in Slots : s < staged' => s <= staged
      BY <1>1, <1>3 DEF Slots
    <3> QED
      BY <1>2, <1>4, <3>1
  <2> QED
    BY <2>1 DEF StagePlayed
<1>9. InFlight'
  BY <1>1, <1>5 DEF InFlight
<1>10. SendsInOrder'
  <2>1. \A k : SentAt(k)' = SentAt(k)
    BY <1>1 DEF SentAt, feederVars
  <2> QED
    BY <1>1, <1>4, <2>1 DEF LInv, SendsInOrder
<1> QED
  BY <1>5, <1>6, <1>7, <1>8, <1>9, <1>10 DEF LInv

(* A sample that fills the stage: the frame is built and perhaps sent.     *)
LEMMA EmitKeepsLInv ==
  ASSUME LInv, NEW sent \in BOOLEAN, StageAndEmit(sent), UNCHANGED feederVars
  PROVE  LInv'
<1> DEFINE S == SamplesPerPkt
           M == TxCounterMod
           F == FramesPlayed
           g == [frame |-> reac_tx_build(NextStage, counter), n |-> pos \div SamplesPerPkt]
           L == Len(air)
<1>1. /\ left > 0 /\ staged + 1 = S /\ Played /\ staged' = 0
      /\ sent \/ fails < MaxFails
      /\ counter' = (counter + 1) % M
      /\ air' = IF sent THEN Append(air, g) ELSE air
      /\ fails' = IF sent THEN 0 ELSE fails + 1
  BY DEF StageAndEmit, NextCounter
<1>2. /\ pos' = pos + 1 /\ pos' \in Nat /\ left' \in Nat /\ pos' + left' <= MaxSamples
      /\ linked' = linked /\ linked \subseteq Ports
      /\ muted' \subseteq Ports \X (0 .. pos' - 1)
      /\ stage' = NextStage /\ NextStage \in [Ports -> [Slots -> Int]]
      /\ \A c \in Ports, s \in Slots :
           s <= staged => NextStage[c][s] = SampleOn(muted', c, F * S + s)
  BY <1>1, PlayedSample
<1>3. /\ pos \in Nat /\ S \in Nat \ {0} /\ staged = pos % S /\ staged \in 0 .. S - 1
      /\ counter = F % M /\ F \in Nat /\ M \in Nat \ {0} /\ F = pos \div S
      /\ counter \in 0 .. M - 1 /\ MaxFails \in Nat
  BY Places, Sizes DEF LInv, LoopType, CadenceFollowsGraph, FramesPlayed
<1>4. pos' % S = 0 /\ F' = F + 1
  <2>1. ~((pos % S) + 1 < S)
    BY <1>1, <1>3
  <2>2. (pos + 1) % S = 0 /\ (pos + 1) \div S = (pos \div S) + 1
    BY ONLY <1>3, <2>1, NextDivMod
  <2> QED
    BY <1>2, <1>3, <2>2 DEF FramesPlayed
<1>5. counter' = (F + 1) % M /\ counter' \in 0 .. M - 1
  <2>1. F \in Int /\ 1 \in Int /\ F + 1 \in Int
    BY <1>3
  <2>2. ((F % M) + 1) % M = (F + 1) % M /\ (F + 1) % M \in 0 .. M - 1
    BY <1>3, <2>1, ModAdd, DivMod
  <2> QED
    BY <1>1, <1>3, <2>2
<1>6. /\ \A k \in 1 .. L : Carries(air[k], muted')
      /\ Receiver' /\ HeardIsPlayed' /\ FailedSendsAreGaps'
  BY <1>1, PlayingKeepsSent
<1>7. air \in Seq(Sendings) /\ L \in Nat /\ fails \in 0 .. MaxFails
      /\ newest \in Int
  BY DEF LInv, LoopType
<1>8. g \in Sendings /\ g.n = F
  BY <1>2, <1>3, BuiltType DEF Sendings
<1>9. Carries(g, muted')
  <2>1. g.frame = reac_tx_build(NextStage, counter)
    OBVIOUS
  <2>2. g.frame.counter = g.n % M
    BY <1>3, <1>8, <2>1 DEF reac_tx_build
  <2>3. ASSUME NEW ch \in Chans, NEW s \in Slots
        PROVE  g.frame.audio[s * NChannels + ch] =
                 f32_to_s24le(SampleOn(muted', ch, g.n * SamplesPerPkt + s))
    <3> HIDE DEF g, F
    <3>1. g.frame.audio[s * NChannels + ch] =
            f32_to_s24le(IF ch < SinkChannels THEN NextStage[ch][s] ELSE 0)
      BY <2>1, BuiltPlace
    <3>2. (IF ch < SinkChannels THEN NextStage[ch][s] ELSE 0) = SampleOn(muted', ch, F * S + s)
      <4>1. s <= staged
        BY <1>1, <1>3 DEF Slots
      <4>2. ch \in Ports <=> ch < SinkChannels
        BY Sizes DEF Ports, Chans
      <4>3. CASE ch \in Ports
        BY <1>2, <4>1, <4>2, <4>3
      <4>4. CASE ch \notin Ports
        BY <4>2, <4>4 DEF SampleOn
      <4> QED
        BY <4>3, <4>4
    <3> QED
      BY <1>8, <3>1, <3>2
  <2> QED
    BY <2>2, <2>3 DEF Carries
<1> HIDE DEF g, F, L
<1>10. /\ \A k \in 1 .. L : SentAt(k) - SentAt(k - 1) \in 1 .. MaxFails + 1
       /\ \A k \in 0 .. L : SentAt(k) < F
       /\ SentAt(L) + 1 + fails = F
  BY DEF LInv, SendsInOrder, L, F
<1>11. \A k \in 0 .. L : SentAt(k) \in Int
  <2>1. \A k \in 1 .. L : air[k] \in Sendings
    BY <1>7 DEF L
  <2>2. \A k \in 1 .. L : air[k].n \in Nat
    BY <2>1 DEF Sendings
  <2>3. \A k \in 0 .. L : k = 0 \/ k \in 1 .. L
    BY <1>7
  <2> QED
    BY <1>7, <2>2, <2>3 DEF SentAt
<1>12. CadenceFollowsGraph'
  BY <1>1, <1>4, <1>5 DEF CadenceFollowsGraph, FramesPlayed, F
<1>13. StagePlayed'
  <2>1. \A s \in Slots : ~(s < staged')
    BY <1>1 DEF Slots
  <2> QED
    BY <2>1 DEF StagePlayed
<1>14. /\ staged' \in Slots /\ counter' \in 0 .. TxCounterMod - 1
  BY <1>1, <1>3, <1>5 DEF Slots
<1>15. newest' = newest
  BY DEF feederVars
<1>16. F' = FramesPlayed'
  BY DEF F
<1>17. CASE sent
  <2>1. air' = Append(air, g) /\ fails' = 0
    BY <1>1, <1>17
  <2>2. /\ Len(air') = L + 1 /\ air'[L + 1] = g /\ \A k \in 1 .. L : air'[k] = air[k]
        /\ air' \in Seq(Sendings)
    BY <1>7, <1>8, <2>1 DEF L
  <2>3. LoopType'
    <3>1. fails' \in 0 .. MaxFails
      BY <1>3, <2>1
    <3> QED
      BY <1>2, <1>14, <2>2, <3>1 DEF LInv, LoopType, feederVars
  <2>4. InFlight'
    <3>1. \A k \in 1 .. L + 1 : k \in 1 .. L \/ k = L + 1
      BY <1>7
    <3>2. \A k \in 1 .. L + 1 : Carries(air'[k], muted')
      BY <1>6, <1>9, <2>2, <3>1
    <3> QED
      BY <2>2, <3>2 DEF InFlight
  <2>5. \A k \in 0 .. L : SentAt(k)' = SentAt(k)
    <3>1. \A k \in 0 .. L : k = 0 \/ k \in 1 .. L
      BY <1>7
    <3> QED
      BY <1>15, <2>2, <3>1 DEF SentAt
  <2>6. \A k : SentAt(k)' = IF k = 0 THEN newest' ELSE air'[k].n
    BY DEF SentAt
  <2>7. SentAt(Len(air))' = F
    <3>1. SentAt(Len(air))' = IF Len(air') = 0 THEN newest' ELSE air'[Len(air')].n
      BY DEF SentAt
    <3> QED
      BY <1>7, <1>8, <2>2, <3>1
  <2>8. ASSUME NEW k \in 1 .. L + 1
        PROVE  SentAt(k)' - SentAt(k - 1)' \in 1 .. MaxFails + 1
    <3>1. k - 1 \in 0 .. L
      BY <1>7
    <3>2. SentAt(k - 1)' = SentAt(k - 1)
      BY <2>5, <3>1
    <3>3. CASE k \in 1 .. L
      <4>1. SentAt(k)' = SentAt(k)
        BY <1>7, <2>5, <3>3
      <4> QED
        BY <1>10, <3>2, <3>3, <4>1
    <3>4. CASE k = L + 1
      <4>1. SentAt(k)' = F /\ k - 1 = L
        BY <1>7, <1>8, <2>2, <2>6, <3>4
      <4>2. SentAt(L) \in Int /\ SentAt(L) + 1 + fails = F
        BY <1>7, <1>10, <1>11
      <4>3. F - SentAt(L) \in 1 .. MaxFails + 1
        <5>1. F \in Int /\ MaxFails \in Nat /\ fails \in 0 .. MaxFails
          BY <1>3, <1>7
        <5> QED
          BY ONLY <4>2, <5>1
      <4> QED
        BY <3>2, <4>1, <4>3
    <3> QED
      BY <1>7, <3>3, <3>4
  <2>9. ASSUME NEW k \in 0 .. L + 1 PROVE SentAt(k)' < F + 1
    <3>1. CASE k \in 0 .. L
      BY <1>3, <1>10, <1>11, <2>5, <3>1
    <3>2. CASE k = L + 1
      <4>1. SentAt(k)' = F
        BY <1>7, <1>8, <2>2, <2>6, <3>2
      <4> QED
        BY <1>3, <4>1
    <3> QED
      BY <1>7, <3>1, <3>2
  <2>10. SentAt(Len(air))' + 1 + fails' = F + 1
    BY <1>3, <2>1, <2>7
  <2>11. SendsInOrder'
    BY <1>4, <1>16, <2>2, <2>8, <2>9, <2>10 DEF SendsInOrder
  <2> QED
    BY <1>6, <1>12, <1>13, <2>3, <2>4, <2>11 DEF LInv
<1>18. CASE ~sent
  <2>1. air' = air /\ fails' = fails + 1 /\ fails < MaxFails
    BY <1>1, <1>18
  <2>2. LoopType'
    <3>1. fails' \in 0 .. MaxFails
      BY <1>3, <1>7, <2>1
    <3> QED
      BY <1>2, <1>14, <2>1, <3>1 DEF LInv, LoopType, feederVars
  <2>3. InFlight'
    BY <1>6, <2>1 DEF InFlight, L
  <2>4. SendsInOrder'
    <3>1. \A k : SentAt(k)' = SentAt(k)
      BY <1>15, <2>1 DEF SentAt
    <3>2. \A k \in 0 .. L : SentAt(k) < F + 1
      BY <1>3, <1>10, <1>11
    <3>3. SentAt(L) + 1 + (fails + 1) = F + 1
      <4>1. L \in 0 .. L
        BY <1>7
      <4>2. SentAt(L) \in Int
        BY <1>11, <4>1
      <4>3. F \in Int /\ fails \in Int /\ SentAt(L) + 1 + fails = F
        BY <1>3, <1>7, <1>10
      <4> QED
        BY ONLY <4>2, <4>3
    <3> QED
      BY <1>4, <1>10, <1>16, <2>1, <3>1, <3>2, <3>3 DEF SendsInOrder, L
  <2> QED
    BY <1>6, <1>12, <1>13, <2>2, <2>3, <2>4 DEF LInv
<1> QED
  BY <1>17, <1>18

(* Between frames whose numbers are less than a period apart the counters  *)
(* tell how many are missing.                                              *)
LEMMA GapExact ==
  ASSUME NEW x \in Int, NEW y \in Int, x - y \in 1 .. TxCounterMod
  PROVE  reac_counter_gap(y % TxCounterMod, x % TxCounterMod) = x - y - 1
<1>1. TxCounterMod \in Nat \ {0}
  BY Sizes
<1>2. ((x % TxCounterMod) - (y % TxCounterMod) - 1) % TxCounterMod = x - y - 1
  BY <1>1, CounterDistance
<1> QED
  BY <1>2 DEF reac_counter_gap

(* The feeder takes the oldest frame in flight.                            *)
LEMMA ReceiveKeepsLInv ==
  ASSUME LInv, Receive
  PROVE  LInv'
<1> DEFINE f == Head(air)
           L == Len(air)
           s24 == reac_decode(f.frame)
<1>1. /\ air # << >> /\ air' = Tail(air)
      /\ counter_gaps' = Gaps(f.frame.counter)
      /\ last_counter' = f.frame.counter /\ have_counter' = TRUE
      /\ heard' = [p \in DOMAIN s24 |-> s24le_to_f32(s24[p])]
      /\ newest' = f.n
      /\ first' = (IF received = 0 THEN f.n ELSE first)
      /\ received' = received + 1
      /\ UNCHANGED <<stage, staged, counter, linked, left, fails, pos, muted>>
  BY DEF Receive
<1>2. /\ air \in Seq(Sendings) /\ newest \in Int /\ first \in Int /\ received \in Nat
      /\ counter_gaps \in Int /\ pos \in Nat /\ left \in Nat /\ pos + left <= MaxSamples
  BY DEF LInv, LoopType
<1>3. /\ L \in Nat \ {0} /\ f = air[1] /\ f \in Sendings
      /\ air' \in Seq(Sendings) /\ Len(air') = L - 1
      /\ \A k \in 1 .. L - 1 : air'[k] = air[k + 1]
  BY <1>1, <1>2
<1>4. f.n \in Nat /\ f.frame \in Frames
  BY <1>3 DEF Sendings
<1>5. f.frame.counter \in Int
  BY <1>4, Sizes DEF Frames
<1>6. Carries(f, muted)
  BY <1>3 DEF LInv, InFlight
<1>7. /\ \A k \in 1 .. L : SentAt(k) - SentAt(k - 1) \in 1 .. MaxFails + 1
      /\ \A k \in 0 .. L : SentAt(k) < FramesPlayed
      /\ SentAt(L) + 1 + fails = FramesPlayed
  BY DEF LInv, SendsInOrder
<1> HIDE DEF f, L, s24
<1>8. SentAt(0) = newest /\ SentAt(1) = f.n
  BY <1>3 DEF SentAt
<1>9. f.n < FramesPlayed /\ f.n - newest \in 1 .. MaxFails + 1
  <2>1. 1 \in 1 .. L /\ 1 \in 0 .. L /\ 1 - 1 = 0
    BY <1>3
  <2> QED
    BY <1>7, <1>8, <2>1
<1>10. f.frame.counter = f.n % TxCounterMod
  BY <1>6 DEF Carries
<1>11. FramesPlayed' = FramesPlayed
  BY <1>1 DEF FramesPlayed
<1>12. \A k \in 0 .. L - 1 : SentAt(k)' = SentAt(k + 1)
  <2> SUFFICES ASSUME NEW k \in 0 .. L - 1 PROVE SentAt(k)' = SentAt(k + 1)
    OBVIOUS
  <2>1. k + 1 # 0 /\ SentAt(k)' = IF k = 0 THEN newest' ELSE air'[k].n
    BY <1>3 DEF SentAt
  <2>2. CASE k = 0
    BY <1>1, <1>8, <2>1, <2>2
  <2>3. CASE k # 0
    <3>1. k \in 1 .. L - 1
      BY <1>3, <2>3
    <3> QED
      BY <1>3, <2>1, <2>3, <3>1 DEF SentAt
  <2> QED
    BY <2>2, <2>3
<1>13. /\ counter_gaps' \in Int
       /\ received = 0 => counter_gaps' = 0
       /\ received # 0 => counter_gaps' = counter_gaps + (f.n - newest - 1)
  <2>1. CASE received = 0
    BY <1>1, <1>2, <2>1 DEF LInv, Receiver, Gaps
  <2>2. CASE received # 0
    <3>1. have_counter /\ last_counter = newest % TxCounterMod
      BY <2>2 DEF LInv, Receiver
    <3>2. counter_gaps' = counter_gaps + reac_counter_gap(newest % TxCounterMod, f.n % TxCounterMod)
      BY <1>1, <1>10, <3>1 DEF Gaps
    <3>3. f.n - newest \in 1 .. TxCounterMod
      BY <1>2, <1>4, <1>9, Sizes
    <3>4. reac_counter_gap(newest % TxCounterMod, f.n % TxCounterMod) = f.n - newest - 1
      BY <1>2, <1>4, <3>3, GapExact
    <3> QED
      BY <1>2, <1>4, <2>2, <3>2, <3>4
  <2> QED
    BY <2>1, <2>2
<1>14. LoopType'
  <2>1. last_counter' \in Int /\ newest' \in Int /\ first' \in Int /\ received' \in Nat
    BY <1>1, <1>2, <1>4, <1>5
  <2>2. have_counter' \in BOOLEAN
    BY <1>1
  <2> QED
    BY <1>1, <1>3, <1>13, <2>1, <2>2 DEF LInv, LoopType
<1>15. CadenceFollowsGraph' /\ StagePlayed'
  BY <1>1, <1>11 DEF LInv, CadenceFollowsGraph, StagePlayed
<1>16. InFlight'
  <2>1. \A k \in 1 .. L - 1 : k + 1 \in 1 .. L
    BY <1>3
  <2>2. \A k \in 1 .. L : Carries(air[k], muted)
    BY DEF LInv, InFlight, L
  <2> QED
    BY <1>1, <1>3, <2>1, <2>2 DEF InFlight
<1>17. SendsInOrder'
  <2>1. ASSUME NEW k \in 1 .. L - 1
        PROVE  SentAt(k)' - SentAt(k - 1)' \in 1 .. MaxFails + 1
    <3>1. k \in 0 .. L - 1 /\ k - 1 \in 0 .. L - 1 /\ k + 1 \in 1 .. L /\ (k - 1) + 1 = (k + 1) - 1
      BY <1>3
    <3>2. SentAt(k)' = SentAt(k + 1) /\ SentAt(k - 1)' = SentAt((k - 1) + 1)
      BY <1>12, <3>1
    <3> QED
      BY <1>7, <3>1, <3>2
  <2>2. ASSUME NEW k \in 0 .. L - 1 PROVE SentAt(k)' < FramesPlayed
    <3>1. k + 1 \in 0 .. L
      BY <1>3
    <3> QED
      BY <1>7, <1>12, <3>1
  <2>3. SentAt(Len(air))' = SentAt(L)
    <3> DEFINE k == L - 1
    <3>1. k \in 0 .. L - 1 /\ k + 1 = L /\ Len(air') = k
      BY <1>3
    <3>2. SentAt(Len(air))' = IF Len(air') = 0 THEN newest' ELSE air'[Len(air')].n
      BY DEF SentAt
    <3> HIDE DEF k
    <3>3. CASE k = 0
      BY <1>1, <1>8, <3>1, <3>2, <3>3
    <3>4. CASE k # 0
      <4>1. k \in 1 .. L - 1 /\ L # 0
        BY <1>3, <3>1, <3>4
      <4> QED
        BY <1>3, <3>1, <3>2, <3>4, <4>1 DEF SentAt
    <3> QED
      BY <3>3, <3>4
  <2> QED
    BY <1>1, <1>3, <1>7, <1>11, <2>1, <2>2, <2>3 DEF SendsInOrder
<1>18. Receiver'
  <2>1. received' # 0
    BY <1>1, <1>2
  <2> QED
    BY <1>1, <1>4, <1>10, <2>1 DEF Receiver
<1>19. FailedSendsAreGaps'
  <2>1. counter_gaps' = newest' - first' + 1 - received'
    <3>1. CASE received = 0
      BY <1>1, <1>4, <1>13, <3>1
    <3>2. CASE received # 0
      <4>1. counter_gaps = newest - first + 1 - received
        BY <1>2, <3>2 DEF LInv, FailedSendsAreGaps
      <4>2. /\ counter_gaps' = counter_gaps + (f.n - newest - 1)
            /\ newest' = f.n /\ first' = first /\ received' = received + 1
        BY <1>1, <1>13, <3>2
      <4>3. /\ counter_gaps \in Int /\ newest \in Int /\ first \in Int /\ received \in Int
            /\ f.n \in Int
        BY <1>2, <1>4
      <4> QED
        BY ONLY <4>1, <4>2, <4>3
    <3> QED
      BY <3>1, <3>2
  <2> QED
    BY <2>1 DEF FailedSendsAreGaps
<1>20. HeardIsPlayed'
  <2> SUFFICES ASSUME NEW ch \in Chans, NEW s \in Slots
               PROVE  LET x == SampleOn(muted, ch, f.n * SamplesPerPkt + s)
                          y == heard'[ch * SamplesPerPkt + s]
                      IN  IF x > 2 * SMax THEN y = 2 * SMax
                          ELSE IF x < -2 * (SMax + 1) THEN y = -2 * (SMax + 1)
                          ELSE x - 1 <= y /\ y <= x + 1
    <3>1. \A c, j : PlayedOn(c, j)' = SampleOn(muted, c, j)
      BY <1>1 DEF PlayedOn, SampleOn
    <3>2. newest' = f.n
      BY <1>1
    <3> QED
      BY <3>1, <3>2 DEF HeardIsPlayed
  <2> DEFINE i == f.n * SamplesPerPkt + s
             p == ch * SamplesPerPkt + s
             x == SampleOn(muted, ch, i)
  <2>1. i \in 0 .. pos - 1
    BY <1>4, <1>9, PastPlace
  <2>2. i \in 0 .. MaxSamples
    BY <1>2, <2>1, SinkAssumption
  <2> HIDE DEF i, p
  <2>3. x \in Int
    BY <2>2, SampleType
  <2>4. p \in DOMAIN s24 /\ s24[p] = f.frame.audio[s * NChannels + ch]
    BY DecodedPlace DEF s24, p
  <2>5. f.frame.audio[s * NChannels + ch] = f32_to_s24le(x)
    BY <1>6 DEF Carries, i
  <2> HIDE DEF x
  <2>6. heard'[p] = s24le_to_f32(f32_to_s24le(x))
    BY <1>1, <2>4, <2>5
  <2>7. IF x > 2 * SMax THEN heard'[p] = 2 * SMax
        ELSE IF x < -2 * (SMax + 1) THEN heard'[p] = -2 * (SMax + 1)
        ELSE x - 1 <= heard'[p] /\ heard'[p] <= x + 1
    BY <2>3, <2>6, RoundTrip
  <2> QED
    BY <2>7 DEF x, i, p
<1> QED
  BY <1>14, <1>15, <1>16, <1>17, <1>18, <1>19, <1>20 DEF LInv

(* Every step keeps the invariant.                                         *)
LEMMA NextLInv == LInv /\ [LoopNext]_allVars => LInv'
<1> SUFFICES ASSUME LInv, [LoopNext]_allVars PROVE LInv'
  OBVIOUS
<1>1. ASSUME NEW n \in Quanta, NEW ports \in SUBSET Ports, ProcessBegin(n, ports),
             UNCHANGED feederVars
      PROVE  LInv'
  <2>1. n \in Nat
    BY SinkAssumption
  <2> QED
    BY <1>1, <2>1, BeginKeepsLInv DEF ProcessBegin
<1>2. ASSUME StageSample, UNCHANGED feederVars PROVE LInv'
  BY <1>2, StageKeepsLInv
<1>3. ASSUME NEW sent \in BOOLEAN, StageAndEmit(sent), UNCHANGED feederVars PROVE LInv'
  BY <1>3, EmitKeepsLInv
<1>4. CASE Receive
  BY <1>4, ReceiveKeepsLInv
<1>5. CASE UNCHANGED allVars
  <2>1. linked \subseteq Ports /\ left \in Nat /\ pos + left <= MaxSamples
    BY DEF LInv, LoopType
  <2> QED
    BY <1>5, <2>1, BeginKeepsLInv DEF allVars, sinkVars
<1> QED
  BY <1>1, <1>2, <1>3, <1>4, <1>5 DEF LoopNext, SinkNext

(* The invariant holds throughout.                                         *)
THEOREM LoopbackInvariant == LoopSpec => []LInv
  BY InitLInv, NextLInv, PTL DEF LoopSpec

(* One frame for every SamplesPerPkt samples, numbered in turn, whatever   *)
(* the quanta and whether or not the sends succeed.                        *)
THEOREM CadenceAlwaysFollowsGraph == LoopSpec => []CadenceFollowsGraph
<1>1. LInv => CadenceFollowsGraph
  BY DEF LInv
<1> QED
  BY <1>1, LoopbackInvariant, PTL

(* Every channel hears its own samples, half a unit off at most or clipped *)
(* to the scale.                                                           *)
THEOREM HeardIsAlwaysPlayed == LoopSpec => []HeardIsPlayed
<1>1. LInv => HeardIsPlayed
  BY DEF LInv
<1> QED
  BY <1>1, LoopbackInvariant, PTL

(* The feeder counts exactly the frames whose sending failed.              *)
THEOREM FailedSendsAlwaysGaps == LoopSpec => []FailedSendsAreGaps
<1>1. LInv => FailedSendsAreGaps
  BY DEF LInv
<1> QED
  BY <1>1, LoopbackInvariant, PTL
=============================================================================
