---------------------------- MODULE ListenProofs ----------------------------
(***************************************************************************)
(* Proofs about Listen, for every counter width, socket buffer, number of  *)
(* frames and mixture of directions, and for both loops.                   *)
(***************************************************************************)
EXTENDS Listen, ModArith

-----------------------------------------------------------------------------
(* The inductive invariant: the broadcast frames that wait in the socket   *)
(* are the next ones after the newest handled, in order and each less than *)
(* half a counter period after the one before.                             *)

Waiting == [dir : {"down", "up", "bad", "foreign"}, counter : Counters, n : Int]

ListenType ==
  /\ bcast \in BOOLEAN
  /\ clock \in Clocks
  /\ sockq \in Seq(Waiting)
  /\ down \in Nat /\ newest \in Int
  /\ first \in Int /\ high \in Int /\ taken \in Nat

Down(i) == sockq[i].dir = "down"

(* What a broadcast frame carries, and that they wait in order.            *)
InOrder ==
  \A i \in 1 .. Len(sockq) : Down(i) =>
    /\ sockq[i].n \in 0 .. down - 1
    /\ sockq[i].counter = sockq[i].n % CounterMod
    /\ \A j \in 1 .. i - 1 : Down(j) => sockq[j].n < sockq[i].n

(* No two that follow each other are further apart than a counter tells.   *)
Countable ==
  \A i \in 1 .. Len(sockq) : Down(i) =>
    /\ (\A j \in 1 .. i - 1 : ~Down(j)) => taken = 0 \/ sockq[i].n - high \in 1 .. HalfRange
    /\ \A j \in 1 .. i - 1 :
         Down(j) /\ (\A k \in j + 1 .. i - 1 : ~Down(k)) => sockq[i].n - sockq[j].n <= HalfRange

(* The last of them is the newest to have reached the socket.              *)
NewestLast ==
  /\ \A i \in 1 .. Len(sockq) :
       Down(i) /\ (\A j \in i + 1 .. Len(sockq) : ~Down(j)) => sockq[i].n = newest
  /\ (\A i \in 1 .. Len(sockq) : ~Down(i)) /\ taken > 0 => newest = high

(* With --bcast-only the clock follows the broadcast alone.                *)
ClockFollows ==
  /\ taken > 0 => high \in 0 .. down - 1
  /\ bcast =>
       IF taken = 0 THEN ~clock.started /\ clock.total_lost = 0
       ELSE /\ clock.started
            /\ clock.last_counter = high % CounterMod
            /\ clock.total_lost = high - first + 1 - taken

SInv == ListenType /\ InOrder /\ Countable /\ NewestLast /\ ClockFollows

-----------------------------------------------------------------------------
(* The media clock, one packet at a time.                                  *)

LEMMA Halves ==
  /\ CounterMod \in Nat \ {0} /\ HalfRange \in Nat \ {0}
  /\ CounterMod = HalfRange + HalfRange
BY ClockAssumption DEF HalfRange

(* The clock after a packet is a clock.                                    *)
LEMMA ClockTyped ==
  ASSUME NEW mc \in Clocks, NEW counter \in Counters
  PROVE  media_clock_on_packet(mc, counter) \in Clocks
<1> DEFINE u    == (counter - mc.last_counter - 1) % CounterMod
           lost == LostBefore(mc, counter)
           ts   == (mc.rtp_ts + (lost + 1) * SamplesPerPkt) % TsMod
<1>1. /\ mc.anchor \in Timestamps /\ mc.rtp_ts \in Timestamps
      /\ mc.last_counter \in Counters
      /\ mc.total_lost \in Nat /\ mc.started \in BOOLEAN
  BY DEF Clocks
<1>2. u \in 0 .. CounterMod - 1
  <2>1. counter - mc.last_counter - 1 \in Int
    BY <1>1, Halves DEF Counters
  <2> QED
    BY <2>1, Halves, DivMod
<1>3. lost \in Nat
  <2> HIDE DEF u
  <2>1. SignedDelta(counter, mc.last_counter) \in Int
    BY <1>2, Halves DEF SignedDelta, u
  <2> QED
    BY <2>1, <1>1 DEF LostBefore
<1>4. ts \in Timestamps
  <2> HIDE DEF lost
  <2>1. TsMod \in Nat \ {0} /\ SamplesPerPkt \in Nat
    BY ClockAssumption, ModeAssumption
  <2>2. mc.rtp_ts + (lost + 1) * SamplesPerPkt \in Int
    BY <1>1, <1>3, <2>1 DEF Timestamps
  <2> QED
    BY <2>1, <2>2, DivMod DEF Timestamps
<1> HIDE DEF ts, lost
<1>5. media_clock_on_packet(mc, counter) =
        [mc EXCEPT !.started = TRUE,
                   !.rtp_ts = IF mc.started THEN ts ELSE mc.anchor,
                   !.last_counter = IF IsLate(mc, counter) THEN @ ELSE counter,
                   !.total_lost = @ + lost]
  BY DEF media_clock_on_packet, ts, lost
<1>6. (IF IsLate(mc, counter) THEN mc.last_counter ELSE counter) \in Counters
  BY <1>1
<1>7. (IF mc.started THEN ts ELSE mc.anchor) \in Timestamps
  BY <1>1, <1>4
<1>8. mc.total_lost + lost \in Nat
  BY <1>1, <1>3
<1> QED
  BY ONLY <1>1, <1>5, <1>6, <1>7, <1>8 DEF Clocks

(* The first packet starts it.                                             *)
LEMMA ClockStarts ==
  ASSUME NEW mc \in Clocks, NEW counter \in Counters, ~mc.started
  PROVE  LET after == media_clock_on_packet(mc, counter)
         IN  /\ after.started /\ after.last_counter = counter
             /\ after.total_lost = mc.total_lost
<1>1. LostBefore(mc, counter) = 0 /\ ~IsLate(mc, counter)
  BY DEF LostBefore, IsLate
<1> QED
  BY <1>1 DEF media_clock_on_packet, Clocks

(* Frame n after frame h, less than half a counter period later: the clock *)
(* counts exactly the frames between them.                                 *)
LEMMA ClockCounts ==
  ASSUME NEW mc \in Clocks, NEW h \in Int, NEW n \in Int, n - h \in 1 .. HalfRange,
         mc.started, mc.last_counter = h % CounterMod
  PROVE  LET after == media_clock_on_packet(mc, n % CounterMod)
         IN  /\ after.started /\ after.last_counter = n % CounterMod
             /\ after.total_lost = mc.total_lost + (n - h - 1)
<1> DEFINE u == ((n % CounterMod) - (h % CounterMod) - 1) % CounterMod
<1>1. u = n - h - 1
  <2>1. n - h \in 1 .. CounterMod
    BY Halves
  <2> QED
    BY <2>1, Halves, CounterDistance
<1>2. SignedDelta(n % CounterMod, mc.last_counter) = IF u < HalfRange THEN u ELSE u - CounterMod
  BY DEF SignedDelta
<1> HIDE DEF u
<1>3. SignedDelta(n % CounterMod, mc.last_counter) = n - h - 1
  BY <1>1, <1>2, Halves
<1>4. LostBefore(mc, n % CounterMod) = n - h - 1 /\ ~IsLate(mc, n % CounterMod)
  BY <1>3 DEF LostBefore, IsLate
<1> QED
  BY <1>4 DEF media_clock_on_packet, Clocks

-----------------------------------------------------------------------------
LEMMA InitSInv == ListenInit => SInv
<1> SUFFICES ASSUME ListenInit PROVE SInv
  OBVIOUS
<1>1. clock \in Clocks
  BY ClockAssumption DEF ListenInit, media_clock_init_anchored, Clocks, Timestamps, Counters
<1>2. clock.started = FALSE /\ clock.total_lost = 0
  BY DEF ListenInit, media_clock_init_anchored
<1>3. sockq = << >> /\ Len(sockq) = 0 /\ sockq \in Seq(Waiting)
  BY DEF ListenInit
<1>4. ListenType
  BY <1>1, <1>3 DEF ListenInit, ListenType
<1>5. InOrder /\ Countable /\ NewestLast
  BY <1>3 DEF ListenInit, InOrder, Countable, NewestLast
<1>6. ClockFollows
  BY <1>2 DEF ListenInit, ClockFollows
<1> QED
  BY <1>4, <1>5, <1>6 DEF SInv

(* Steps that touch neither the socket nor the clock.                      *)
kept == <<bcast, clock, sockq, down, newest, first, high, taken>>

LEMMA KeptSInv ==
  ASSUME SInv, UNCHANGED kept
  PROVE  SInv'
BY DEF SInv, kept, ListenType, InOrder, Countable, NewestLast, ClockFollows, Down

(* A frame of any kind joins the queue, or finds it full.                  *)
LEMMA ArriveSInv ==
  ASSUME SInv, NEW f \in Frames, Arrive(f)
  PROVE  SInv'
<1> USE DEF Down
<1>1. /\ bcast' = bcast /\ clock' = clock
      /\ first' = first /\ high' = high /\ taken' = taken
  BY DEF Arrive, config, media
<1>2. ListenType
  BY DEF SInv
<1>3. f \in Waiting
  <2>1. down % CounterMod \in Counters /\ 0 \in Counters
    BY <1>2, Halves, DivMod DEF ListenType, Counters
  <2>2. UpCounters \subseteq Counters
    BY ListenAssumption
  <2> QED
    BY <2>1, <2>2, <1>2 DEF Frames, Waiting, ListenType
<1>4. f.dir = "down" => f.n = down /\ f.counter = down % CounterMod
  BY DEF Frames
<1>5. down' = IF f.dir \in {"down", "bad"} THEN down + 1 ELSE down
  BY DEF Arrive
<1>6. CASE Len(sockq) < SockCap
  <2>1. sockq' = Append(sockq, f)
    BY <1>6 DEF Arrive
  <2> DEFINE L == Len(sockq)
  <2>2. /\ L \in Nat /\ Len(sockq') = L + 1 /\ sockq'[L + 1] = f
        /\ \A i \in 1 .. L : sockq'[i] = sockq[i] /\ sockq[i] \in Waiting
        /\ sockq' \in Seq(Waiting)
    BY <2>1, <1>2, <1>3 DEF ListenType
  <2> HIDE DEF L
  <2>3. newest' = IF f.dir = "down" THEN f.n ELSE newest
    BY <1>6 DEF Arrive
  <2>4. ListenType'
    BY <1>1, <1>2, <1>3, <1>5, <2>2, <2>3 DEF ListenType, Waiting
  <2>5. InOrder'
    <3>1. down \in Nat /\ down' \in Nat /\ down <= down'
      BY <1>2, <1>5 DEF ListenType
    <3>2. \A i \in 1 .. L : sockq[i].dir = "down" =>
             /\ sockq[i].n \in 0 .. down - 1 /\ sockq[i].counter = sockq[i].n % CounterMod
             /\ \A j \in 1 .. i - 1 : sockq[j].dir = "down" => sockq[j].n < sockq[i].n
      BY DEF SInv, InOrder, L
    <3>3. ASSUME NEW i \in 1 .. L, (sockq'[i]).dir = "down"
          PROVE  /\ (sockq'[i]).n \in 0 .. down' - 1
                 /\ (sockq'[i]).counter = (sockq'[i]).n % CounterMod
                 /\ \A j \in 1 .. i - 1 : (sockq'[j]).dir = "down" => (sockq'[j]).n < (sockq'[i]).n
      <4>1. sockq'[i] = sockq[i] /\ \A j \in 1 .. i - 1 : sockq'[j] = sockq[j]
        BY <2>2
      <4> QED
        BY <3>1, <3>2, <3>3, <4>1
    <3>4. ASSUME (sockq'[L + 1]).dir = "down"
          PROVE  /\ (sockq'[L + 1]).n \in 0 .. down' - 1
                 /\ (sockq'[L + 1]).counter = (sockq'[L + 1]).n % CounterMod
                 /\ \A j \in 1 .. L : (sockq'[j]).dir = "down" => (sockq'[j]).n < (sockq'[L + 1]).n
      BY <3>1, <3>2, <3>4, <2>2, <1>4, <1>5
    <3>5. \A i \in 1 .. L + 1 : i \in 1 .. L \/ i = L + 1
      BY <2>2
    <3> QED
      BY <3>3, <3>4, <3>5, <2>2 DEF InOrder
  <2>6. Countable'
    <3>1. \A i \in 1 .. L : sockq[i].dir = "down" =>
            /\ (\A j \in 1 .. i - 1 : sockq[j].dir # "down") =>
                 taken = 0 \/ sockq[i].n - high \in 1 .. HalfRange
            /\ \A j \in 1 .. i - 1 :
                 sockq[j].dir = "down" /\ (\A k \in j + 1 .. i - 1 : sockq[k].dir # "down") =>
                   sockq[i].n - sockq[j].n <= HalfRange
      BY DEF SInv, Countable, L
    <3>2. ASSUME NEW i \in 1 .. L, (sockq'[i]).dir = "down"
          PROVE  /\ (\A j \in 1 .. i - 1 : (sockq'[j]).dir # "down") =>
                      taken' = 0 \/ (sockq'[i]).n - high' \in 1 .. HalfRange
                 /\ \A j \in 1 .. i - 1 :
                      (sockq'[j]).dir = "down"
                        /\ (\A k \in j + 1 .. i - 1 : (sockq'[k]).dir # "down") =>
                      (sockq'[i]).n - (sockq'[j]).n <= HalfRange
      <4>1. sockq'[i] = sockq[i] /\ \A j \in 1 .. i - 1 : sockq'[j] = sockq[j]
        BY <2>2
      <4>2. \A j \in 1 .. i - 1 : \A k \in j + 1 .. i - 1 : k \in 1 .. i - 1
        BY <2>2
      <4> QED
        BY <3>1, <3>2, <4>1, <4>2, <1>1
    <3>3. ASSUME f.dir = "down"
          PROVE  /\ (\A j \in 1 .. L : sockq[j].dir # "down") =>
                      taken = 0 \/ f.n - high \in 1 .. HalfRange
                 /\ \A j \in 1 .. L :
                      sockq[j].dir = "down" /\ (\A k \in j + 1 .. L : sockq[k].dir # "down") =>
                      f.n - sockq[j].n <= HalfRange
      <4>1. newest >= 0 => down - newest <= HalfRange
        BY <3>3 DEF Arrive
      <4>2. f.n = down /\ down \in Nat /\ newest \in Int /\ taken \in Nat /\ high \in Int
        BY <3>3, <1>2, <1>4 DEF ListenType
      <4>3. taken > 0 => high \in 0 .. down - 1
        BY DEF SInv, ClockFollows
      <4>4. \A j \in 1 .. L : sockq[j].dir = "down" => sockq[j].n \in 0 .. down - 1
        BY DEF SInv, InOrder, L
      <4>5. /\ \A i \in 1 .. L :
                 sockq[i].dir = "down" /\ (\A j \in i + 1 .. L : sockq[j].dir # "down") =>
                   sockq[i].n = newest
            /\ (\A i \in 1 .. L : sockq[i].dir # "down") /\ taken > 0 => newest = high
        BY DEF SInv, NewestLast, L
      <4>6. (\A j \in 1 .. L : sockq[j].dir # "down") =>
              taken = 0 \/ f.n - high \in 1 .. HalfRange
        BY <4>1, <4>2, <4>3, <4>5, Halves
      <4>7. ASSUME NEW j \in 1 .. L, sockq[j].dir = "down",
                   \A k \in j + 1 .. L : sockq[k].dir # "down"
            PROVE  f.n - sockq[j].n <= HalfRange
        <5>1. sockq[j].n = newest
          BY <4>5, <4>7
        <5>2. newest >= 0
          BY <4>4, <4>7, <5>1
        <5> QED
          BY <4>1, <4>2, <5>1, <5>2
      <4> QED
        BY <4>6, <4>7
    <3>4. ASSUME (sockq'[L + 1]).dir = "down"
          PROVE  /\ (\A j \in 1 .. L : (sockq'[j]).dir # "down") =>
                      taken' = 0 \/ (sockq'[L + 1]).n - high' \in 1 .. HalfRange
                 /\ \A j \in 1 .. L :
                      (sockq'[j]).dir = "down"
                        /\ (\A k \in j + 1 .. L : (sockq'[k]).dir # "down") =>
                      (sockq'[L + 1]).n - (sockq'[j]).n <= HalfRange
      <4>1. \A j \in 1 .. L : \A k \in j + 1 .. L : k \in 1 .. L
        BY <2>2
      <4> QED
        BY <3>3, <3>4, <2>2, <1>1, <4>1
    <3>5. \A i \in 1 .. L + 1 : i \in 1 .. L \/ i = L + 1
      BY <2>2
    <3> SUFFICES ASSUME NEW i \in 1 .. L + 1, (sockq'[i]).dir = "down"
                 PROVE  /\ (\A j \in 1 .. i - 1 : (sockq'[j]).dir # "down") =>
                             taken' = 0 \/ (sockq'[i]).n - high' \in 1 .. HalfRange
                        /\ \A j \in 1 .. i - 1 :
                             (sockq'[j]).dir = "down"
                               /\ (\A k \in j + 1 .. i - 1 : (sockq'[k]).dir # "down") =>
                             (sockq'[i]).n - (sockq'[j]).n <= HalfRange
      BY <2>2 DEF Countable
    <3>6. CASE i \in 1 .. L
      BY <3>2, <3>6
    <3>7. CASE i = L + 1
      <4>1. i - 1 = L
        BY <2>2, <3>7
      <4>2. (sockq'[L + 1]).dir = "down"
        BY <3>7, Zenon
      <4> QED
        BY ONLY <3>4, <3>7, <4>1, <4>2
    <3> QED
      BY <3>5, <3>6, <3>7
  <2>7. NewestLast'
    <3>1. /\ \A i \in 1 .. L :
               sockq[i].dir = "down" /\ (\A j \in i + 1 .. L : sockq[j].dir # "down") =>
                 sockq[i].n = newest
          /\ (\A i \in 1 .. L : sockq[i].dir # "down") /\ taken > 0 => newest = high
      BY DEF SInv, NewestLast, L
    <3>2. ASSUME NEW i \in 1 .. L + 1, (sockq'[i]).dir = "down",
                 \A j \in i + 1 .. L + 1 : (sockq'[j]).dir # "down"
          PROVE  (sockq'[i]).n = newest'
      <4>1. CASE i = L + 1
        BY <4>1, <3>2, <2>2, <2>3
      <4>2. CASE i \in 1 .. L
        <5>1. L + 1 \in i + 1 .. L + 1 /\ \A j \in i + 1 .. L : j \in i + 1 .. L + 1 /\ j \in 1 .. L
          BY <4>2, <2>2
        <5>2. f.dir # "down"
          BY <5>1, <3>2, <2>2
        <5>3. \A j \in i + 1 .. L : sockq[j].dir # "down"
          BY <5>1, <3>2, <2>2
        <5> QED
          BY <4>2, <5>2, <5>3, <3>1, <3>2, <2>2, <2>3
      <4> QED
        BY <4>1, <4>2, <2>2
    <3>3. ASSUME \A i \in 1 .. L + 1 : (sockq'[i]).dir # "down", taken' > 0
          PROVE  newest' = high'
      <4>1. L + 1 \in 1 .. L + 1 /\ \A i \in 1 .. L : i \in 1 .. L + 1
        BY <2>2
      <4> QED
        BY <4>1, <3>1, <3>3, <2>2, <2>3, <1>1
    <3> QED
      BY <3>2, <3>3, <2>2 DEF NewestLast
  <2>8. ClockFollows'
    <3>1. down \in Nat /\ down' \in Nat /\ down <= down'
      BY <1>2, <1>5 DEF ListenType
    <3> QED
      BY <1>1, <3>1 DEF SInv, ClockFollows
  <2> QED
    BY <2>4, <2>5, <2>6, <2>7, <2>8 DEF SInv
<1>7. CASE ~(Len(sockq) < SockCap)
  <2>1. sockq' = sockq /\ newest' = newest
    BY <1>7 DEF Arrive
  <2>2. down \in Nat /\ down' \in Nat /\ down <= down'
    BY <1>2, <1>5 DEF ListenType
  <2>3. ListenType'
    BY <1>1, <1>2, <2>1, <2>2 DEF ListenType
  <2>4. InOrder'
    BY <2>1, <2>2 DEF SInv, InOrder
  <2>5. Countable' /\ NewestLast'
    BY <2>1, <1>1 DEF SInv, Countable, NewestLast
  <2>6. ClockFollows'
    BY <1>1, <2>2 DEF SInv, ClockFollows
  <2> QED
    BY <2>3, <2>4, <2>5, <2>6 DEF SInv
<1> QED
  BY <1>6, <1>7

(* The first frame of the queue is taken, handed to the pipeline or not.   *)
LEMMA TakeSInv ==
  ASSUME SInv, sockq # << >>, sockq' = Tail(sockq),
         UNCHANGED <<bcast, down, newest>>,
         IF Head(sockq).dir # "foreign" /\ frame_wanted(Head(sockq))
         THEN HandOver(Head(sockq))
         ELSE UNCHANGED <<clock, first, high, taken>>
  PROVE  SInv'
<1> USE DEF Down
<1> DEFINE f == Head(sockq)
           L == Len(sockq)
<1>1. ListenType
  BY DEF SInv
<1>2. /\ L \in Nat \ {0} /\ f = sockq[1] /\ f \in Waiting
      /\ sockq' \in Seq(Waiting) /\ Len(sockq') = L - 1
      /\ \A i \in 1 .. L - 1 : sockq'[i] = sockq[i + 1] /\ i + 1 \in 1 .. L
  BY <1>1 DEF ListenType
<1>3. f.counter \in Counters /\ f.n \in Int /\ f.dir \in {"down", "up", "bad", "foreign"}
  BY <1>2 DEF Waiting
<1>4. f.dir = "down" =>
        /\ clock' = media_clock_on_packet(clock, f.counter)
        /\ first' = (IF taken = 0 THEN f.n ELSE first) /\ high' = f.n /\ taken' = taken + 1
  BY DEF frame_wanted, HandOver
<1>5. f.dir # "down" =>
        /\ clock' \in {clock, media_clock_on_packet(clock, f.counter)}
        /\ bcast => clock' = clock
        /\ first' = first /\ high' = high /\ taken' = taken
  BY <1>3 DEF frame_wanted, HandOver
<1>6. /\ \A i \in 1 .. L : sockq[i].dir = "down" =>
           /\ sockq[i].n \in 0 .. down - 1
           /\ sockq[i].counter = sockq[i].n % CounterMod
           /\ \A j \in 1 .. i - 1 : sockq[j].dir = "down" => sockq[j].n < sockq[i].n
  BY DEF SInv, InOrder
<1>7. \A i \in 1 .. L : sockq[i].dir = "down" =>
        /\ (\A j \in 1 .. i - 1 : sockq[j].dir # "down") =>
             taken = 0 \/ sockq[i].n - high \in 1 .. HalfRange
        /\ \A j \in 1 .. i - 1 :
             sockq[j].dir = "down" /\ (\A k \in j + 1 .. i - 1 : sockq[k].dir # "down") =>
               sockq[i].n - sockq[j].n <= HalfRange
  BY DEF SInv, Countable
<1>8. /\ \A i \in 1 .. L :
           sockq[i].dir = "down" /\ (\A j \in i + 1 .. L : sockq[j].dir # "down") =>
             sockq[i].n = newest
      /\ (\A i \in 1 .. L : sockq[i].dir # "down") /\ taken > 0 => newest = high
  BY DEF SInv, NewestLast
<1>9. down \in Nat /\ newest \in Int /\ first \in Int /\ high \in Int /\ taken \in Nat
      /\ bcast \in BOOLEAN /\ clock \in Clocks
  BY <1>1 DEF ListenType
<1>10. bcast' = bcast /\ down' = down /\ newest' = newest
  OBVIOUS
<1> HIDE DEF f, L
<1>11. f.dir = "down" => /\ f.n \in 0 .. down - 1 /\ f.counter = f.n % CounterMod
                         /\ taken = 0 \/ f.n - high \in 1 .. HalfRange
  <2>1. 1 \in 1 .. L /\ (1 .. 1 - 1) = {}
    BY <1>2
  <2> QED
    BY <2>1, <1>2, <1>6, <1>7
<1>12. ListenType'
  <2>1. clock' \in Clocks
    BY <1>3, <1>4, <1>5, <1>9, ClockTyped
  <2>2. first' \in Int /\ high' \in Int /\ taken' \in Nat
    BY <1>3, <1>4, <1>5, <1>9
  <2> QED
    BY <2>1, <2>2, <1>2, <1>9, <1>10 DEF ListenType
<1>13. InOrder'
  <2> SUFFICES ASSUME NEW i \in 1 .. L - 1, (sockq'[i]).dir = "down"
               PROVE  /\ (sockq'[i]).n \in 0 .. down - 1
                      /\ (sockq'[i]).counter = (sockq'[i]).n % CounterMod
                      /\ \A j \in 1 .. i - 1 :
                           (sockq'[j]).dir = "down" => (sockq'[j]).n < (sockq'[i]).n
    BY <1>2, <1>10 DEF InOrder
  <2>1. \A j \in 1 .. i - 1 : j \in 1 .. L - 1 /\ j + 1 \in 1 .. (i + 1) - 1
    BY <1>2
  <2> QED
    BY <2>1, <1>2, <1>6
<1>14. Countable'
  <2> SUFFICES ASSUME NEW i \in 1 .. L - 1, (sockq'[i]).dir = "down"
               PROVE  /\ (\A j \in 1 .. i - 1 : (sockq'[j]).dir # "down") =>
                           taken' = 0 \/ (sockq'[i]).n - high' \in 1 .. HalfRange
                      /\ \A j \in 1 .. i - 1 :
                           (sockq'[j]).dir = "down"
                             /\ (\A k \in j + 1 .. i - 1 : (sockq'[k]).dir # "down") =>
                           (sockq'[i]).n - (sockq'[j]).n <= HalfRange
    BY <1>2 DEF Countable
  <2>1. /\ i + 1 \in 1 .. L /\ sockq'[i] = sockq[i + 1] /\ sockq[i + 1].dir = "down"
        /\ i + 1 - 1 = i
    BY <1>2
  <2>2. /\ (\A j \in 1 .. i : sockq[j].dir # "down") =>
             taken = 0 \/ sockq[i + 1].n - high \in 1 .. HalfRange
        /\ \A j \in 1 .. i :
             sockq[j].dir = "down" /\ (\A k \in j + 1 .. i : sockq[k].dir # "down") =>
               sockq[i + 1].n - sockq[j].n <= HalfRange
    BY <2>1, <1>7
  <2>3. ASSUME \A j \in 1 .. i - 1 : (sockq'[j]).dir # "down"
        PROVE  taken' = 0 \/ (sockq'[i]).n - high' \in 1 .. HalfRange
    <3>1. ASSUME NEW k \in 2 .. i
          PROVE  sockq[k].dir # "down"
      <4>1. k - 1 \in 1 .. i - 1 /\ k - 1 \in 1 .. L - 1 /\ (k - 1) + 1 = k
        BY <1>2
      <4> QED
        BY <4>1, <1>2, <2>3
    <3>2. CASE f.dir = "down"
      <4>1. 1 \in 1 .. i /\ sockq[1].dir = "down" /\ 1 + 1 = 2
        BY <3>2, <1>2
      <4>2. sockq[i + 1].n - sockq[1].n <= HalfRange
        BY <4>1, <3>1, <2>2
      <4>3. sockq[1].n < sockq[i + 1].n /\ sockq[1].n \in Int /\ sockq[i + 1].n \in Int
        BY <4>1, <2>1, <1>6, <1>3, <1>2, <1>9
      <4> QED
        BY <4>2, <4>3, <3>2, <2>1, <1>2, <1>4, Halves
    <3>3. CASE f.dir # "down"
      <4>1. \A j \in 1 .. i : sockq[j].dir # "down"
        <5>1. \A j \in 1 .. i : j = 1 \/ j \in 2 .. i
          BY <1>2
        <5> QED
          BY <5>1, <3>1, <3>3, <1>2
      <4> QED
        BY <4>1, <3>3, <2>1, <2>2, <1>5
    <3> QED
      BY <3>2, <3>3
  <2>4. ASSUME NEW j \in 1 .. i - 1, (sockq'[j]).dir = "down",
               \A k \in j + 1 .. i - 1 : (sockq'[k]).dir # "down"
        PROVE  (sockq'[i]).n - (sockq'[j]).n <= HalfRange
    <3>1. j \in 1 .. L - 1 /\ j + 1 \in 1 .. i /\ sockq'[j] = sockq[j + 1]
      BY <1>2
    <3>2. ASSUME NEW k \in (j + 1) + 1 .. i
          PROVE  sockq[k].dir # "down"
      <4>1. k - 1 \in j + 1 .. i - 1 /\ k - 1 \in 1 .. L - 1 /\ (k - 1) + 1 = k
        BY <1>2
      <4> QED
        BY <4>1, <1>2, <2>4
    <3> QED
      BY <3>1, <3>2, <2>1, <2>4, <2>2
  <2> QED
    BY <2>3, <2>4
<1>15. NewestLast'
  <2>1. ASSUME NEW i \in 1 .. L - 1, (sockq'[i]).dir = "down",
               \A j \in i + 1 .. L - 1 : (sockq'[j]).dir # "down"
        PROVE  (sockq'[i]).n = newest'
    <3>1. i + 1 \in 1 .. L /\ sockq'[i] = sockq[i + 1]
      BY <1>2
    <3>2. ASSUME NEW k \in (i + 1) + 1 .. L
          PROVE  sockq[k].dir # "down"
      <4>1. k - 1 \in i + 1 .. L - 1 /\ k - 1 \in 1 .. L - 1 /\ (k - 1) + 1 = k
        BY <1>2
      <4> QED
        BY <4>1, <1>2, <2>1
    <3> QED
      BY <3>1, <3>2, <2>1, <1>8, <1>10
  <2>2. ASSUME \A i \in 1 .. L - 1 : (sockq'[i]).dir # "down", taken' > 0
        PROVE  newest' = high'
    <3>1. ASSUME NEW k \in 2 .. L
          PROVE  sockq[k].dir # "down"
      <4>1. k - 1 \in 1 .. L - 1 /\ (k - 1) + 1 = k
        BY <1>2
      <4> QED
        BY <4>1, <1>2, <2>2
    <3>2. CASE f.dir = "down"
      <4>1. 1 \in 1 .. L /\ 1 + 1 = 2
        BY <1>2
      <4> QED
        BY <4>1, <3>1, <3>2, <1>2, <1>4, <1>8, <1>10
    <3>3. CASE f.dir # "down"
      <4>1. \A k \in 1 .. L : k = 1 \/ k \in 2 .. L
        BY <1>2
      <4> QED
        BY <4>1, <3>1, <3>3, <2>2, <1>2, <1>5, <1>8, <1>10
    <3> QED
      BY <3>2, <3>3
  <2> QED
    BY <2>1, <2>2, <1>2 DEF NewestLast
<1>16. ClockFollows'
  <2>1. /\ taken > 0 => high \in 0 .. down - 1
        /\ bcast =>
             IF taken = 0 THEN ~clock.started /\ clock.total_lost = 0
             ELSE /\ clock.started
                  /\ clock.last_counter = high % CounterMod
                  /\ clock.total_lost = high - first + 1 - taken
    BY DEF SInv, ClockFollows
  <2>2. taken' > 0 => high' \in 0 .. down' - 1
    BY <2>1, <1>4, <1>5, <1>10, <1>11
  <2>3. ASSUME bcast, f.dir # "down"
        PROVE  ClockFollows'
    BY <2>1, <2>2, <2>3, <1>5, <1>10 DEF ClockFollows
  <2>4. ASSUME bcast, f.dir = "down", taken = 0
        PROVE  ClockFollows'
    <3>1. /\ clock'.started /\ clock'.last_counter = f.counter
          /\ clock'.total_lost = clock.total_lost
      BY <2>1, <2>4, <1>3, <1>4, <1>9, ClockStarts
    <3>2. clock.total_lost = 0 /\ first' = f.n /\ high' = f.n /\ taken' = 1
      BY <2>1, <2>4, <1>4
    <3>3. clock'.total_lost = high' - first' + 1 - taken' /\ taken' # 0
      BY <3>1, <3>2, <1>3
    <3> QED
      BY <3>1, <3>2, <3>3, <2>2, <2>4, <1>11 DEF ClockFollows
  <2>5. ASSUME bcast, f.dir = "down", taken # 0
        PROVE  ClockFollows'
    <3>1. f.n - high \in 1 .. HalfRange /\ f.counter = f.n % CounterMod
      BY <2>5, <1>11
    <3>2. clock.started /\ clock.last_counter = high % CounterMod
          /\ clock.total_lost = high - first + 1 - taken
      BY <2>1, <2>5
    <3>3. /\ clock'.started /\ clock'.last_counter = f.n % CounterMod
          /\ clock'.total_lost = clock.total_lost + (f.n - high - 1)
      BY <3>1, <3>2, <2>5, <1>3, <1>4, <1>9, ClockCounts
    <3>4. first' = first /\ high' = f.n /\ taken' = taken + 1
      BY <2>5, <1>4
    <3>5. clock'.total_lost = high' - first' + 1 - taken' /\ taken' # 0
      BY <3>2, <3>3, <3>4, <1>3, <1>9
    <3> QED
      BY <3>3, <3>4, <3>5, <2>2 DEF ClockFollows
  <2>6. CASE ~bcast
    BY <2>6, <2>2, <1>10 DEF ClockFollows
  <2> QED
    BY <2>3, <2>4, <2>5, <2>6
<1> QED
  BY <1>12, <1>13, <1>14, <1>15, <1>16 DEF SInv

LEMMA StepSInv ==
  ASSUME SInv, [ListenNext]_lvars
  PROVE  SInv'
<1> USE DEF config, media, wire
<1>1. ASSUME NEW f \in Frames, Arrive(f)
      PROVE  SInv'
  BY <1>1, ArriveSInv
<1>2. CASE Drain
  <2>1. sockq # << >> /\ sockq' = Tail(sockq) /\ UNCHANGED <<bcast, down, newest>>
    BY <1>2 DEF Drain
  <2>2. IF Head(sockq).dir # "foreign" /\ frame_wanted(Head(sockq))
        THEN HandOver(Head(sockq))
        ELSE UNCHANGED <<clock, first, high, taken>>
    BY <1>2 DEF Drain
  <2> QED
    BY <2>1, <2>2, TakeSInv
<1>3. CASE Recv
  <2>1. sockq # << >> /\ sockq' = Tail(sockq) /\ UNCHANGED <<bcast, down, newest>>
    BY <1>3 DEF Recv
  <2>2. IF Head(sockq).dir # "foreign" /\ frame_wanted(Head(sockq))
        THEN HandOver(Head(sockq))
        ELSE UNCHANGED <<clock, first, high, taken>>
    BY <1>3 DEF Recv, Take
  <2> QED
    BY <2>1, <2>2, TakeSInv
<1>4. Setup \/ Readable \/ DrainEnd \/ Publish \/ Check \/ Interrupted
        => UNCHANGED kept
  BY DEF Setup, Readable, DrainEnd, Publish, Check, Interrupted, kept
<1>5. Tick \/ Signal \/ UloopEnds \/ RecvFails \/ Done \/ UNCHANGED lvars => UNCHANGED kept
  BY DEF Tick, Signal, UloopEnds, RecvFails, Done, kept, lvars
<1> QED
  BY <1>1, <1>2, <1>3, <1>4, <1>5, KeptSInv DEF ListenNext, Loop

-----------------------------------------------------------------------------
(* Whatever is lost, damaged or interleaved on the wire, the broadcast     *)
(* frames wait in order and the clock that is fed --bcast-only stands at   *)
(* the newest of them handled, in either loop of run_listen.               *)
THEOREM ListenInvariant == ListenSpec => []SInv
<1>1. ListenInit => SInv
  BY InitSInv
<1>2. SInv /\ [ListenNext]_lvars => SInv'
  BY StepSInv
<1> QED
  BY <1>1, <1>2, PTL DEF ListenSpec

(* With g_bcast_only set, frame_wanted keeps the stage boxes' counters out *)
(* of the media clock: it reports exactly the broadcast frames that did    *)
(* not come through the socket.                                            *)
THEOREM DirectionsStayApart == ListenSpec => []DirectionsNeverMixed
<1>1. SInv => DirectionsNeverMixed
  BY DEF SInv, ClockFollows, DirectionsNeverMixed
<1> QED
  BY <1>1, ListenInvariant, PTL
===========================================================================
