---------------------------- MODULE ReplayProofs ----------------------------
(***************************************************************************)
(* Proofs about Replay, for every collection of capture files and every    *)
(* width of the counters.                                                  *)
(***************************************************************************)
EXTENDS Replay, ModArith, WellFoundedInduction

-----------------------------------------------------------------------------
(* The inductive invariants.  In every one of them last # Unset says that  *)
(* a frame of the present pass has been fed.                               *)

Rec(p)   == file.recs[p]
Size     == Len(file.recs)

(* The pass: all that was read before ps was harmless, and cur is the last *)
(* frame of it; before the first frame the last pass was complete.         *)
PassInv ==
  /\ file \in Files
  /\ ps \in 0 .. Size + 1 /\ cur \in 0 .. Size /\ prev \in 0 .. Size
  /\ cur # 0 => cur \in Playable
  /\ last # Unset => cur # 0 /\ last = Rec(cur).n % CounterMod
  /\ ps # NULL /\ ~asleep =>
       /\ \A q \in 1 .. ps - 1 : Rec(q).kind # "empty"
       /\ last # Unset => cur < ps /\ \A q \in Playable : q <= cur \/ q >= ps
       /\ last = Unset => /\ \A q \in Playable : q >= ps
                          /\ cur # 0 => \A q \in Playable : q <= cur

ReplayInv == PassInv /\ ReplaysInOrder

(* The pace of a pass, when all frames carry their capture times: the wall *)
(* clock counts from the first frame fed, which is the first playable one, *)
(* and is ahead of the frame with the latest time by MaxLate at most.      *)
AllTimed == \A p \in Playable : Rec(p).ts # 0

Since(p) == Rec(p).ts - first_ts

TempoInv ==
  AllTimed =>
    /\ last = Unset => wall = Unset
    /\ last # Unset =>
         /\ wall \in Nat /\ wall = pass
         /\ first_ts = Rec(Min(Playable)).ts
         /\ Since(cur) <= wall
         /\ \E p \in Playable : p <= cur /\ wall <= MaxLate + Since(p)

(* The wall clock runs from the first timed frame of a pass on, and a      *)
(* window is closed by the frame that fills it.                            *)
DriftTypes ==
  /\ wall \in Nat \cup {Unset} /\ first_ts \in Nat
  /\ last = Unset => wall = Unset
  /\ last # Unset /\ Rec(cur).ts # 0 => wall \in Nat
  /\ win.start \in Nat /\ win.frames \in Nat /\ win.start < Window
  /\ win.last = (IF cur = 0 THEN Unset ELSE Rec(cur).n % CounterMod)

(* A window of frames in their places has counted the frames of the        *)
(* capture since the one it began with, which was fed at its time and at   *)
(* most MaxLate later: a window begins with a frame that was waited for,   *)
(* or the first of a pass.  Those in between may come in a heap.           *)
WindowInv ==
  last # Unset /\ ~odd /\ Rec(cur).ts # 0 =>
    /\ begun \in Playable
    /\ win.frames = Rec(cur).n - Rec(begun).n
    /\ \E l \in 0 .. MaxLate : wall = Since(begun) + l + win.start

DriftInv == DriftTypes /\ WindowInv /\ DriftIsTheCaptures

-----------------------------------------------------------------------------
(* Least and greatest elements.                                            *)

(* A set of naturals has a least element: induction for what the induction *)
(* theorems cannot be instantiated with.                                   *)
LEMMA LeastNat ==
  ASSUME NEW S, S \subseteq Nat, S # {}
  PROVE  \E x \in S : \A y \in S : x <= y
<1> DEFINE R == OpToRel(<, Nat)
<1>1. IsWellFoundedOn(R, Nat)
  BY NatLessThanWellFounded
<1>2. \A x, y \in Nat : x < y => <<x, y>> \in R
  BY DEF OpToRel
<1> HIDE DEF R
<1>3. PICK x \in S : \A y \in S : ~ (<<y, x>> \in R)
  BY <1>1, WFMin
<1>4. \A y \in S : ~(y < x)
  BY <1>2, <1>3, Zenon
<1>5. \A y \in S : x <= y
  BY <1>4
<1> QED
  BY <1>5

LEMMA MinNat ==
  ASSUME NEW S, S \subseteq Nat, S # {}
  PROVE  Min(S) \in S /\ \A y \in S : Min(S) <= y
BY LeastNat DEF Min

(* What is least is the minimum.                                           *)
LEMMA MinIs ==
  ASSUME NEW S, S \subseteq Nat, NEW x \in S, \A y \in S : x <= y
  PROVE  Min(S) = x
<1> DEFINE m == Min(S)
<1>1. m \in S /\ \A y \in S : m <= y
  BY MinNat
<1> HIDE DEF m
<1>2. m = x
  BY <1>1
<1> QED
  BY <1>2 DEF m

(* A bounded set of integers has a greatest element.                       *)
LEMMA MaxBounded ==
  ASSUME NEW S, S \subseteq Int, S # {}, NEW b \in Int, \A x \in S : x <= b
  PROVE  Max(S) \in S /\ \A y \in S : y <= Max(S)
<1> DEFINE T == {b - x : x \in S}
<1>1. T \subseteq Nat /\ T # {}
  <2>1. \A x \in S : b - x \in Nat
    OBVIOUS
  <2>2. PICK x \in S : TRUE
    OBVIOUS
  <2>3. b - x \in T
    OBVIOUS
  <2> QED
    BY <2>1, <2>3
<1>2. PICK t \in T : \A u \in T : t <= u
  BY <1>1, LeastNat
<1>3. PICK m \in S : t = b - m
  OBVIOUS
<1>4. ASSUME NEW y \in S PROVE m >= y
  <2>1. b - m <= b - y
    BY <1>2, <1>3
  <2> QED
    BY <2>1
<1> QED
  BY <1>4 DEF Max

LEMMA MaxOfTwo ==
  ASSUME NEW a \in Int, NEW b \in Int
  PROVE  Max({a, b}) = IF a >= b THEN a ELSE b
<1>1. CASE a >= b
  <2>1. \A x \in {a, b} : x <= a
    BY <1>1
  <2>2. Max({a, b}) \in {a, b} /\ \A y \in {a, b} : y <= Max({a, b})
    BY <2>1, MaxBounded
  <2> QED
    BY <2>2, <1>1
<1>2. CASE ~(a >= b)
  <2>1. \A x \in {a, b} : x <= b
    BY <1>2
  <2>2. Max({a, b}) \in {a, b} /\ \A y \in {a, b} : y <= Max({a, b})
    BY <2>1, MaxBounded
  <2> QED
    BY <2>2, <1>2
<1> QED
  BY <1>1, <1>2

-----------------------------------------------------------------------------
(* The capture file and its reader.                                        *)

LEMMA FileFacts ==
  ASSUME file \in Files
  PROVE  /\ Size \in Nat
         /\ \A p \in 1 .. Size : /\ Rec(p).kind \in Kinds
                                 /\ Rec(p).n \in Nat /\ Rec(p).ts \in Nat
                                 /\ Rec(p).kind = "cut" => p = Size
         /\ Playable \subseteq 1 .. Size /\ Playable \subseteq Nat
<1> DEFINE Records == [kind : Kinds, n : Nat, ts : Nat]
<1>1. file.recs \in Seq(Records)
  BY FilesAssumption
<1> HIDE DEF Records
<1>2. Size \in Nat /\ DOMAIN file.recs = 1 .. Size
  BY <1>1 DEF Size
<1>3. \A p \in 1 .. Size : file.recs[p] \in Records
  BY <1>1 DEF Size
<1>4. \A p \in 1 .. Size : file.recs[p].kind = "cut" => p = Size
  BY FilesAssumption DEF Size
<1>5. Playable \subseteq 1 .. Size
  BY <1>2 DEF Playable
<1> QED
  BY <1>2, <1>3, <1>4, <1>5 DEF Rec, Records

(* Where a call stops, if the file holds another record that fits: all it  *)
(* passed over did not.                                                    *)
LEMMA StopAt ==
  ASSUME file \in Files, ps \in Nat \ {0}, Whole(file, ps) # {}
  PROVE  /\ Stop(file, ps) \in ps .. Size
         /\ Rec(Stop(file, ps)).kind # "big"
         /\ \A q \in ps .. Stop(file, ps) - 1 : Rec(q).kind = "big"
<1> DEFINE W == Whole(file, ps)
           s == Stop(file, ps)
<1>1. Size \in Nat
  BY FileFacts
<1>2. W = {p \in ps .. Size : Rec(p).kind # "big"}
  BY DEF Whole, Size, Rec
<1>3. s = Min(W)
  BY DEF Stop
<1>4. W \subseteq Nat
  BY <1>1, <1>2
<1> HIDE DEF W, s
<1>5. s \in W /\ \A y \in W : s <= y
  BY <1>3, <1>4, MinNat DEF W
<1>6. s \in ps .. Size /\ Rec(s).kind # "big"
  BY <1>2, <1>5
<1>7. ASSUME NEW q \in ps .. s - 1
      PROVE  Rec(q).kind = "big"
  <2>1. q \in ps .. Size /\ q < s
    BY <1>1, <1>6
  <2>2. q \notin W
    <3>1. s \in Int /\ q \in Int /\ ~(s <= q)
      BY <2>1, <1>1, <1>6
    <3> QED
      BY <3>1, <1>5
  <2> QED
    BY <1>2, <2>1, <2>2
<1> QED
  BY <1>6, <1>7 DEF s

LEMMA AnswerCases ==
  LET s == Stop(file, ps)
  IN  /\ Answer(file, ps) = "record" =>
           ps # NULL /\ Whole(file, ps) # {} /\ Rec(s).kind \notin {"empty", "cut"}
      /\ Answer(file, ps) = "eof" =>
           ps # NULL /\ (Whole(file, ps) # {} => Rec(s).kind = "empty")
      /\ Answer(file, ps) = "error" /\ ps # NULL =>
           Whole(file, ps) # {} /\ Rec(s).kind = "cut"
BY DEF Answer, Stop, Rec

(* Records before ps are neither empty nor, if others follow, cut off.     *)
LEMMA FrameIsPlayable ==
  ASSUME PassInv, ~asleep, Answer(file, ps) = "record", Rec(Stop(file, ps)).kind = "frame"
  PROVE  /\ Stop(file, ps) \in Playable
         /\ \A q \in Playable : q >= ps => q >= Stop(file, ps)
<1> DEFINE s == Stop(file, ps)
<1>1. file \in Files /\ ps \in Nat \ {0} /\ Whole(file, ps) # {}
  <2>1. file \in Files /\ ps \in 0 .. Size + 1
    BY DEF PassInv
  <2> QED
    BY <2>1, AnswerCases, FileFacts DEF NULL
<1>2. /\ s \in ps .. Size
      /\ \A q \in ps .. s - 1 : Rec(q).kind = "big"
  BY <1>1, StopAt
<1>3. \A q \in 1 .. ps - 1 : Rec(q).kind # "empty"
  BY <1>1 DEF PassInv, NULL
<1>4. Size \in Nat /\ \A p \in 1 .. Size : Rec(p).kind = "cut" => p = Size
  BY <1>1, FileFacts
<1>5. Rec(s).kind = "frame"
  OBVIOUS
<1> HIDE DEF s
<1>6. ASSUME NEW q \in 1 .. s - 1
      PROVE  Rec(q).kind \notin {"empty", "cut"}
  <2>1. q \in 1 .. Size /\ q # Size
    BY <1>1, <1>2, <1>4
  <2>2. q \in 1 .. ps - 1 \/ q \in ps .. s - 1
    BY <1>1, <1>2
  <2> QED
    BY <2>1, <2>2, <1>2, <1>3, <1>4
<1>7. s \in DOMAIN file.recs
  <2>1. DOMAIN file.recs = 1 .. Size
    BY <1>1, FilesAssumption DEF Size
  <2> QED
    BY <2>1, <1>1, <1>2
<1>8. s \in Playable
  BY <1>5, <1>6, <1>7 DEF Playable, Rec
<1>9. ASSUME NEW q \in Playable, q >= ps
      PROVE  q >= s
  <2>1. Rec(q).kind = "frame" /\ q \in Nat
    BY <1>1, FileFacts DEF Playable, Rec
  <2> QED
    BY <2>1, <1>1, <1>2, <1>9
<1> QED
  BY <1>8, <1>9 DEF s

(* At the end nothing playable is left behind ps.                          *)
LEMMA EofIsEnd ==
  ASSUME PassInv, Answer(file, ps) = "eof"
  PROVE  ps # NULL /\ \A q \in Playable : q < ps
<1> DEFINE s == Stop(file, ps)
<1>1. file \in Files /\ ps \in Nat \ {0} /\ (Whole(file, ps) # {} => Rec(s).kind = "empty")
  <2>1. file \in Files /\ ps \in 0 .. Size + 1
    BY DEF PassInv
  <2> QED
    BY <2>1, AnswerCases, FileFacts DEF NULL
<1>2. ASSUME NEW q \in Playable, q >= ps
      PROVE  FALSE
  <2>1. q \in 1 .. Size /\ Rec(q).kind = "frame" /\ Size \in Nat
    BY <1>1, FileFacts DEF Playable, Rec
  <2>2. q \in Whole(file, ps)
    BY <2>1, <1>1, <1>2 DEF Whole, Size, Rec
  <2>3. /\ s \in ps .. Size /\ Rec(s).kind = "empty"
        /\ \A k \in ps .. s - 1 : Rec(k).kind = "big"
    BY <2>2, <1>1, StopAt
  <2> HIDE DEF s
  <2>4. s < q
    <3>1. q # s /\ ~(q \in ps .. s - 1)
      BY <2>1, <2>3
    <3> QED
      BY <3>1, <2>1, <2>3, <1>1, <1>2
  <2>5. s \in 1 .. q - 1
    BY <2>1, <2>3, <2>4, <1>1
  <2> QED
    BY <2>3, <2>5 DEF Playable, Rec
<1>3. \A q \in Playable : q \in Nat
  BY <1>1, FileFacts
<1> QED
  BY <1>1, <1>2, <1>3 DEF NULL

-----------------------------------------------------------------------------
(* The frames are fed in order.                                            *)

LEMMA InitReplay == Init => ReplayInv
<1> SUFFICES ASSUME Init PROVE ReplayInv
  OBVIOUS
<1>1. file \in Files /\ ps = 1 /\ cur = 0 /\ prev = 0 /\ last = Unset /\ gap = 0
  BY DEF Init, pcap_source_open, NULL
<1>2. Size \in Nat /\ Playable \subseteq 1 .. Size
  BY <1>1, FileFacts
<1>3. PassInv
  BY <1>1, <1>2 DEF PassInv
<1>4. ReplaysInOrder
  BY <1>1 DEF ReplaysInOrder
<1> QED
  BY <1>3, <1>4 DEF ReplayInv

LEMMA KeptReplay ==
  ASSUME ReplayInv, UNCHANGED <<file, last, gap, cur, prev>>,
         UNCHANGED <<ps, asleep>> \/ (asleep' = TRUE /\ ps' \in 0 .. Size + 1)
  PROVE  ReplayInv'
<1>1. Playable' = Playable
  BY DEF Playable
<1>2. PassInv'
  BY <1>1 DEF ReplayInv, PassInv, Rec, Size
<1>3. ReplaysInOrder'
  BY <1>1 DEF ReplayInv, ReplaysInOrder, Behind
<1> QED
  BY <1>2, <1>3 DEF ReplayInv

(* What Frame does to the loop, apart from the time.                       *)
LEMMA FrameStep ==
  ASSUME PassInv, Frame
  PROVE  LET s == Stop(file, ps)
         IN  /\ file' = file /\ Playable' = Playable /\ ~asleep
             /\ ps # NULL /\ ps \in 1 .. Size + 1 /\ s \in ps .. Size /\ s \in Playable
             /\ \A q \in Playable : q >= ps => q >= s
             /\ ps' = s + 1 /\ cur' = s /\ prev' = cur
             /\ last' = Rec(s).n % CounterMod /\ last' \in 0 .. CounterMod - 1
             /\ gap' = IF last = Unset THEN 0 ELSE reac_counter_gap(last, Rec(s).n % CounterMod)
<1> DEFINE s == Stop(file, ps)
<1>1. ~asleep /\ Answer(file, ps) = "record" /\ Rec(s).kind = "frame"
  BY DEF Frame, Rec
<1>2. file \in Files /\ ps \in 0 .. Size + 1 /\ Size \in Nat
  BY FileFacts DEF PassInv
<1>3. ps # NULL /\ ps \in 1 .. Size + 1 /\ Whole(file, ps) # {}
  BY <1>1, <1>2, AnswerCases DEF NULL
<1>4. s \in ps .. Size
  BY <1>2, <1>3, StopAt
<1>5. s \in Playable /\ \A q \in Playable : q >= ps => q >= s
  BY <1>1, FrameIsPlayable
<1>6. ps' = s + 1
  <2>1. ps' = pcap_source_next(file, ps)
    BY DEF Frame
  <2>2. ~(s > Len(file.recs))
    BY <1>2, <1>3, <1>4 DEF Size
  <2> QED
    BY <2>1, <2>2, <1>3 DEF pcap_source_next
<1>7. file' = file /\ Playable' = Playable
  BY DEF Frame, Playable
<1>8. /\ cur' = s /\ prev' = cur /\ last' = Rec(s).n % CounterMod
      /\ gap' = IF last = Unset THEN 0 ELSE reac_counter_gap(last, Rec(s).n % CounterMod)
  BY DEF Frame, Rec
<1>9. last' \in 0 .. CounterMod - 1
  <2>1. Rec(s).n \in Int
    BY <1>2, <1>3, <1>4, FileFacts
  <2>2. CounterMod \in Nat \ {0}
    BY ReplayAssumption
  <2> QED
    BY <2>1, <2>2, <1>8, DivMod
<1> QED
  BY <1>1, <1>3, <1>4, <1>5, <1>6, <1>7, <1>8, <1>9

LEMMA FrameReplay ==
  ASSUME ReplayInv, Frame
  PROVE  ReplayInv'
<1> DEFINE s == Stop(file, ps)
<1>1. PassInv /\ ReplaysInOrder
  BY DEF ReplayInv
<1>2. /\ file' = file /\ Playable' = Playable /\ ~asleep
      /\ ps # NULL /\ ps \in 1 .. Size + 1 /\ s \in ps .. Size /\ s \in Playable
      /\ \A q \in Playable : q >= ps => q >= s
      /\ ps' = s + 1 /\ cur' = s /\ prev' = cur
      /\ last' = Rec(s).n % CounterMod /\ last' \in 0 .. CounterMod - 1
      /\ gap' = IF last = Unset THEN 0 ELSE reac_counter_gap(last, Rec(s).n % CounterMod)
  BY <1>1, FrameStep
<1>3. /\ file \in Files /\ Size \in Nat /\ cur \in 0 .. Size
      /\ Playable \subseteq 1 .. Size /\ Playable \subseteq Nat
      /\ \A p \in 1 .. Size : Rec(p).n \in Nat
  BY <1>1, FileFacts DEF PassInv
<1>4. CounterMod \in Nat \ {0}
  BY ReplayAssumption
<1> HIDE DEF s
<1>5. /\ last # Unset => /\ cur # 0 /\ cur < ps /\ last = Rec(cur).n % CounterMod
                         /\ \A q \in Playable : q <= cur \/ q >= ps
      /\ last = Unset => /\ \A q \in Playable : q >= ps
                         /\ cur # 0 => \A q \in Playable : q <= cur
  BY <1>1, <1>2 DEF PassInv
<1>6. PassInv'
  <2>1. \A q \in 1 .. s : Rec(q).kind # "empty"
    <3>1. \A q \in 1 .. s - 1 : Rec(q).kind # "empty"
      BY <1>2 DEF Playable, Rec
    <3>2. Rec(s).kind = "frame"
      BY <1>2 DEF Playable, Rec
    <3>3. \A q \in 1 .. s : q = s \/ q \in 1 .. s - 1
      BY <1>2, <1>3
    <3> QED
      BY <3>1, <3>2, <3>3
  <2>2. s \in 1 .. Size /\ s + 1 \in 0 .. Size + 1 /\ s + 1 - 1 = s
    BY <1>2, <1>3
  <2>3. last' # Unset
    BY <1>2, <1>4 DEF Unset
  <2>4. \A q \in Playable : q <= s \/ q >= s + 1
    BY <1>3, <2>2
  <2>5. s \in 0 .. Size /\ s # 0 /\ s < s + 1
    BY <2>2
  <2>6. Size' = Size
    BY <1>2 DEF Size
  <2>7. file' \in Files /\ ps' \in 0 .. Size' + 1 /\ cur' \in 0 .. Size' /\ prev' \in 0 .. Size'
    BY <1>2, <1>3, <2>2, <2>5, <2>6
  <2>8. last' = Rec(cur)'.n % CounterMod
    BY <1>2 DEF Rec
  <2>9. \A q \in 1 .. ps' - 1 : Rec(q)'.kind # "empty"
    BY <1>2, <2>1, <2>2 DEF Rec
  <2> QED
    BY <1>2, <2>3, <2>4, <2>5, <2>7, <2>8, <2>9 DEF PassInv
<1>7. ReplaysInOrder'
  <2>1. s \in Nat \ {0} /\ cur \in Nat /\ Behind(cur) \subseteq Nat
    <3>1. Behind(cur) \subseteq Playable
      BY DEF Behind
    <3>2. Behind(cur) \subseteq Nat
      BY <3>1, <1>3, Zenon
    <3>3. s \in Nat \ {0} /\ cur \in Nat
      BY <1>2, <1>3
    <3> QED
      BY <3>2, <3>3
  <2>2. \A p : Behind(p)' = Behind(p)
    BY <1>2 DEF Behind
  <2>3. CASE last # Unset
    <3>1. s \in Behind(cur) /\ \A y \in Behind(cur) : s <= y
      BY <1>2, <1>3, <1>5, <2>1, <2>3 DEF Behind
    <3>2. Min(Behind(cur)) = s
      BY <3>1, <2>1, MinIs
    <3>3. ASSUME Rec(s).n - Rec(cur).n - 1 \in 0 .. CounterMod - 1
          PROVE  gap' = Rec(s).n - Rec(cur).n - 1
      <4>1. Rec(s).n \in Int /\ Rec(cur).n \in Int
        BY <1>2, <1>3, <1>5, <2>1, <2>3
      <4>2. Rec(s).n - Rec(cur).n \in 1 .. CounterMod
        BY <3>3, <4>1, <1>4
      <4> QED
        BY <4>1, <4>2, <1>2, <1>4, <1>5, <2>3, CounterDistance DEF reac_counter_gap
    <3>4. cur # 0 /\ s > cur
      BY <1>2, <1>3, <1>5, <2>1, <2>3
    <3> QED
      BY <3>1, <3>2, <3>3, <3>4, <1>2, <2>1 DEF ReplaysInOrder, Rec, Behind
  <2>4. CASE last = Unset
    <3>1. gap' = 0
      BY <1>2, <2>4
    <3>2. Min(Playable) = s
      BY <1>2, <1>3, <1>5, <2>4, MinIs
    <3>3. cur # 0 => Behind(cur) = {} /\ s <= cur
      BY <1>2, <1>3, <1>5, <2>1, <2>4 DEF Behind
    <3> QED
      BY <3>1, <3>2, <3>3, <1>2 DEF ReplaysInOrder, Behind
  <2> QED
    BY <2>3, <2>4
<1> QED
  BY <1>6, <1>7 DEF ReplayInv

(* Another packet, or the end of a file that is cut off, is no frame.      *)
LEMMA NoFrameReplay ==
  ASSUME ReplayInv, NoFrame
  PROVE  ReplayInv'
<1> DEFINE s == Stop(file, ps)
<1>1. PassInv /\ ReplaysInOrder
  BY DEF ReplayInv
<1>2. /\ file' = file /\ Playable' = Playable /\ last' = last /\ gap' = gap
      /\ cur' = cur /\ prev' = prev /\ ps' = pcap_source_next(file, ps)
  BY DEF NoFrame, Playable
<1>3. /\ file \in Files /\ Size \in Nat /\ ps \in 0 .. Size + 1 /\ cur \in 0 .. Size
      /\ Playable \subseteq 1 .. Size /\ Playable \subseteq Nat
  BY <1>1, FileFacts DEF PassInv
<1>4. ReplaysInOrder'
  BY <1>1, <1>2 DEF ReplaysInOrder, Behind
<1>5. CASE ps = NULL
  <2>1. ps' = ps
    BY <1>2, <1>5 DEF pcap_source_next
  <2> QED
    BY <2>1, <1>2, KeptReplay DEF NoFrame
<1>6. CASE ps # NULL
  <2>1. /\ Whole(file, ps) # {} /\ Rec(s).kind \in {"other", "cut"} /\ ps \in Nat \ {0}
    BY <1>3, <1>6, AnswerCases DEF NoFrame, Rec, NULL
  <2>2. s \in ps .. Size /\ \A q \in ps .. s - 1 : Rec(q).kind = "big"
    BY <1>3, <2>1, StopAt
  <2>3. ps' = s + 1
    <3>1. ~(s > Len(file.recs))
      BY <1>3, <2>1, <2>2 DEF Size
    <3> QED
      BY <3>1, <1>2, <1>6 DEF pcap_source_next
  <2> HIDE DEF s
  <2>4. ASSUME NEW q \in ps .. s
        PROVE  Rec(q).kind \notin {"empty", "frame"}
    <3>1. q = s \/ q \in ps .. s - 1
      BY <2>1, <2>2
    <3> QED
      BY <3>1, <2>1, <2>2
  <2>5. ASSUME NEW q \in Playable
        PROVE  q \in Nat /\ (q >= ps => q >= s + 1)
    <3>1. q \in Nat /\ Rec(q).kind = "frame"
      BY <1>3 DEF Playable, Rec
    <3>2. ~(q \in ps .. s)
      BY <2>4, <3>1
    <3> QED
      BY <3>1, <3>2, <2>1, <2>2, <1>3
  <2>6. /\ \A q \in 1 .. ps - 1 : Rec(q).kind # "empty"
        /\ last # Unset => cur < ps /\ \A q \in Playable : q <= cur \/ q >= ps
        /\ last = Unset => /\ \A q \in Playable : q >= ps
                           /\ cur # 0 => \A q \in Playable : q <= cur
    <3>1. ~asleep
      BY DEF NoFrame
    <3> QED
      BY <3>1, <1>1, <1>6 DEF PassInv
  <2>7. \A q \in 1 .. s : Rec(q).kind # "empty"
    <3>1. \A q \in 1 .. s : q \in 1 .. ps - 1 \/ q \in ps .. s
      BY <1>3, <2>1, <2>2
    <3> QED
      BY <3>1, <2>4, <2>6
  <2>8. s + 1 \in 0 .. Size + 1 /\ s + 1 - 1 = s /\ ps < s + 1
    BY <1>3, <2>1, <2>2
  <2>9. last # Unset => cur < s + 1 /\ \A q \in Playable : q <= cur \/ q >= s + 1
    BY <2>5, <2>6, <2>8, <2>1, <2>2, <1>3
  <2>10. last = Unset => /\ \A q \in Playable : q >= s + 1
                         /\ cur # 0 => \A q \in Playable : q <= cur
    BY <2>5, <2>6
  <2>11. Size' = Size /\ Rec(cur)' = Rec(cur)
    BY <1>2 DEF Size, Rec
  <2>12. /\ prev \in 0 .. Size
         /\ cur # 0 => cur \in Playable
         /\ last # Unset => cur # 0 /\ last = Rec(cur).n % CounterMod
    BY <1>1 DEF PassInv
  <2>13. \A q \in 1 .. ps' - 1 : Rec(q)'.kind # "empty"
    <3>1. ps' - 1 = s
      BY <1>3, <2>1, <2>2, <2>3
    <3> QED
      BY <3>1, <1>2, <2>7 DEF Rec
  <2>14. file' \in Files /\ ps' \in 0 .. Size' + 1 /\ cur' \in 0 .. Size' /\ prev' \in 0 .. Size'
    BY <1>2, <1>3, <2>3, <2>8, <2>11, <2>12
  <2>15. /\ cur' # 0 => cur' \in Playable'
         /\ last' # Unset => cur' # 0 /\ last' = Rec(cur)'.n % CounterMod
    BY <1>2, <2>11, <2>12
  <2>16. /\ last' # Unset => cur' < ps' /\ \A q \in Playable' : q <= cur' \/ q >= ps'
         /\ last' = Unset => /\ \A q \in Playable' : q >= ps'
                             /\ cur' # 0 => \A q \in Playable' : q <= cur'
    BY <1>2, <2>3, <2>9, <2>10
  <2>17. PassInv'
    BY <2>13, <2>14, <2>15, <2>16 DEF PassInv
  <2> QED
    BY <2>17, <1>4 DEF ReplayInv
<1> QED
  BY <1>5, <1>6

(* The next pass begins, or the file is gone.                              *)
LEMMA RewindReplay ==
  ASSUME ReplayInv, Rewind
  PROVE  ReplayInv'
<1>1. PassInv /\ ReplaysInOrder
  BY DEF ReplayInv
<1>2. /\ file' = file /\ Playable' = Playable /\ last' = Unset /\ gap' = gap
      /\ cur' = cur /\ prev' = prev /\ ps' \in {0, 1}
  BY DEF Rewind, Playable, pcap_source_open, NULL
<1>3. /\ file \in Files /\ Size \in Nat /\ cur \in 0 .. Size /\ prev \in 0 .. Size
      /\ Playable \subseteq 1 .. Size /\ Playable \subseteq Nat /\ ps \in 0 .. Size + 1
      /\ cur # 0 => cur \in Playable
  BY <1>1, FileFacts DEF PassInv
<1>4. ps # NULL /\ ~asleep /\ \A q \in Playable : q < ps
  BY <1>1, EofIsEnd DEF Rewind
<1>5. cur # 0 => \A q \in Playable : q <= cur
  BY <1>1, <1>3, <1>4 DEF PassInv
<1>6. \A q \in Playable : q >= 1
  BY <1>3
<1>7. Size' = Size /\ \A p : file'.recs[p] = Rec(p)
  BY <1>2 DEF Size, Rec
<1>8. ps' \in 0 .. Size + 1 /\ ~(\E q \in 1 .. ps' - 1 : TRUE)
  <2>1. CASE ps' = 0
    BY <2>1, <1>3
  <2>2. CASE ps' = 1
    BY <2>2, <1>3
  <2> QED
    BY <2>1, <2>2, <1>2
<1>9. PassInv'
  BY <1>2, <1>3, <1>5, <1>6, <1>7, <1>8 DEF PassInv, Rec, NULL
<1>10. ReplaysInOrder'
  BY <1>1, <1>2 DEF ReplaysInOrder, Behind
<1> QED
  BY <1>9, <1>10 DEF ReplayInv

LEMMA StepReplay ==
  ASSUME ReplayInv, [Next]_vars
  PROVE  ReplayInv'
<1>1. Remove \/ Process \/ (\E p \in Ports : on_io_changed(p)) \/ UNCHANGED vars
        => UNCHANGED <<file, ps, asleep, last, gap, cur, prev>>
  BY DEF Remove, Process, on_io_changed, vars, loopVars
<1>2. ASSUME Oversleep
      PROVE  /\ UNCHANGED <<file, last, gap, cur, prev>> /\ asleep' = TRUE
             /\ ps' \in 0 .. Size + 1
  <2>1. file \in Files /\ ps \in 0 .. Size + 1 /\ Size \in Nat
    BY FileFacts DEF ReplayInv, PassInv
  <2>2. Answer(file, ps) = "record" /\ ps' = pcap_source_next(file, ps)
    BY <1>2 DEF Oversleep
  <2>3. ps # NULL /\ ps \in 1 .. Size + 1 /\ Whole(file, ps) # {}
    BY <2>1, <2>2, AnswerCases DEF NULL
  <2>4. Stop(file, ps) \in ps .. Size
    BY <2>1, <2>3, StopAt
  <2>5. ps' = Stop(file, ps) + 1
    BY <2>1, <2>2, <2>3, <2>4 DEF pcap_source_next, Size
  <2> QED
    BY <2>1, <2>3, <2>4, <2>5, <1>2 DEF Oversleep
<1> QED
  BY <1>1, <1>2, KeptReplay, FrameReplay, NoFrameReplay, RewindReplay DEF Next, Turn

(* rx_loop's place in the file: every record passed over was harmless, and *)
(* a file is wound back only after all its frames were fed.                *)
THEOREM ReplayInvariant == Spec => []ReplayInv
<1>1. Init => ReplayInv
  BY InitReplay
<1>2. ReplayInv /\ [Next]_vars => ReplayInv'
  BY StepReplay
<1> QED
  BY <1>1, <1>2, PTL DEF Spec

(* Whatever the records between them, rx_loop feeds the frames of every    *)
(* capture in order and begins again with the first, and the gaps it       *)
(* counts are the capture's.                                               *)
THEOREM EveryReplayInOrder == Spec => []ReplaysInOrder
<1>1. ReplayInv => ReplaysInOrder
  BY DEF ReplayInv
<1> QED
  BY <1>1, ReplayInvariant, PTL

-----------------------------------------------------------------------------
(* The pace.                                                               *)

(* The first frame of a pass is the first the file has.                    *)
LEMMA FirstOfPass ==
  ASSUME PassInv, Frame, last = Unset
  PROVE  Stop(file, ps) = Min(Playable)
<1> DEFINE s == Stop(file, ps)
<1>1. /\ s \in Playable /\ ps # NULL /\ ~asleep
      /\ \A q \in Playable : q >= ps => q >= s
  BY FrameStep
<1>2. \A q \in Playable : q >= ps
  BY <1>1 DEF PassInv
<1>3. Playable \subseteq Nat
  BY FileFacts DEF PassInv
<1> HIDE DEF s
<1>4. \A q \in Playable : s <= q
  BY <1>1, <1>2, <1>3
<1>5. Min(Playable) = s
  BY <1>1, <1>3, <1>4, MinIs
<1> QED
  BY <1>5 DEF s

LEMMA WaitsForFirst ==
  ASSUME wall = Unset, NEW ts \in Nat \ {0}, NEW d \in Waits(ts)
  PROVE  d \in 0 .. MaxLate
<1>1. MaxLate \in Nat
  BY ReplayAssumption
<1>2. Waits(ts) = Max({0, 0}) - 0 .. Max({0, 0 + MaxLate}) - 0
  BY DEF Waits
<1>3. Max({0, 0}) = 0 /\ Max({0, 0 + MaxLate}) = MaxLate
  BY <1>1, MaxOfTwo
<1> QED
  BY <1>1, <1>2, <1>3

(* Later ones are fed when their time has come, and soon after, or at once *)
(* when it is over.                                                        *)
LEMMA WaitsForTime ==
  ASSUME wall \in Nat, first_ts \in Nat, NEW ts \in Nat \ {0}, NEW d \in Waits(ts)
  PROVE  /\ d \in Nat /\ ts - first_ts <= wall + d
         /\ d = 0 \/ wall + d <= ts - first_ts + MaxLate
<1> DEFINE target == ts - first_ts
           early == Max({wall, target})
           late  == Max({wall, target + MaxLate})
<1>1. MaxLate \in Nat /\ target \in Int /\ wall # Unset
  BY ReplayAssumption DEF Unset
<1>2. d \in early - wall .. late - wall
  BY <1>1 DEF Waits
<1>3. /\ early = IF wall >= target THEN wall ELSE target
      /\ late = IF wall >= target + MaxLate THEN wall ELSE target + MaxLate
  BY <1>1, MaxOfTwo
<1> HIDE DEF early, late
<1>4. early \in Int /\ late \in Int
  BY <1>1, <1>3
<1> QED
  BY <1>1, <1>2, <1>3, <1>4

LEMMA InitTempo == Init => TempoInv
BY DEF Init, TempoInv

LEMMA KeptTempo ==
  ASSUME TempoInv, UNCHANGED <<file, wall, first_ts, last, cur, pass>>
  PROVE  TempoInv'
<1>1. Playable' = Playable
  BY DEF Playable
<1> QED
  BY <1>1 DEF TempoInv, AllTimed, Since, Rec

LEMMA FrameTempo ==
  ASSUME PassInv, TempoInv, Frame
  PROVE  TempoInv'
<1> DEFINE s == Stop(file, ps)
           ts == Rec(s).ts
<1>1. /\ file' = file /\ Playable' = Playable /\ cur' = s /\ s \in Playable
      /\ last' \in 0 .. CounterMod - 1 /\ ps # NULL /\ ~asleep
      /\ s >= ps /\ ps \in Nat /\ s \in Nat
  BY FrameStep, FileFacts DEF PassInv
<1>2. /\ Playable \subseteq 1 .. Size /\ Playable \subseteq Nat
      /\ \A p \in 1 .. Size : Rec(p).ts \in Nat
  BY FileFacts DEF PassInv
<1>3. last' # Unset
  BY <1>1, ReplayAssumption DEF Unset
<1> SUFFICES ASSUME AllTimed'
             PROVE  /\ wall' \in Nat /\ wall' = pass'
                    /\ first_ts' = Rec(Min(Playable)).ts
                    /\ ts - first_ts' <= wall'
                    /\ \E p \in Playable : p <= s /\ wall' <= MaxLate + (Rec(p).ts - first_ts')
  BY <1>1, <1>3 DEF TempoInv, Since, Rec
<1>4. AllTimed
  BY <1>1 DEF AllTimed, Rec
<1>5. ts \in Nat \ {0}
  BY <1>1, <1>2, <1>4 DEF AllTimed
<1>6. PICK d \in Waits(ts) :
        /\ wall' = IF wall # Unset THEN wall + d ELSE IF ts # 0 THEN d ELSE Unset
        /\ pass' = IF last # Unset THEN pass + d ELSE d
  BY DEF Frame, Rec
<1>7. first_ts' = IF wall = Unset /\ ts # 0 THEN ts ELSE first_ts
  BY DEF Frame, Rec
<1>8. MaxLate \in Nat
  BY ReplayAssumption
<1>9. CASE last = Unset
  <2>1. wall = Unset
    BY <1>4, <1>9 DEF TempoInv
  <2>2. s = Min(Playable)
    BY <1>9, FirstOfPass
  <2> HIDE DEF s
  <2>3. d \in 0 .. MaxLate
    BY <2>1, <1>5, WaitsForFirst
  <2>4. wall' = d /\ pass' = d /\ first_ts' = ts
    BY <2>1, <1>5, <1>6, <1>7, <1>9
  <2>5. s <= s /\ ts - first_ts' = 0
    BY <2>4, <1>1, <1>5
  <2> QED
    BY <2>2, <2>3, <2>4, <2>5, <1>1, <1>8
<1>10. CASE last # Unset
  <2>1. /\ wall \in Nat /\ wall = pass /\ first_ts = Rec(Min(Playable)).ts
        /\ \E p \in Playable : p <= cur /\ wall <= MaxLate + (Rec(p).ts - first_ts)
    BY <1>4, <1>10 DEF TempoInv, Since
  <2>2. first_ts \in Nat
    <3>1. Min(Playable) \in Playable
      BY <1>1, <1>2, MinNat
    <3> QED
      BY <3>1, <2>1, <1>2
  <2> HIDE DEF s
  <2>3. /\ d \in Nat /\ ts - first_ts <= wall + d
        /\ d = 0 \/ wall + d <= ts - first_ts + MaxLate
    BY <2>1, <2>2, <1>5, WaitsForTime
  <2>4. wall' = wall + d /\ pass' = pass + d /\ first_ts' = first_ts
    BY <2>1, <1>6, <1>7, <1>10 DEF Unset
  <2>5. cur < ps /\ cur \in Nat
    BY <1>1, <1>10, FileFacts DEF PassInv
  <2>6. \E p \in Playable : p <= s /\ wall' <= MaxLate + (Rec(p).ts - first_ts')
    <3>1. CASE d = 0
      <4>1. PICK p \in Playable : p <= cur /\ wall <= MaxLate + (Rec(p).ts - first_ts)
        BY <2>1
      <4>2. p <= s /\ wall' = wall
        BY <4>1, <3>1, <2>1, <2>4, <2>5, <1>1, <1>2
      <4> QED
        BY <4>1, <4>2, <2>4
    <3>2. CASE wall + d <= ts - first_ts + MaxLate
      <4>1. s <= s /\ wall' <= MaxLate + (Rec(s).ts - first_ts')
        BY <3>2, <2>4, <2>2, <1>1, <1>5, <1>8
      <4> QED
        BY <4>1, <1>1
    <3> QED
      BY <3>1, <3>2, <2>3
  <2> QED
    BY <2>1, <2>3, <2>4, <2>6
<1> QED
  BY <1>9, <1>10

LEMMA StepTempo ==
  ASSUME ReplayInv, TempoInv, [Next]_vars
  PROVE  TempoInv'
<1>1. (\/ NoFrame \/ Oversleep \/ Remove \/ Process
       \/ (\E p \in Ports : on_io_changed(p)) \/ UNCHANGED vars)
        => UNCHANGED <<file, wall, first_ts, last, cur, pass>>
  BY DEF NoFrame, Oversleep, Remove, Process, on_io_changed, vars, loopVars
<1>2. Rewind => TempoInv'
  BY DEF Rewind, TempoInv
<1> QED
  BY <1>1, <1>2, KeptTempo, FrameTempo DEF Next, Turn, ReplayInv

(* The capture times of a file have a largest one: a first record beyond   *)
(* every bound would follow records that have one.                         *)
LEMMA TimesBounded ==
  ASSUME file \in Files
  PROVE  \E b \in Nat : \A p \in 1 .. Size : Rec(p).ts <= b
<1> DEFINE Bounded(k) == \E b \in Nat : \A p \in 1 .. k : Rec(p).ts <= b
           U == {k \in 0 .. Size : ~Bounded(k)}
<1>1. Size \in Nat /\ \A p \in 1 .. Size : Rec(p).ts \in Nat
  BY FileFacts
<1>2. Bounded(0)
  <2>1. \A p \in 1 .. 0 : Rec(p).ts <= 0
    OBVIOUS
  <2> QED
    BY <2>1
<1>3. ASSUME NEW k \in 1 .. Size, Bounded(k - 1)
      PROVE  Bounded(k)
  <2>1. PICK b \in Nat : \A p \in 1 .. k - 1 : Rec(p).ts <= b
    BY <1>3
  <2>2. \A p \in 1 .. k : p = k \/ p \in 1 .. k - 1
    BY <1>1
  <2>3. Rec(k).ts \in Nat /\ \A p \in 1 .. k - 1 : Rec(p).ts \in Nat
    BY <1>1
  <2>4. \A p \in 1 .. k : Rec(p).ts <= b + Rec(k).ts
    BY <2>1, <2>2, <2>3
  <2> QED
    BY <2>3, <2>4
<1> HIDE DEF Bounded
<1>4. U = {}
  <2> SUFFICES ASSUME U # {} PROVE FALSE
    OBVIOUS
  <2>1. U \subseteq Nat
    BY <1>1
  <2>2. PICK k \in U : \A j \in U : k <= j
    BY <2>1, LeastNat
  <2>3. k \in 1 .. Size /\ ~Bounded(k)
    BY <2>2, <1>1, <1>2
  <2>4. k - 1 \in 0 .. Size /\ ~(k <= k - 1)
    BY <2>3, <1>1
  <2>5. Bounded(k - 1)
    BY <2>2, <2>4
  <2> QED
    BY <2>3, <2>5, <1>3
<1> QED
  BY <1>1, <1>4 DEF Bounded

(* The baseline rx_loop paces a pass by is that of its first frame, also   *)
(* after the file was wound back.                                          *)
THEOREM TempoInvariant == Spec => []TempoInv
<1>1. Init => TempoInv
  BY InitTempo
<1>2. ReplayInv /\ TempoInv /\ [Next]_vars => TempoInv'
  BY StepTempo
<1> QED
  BY <1>1, <1>2, ReplayInvariant, PTL DEF Spec

LEMMA TempoFromInv ==
  ASSUME PassInv, TempoInv
  PROVE  PassesKeepTempo
<1> SUFFICES ASSUME last # Unset, \A p \in Playable : file.recs[p].ts # 0
             PROVE  LET Due(p) == file.recs[p].ts - file.recs[Min(Playable)].ts
                    IN  /\ Due(cur) <= pass
                        /\ pass <= MaxLate + Max({Due(p) : p \in {q \in Playable : q <= cur}})
  BY DEF PassesKeepTempo
<1> DEFINE Due(p) == file.recs[p].ts - file.recs[Min(Playable)].ts
           D == {Due(p) : p \in {q \in Playable : q <= cur}}
<1>1. AllTimed
  BY DEF AllTimed, Rec
<1>2. /\ wall \in Nat /\ wall = pass
      /\ first_ts = Rec(Min(Playable)).ts /\ Since(cur) <= wall
      /\ \E p \in Playable : p <= cur /\ wall <= MaxLate + Since(p)
  BY <1>1 DEF TempoInv
<1>3. file \in Files /\ Playable \subseteq 1 .. Size /\ Playable \subseteq Nat
      /\ (\A p \in 1 .. Size : Rec(p).ts \in Nat) /\ cur \in Playable
  BY FileFacts DEF PassInv
<1>4. \A p : Due(p) = Since(p)
  BY <1>2 DEF Since, Rec
<1>5. Min(Playable) \in Playable
  BY <1>3, MinNat
<1>6. first_ts \in Nat /\ \A p \in Playable : Since(p) \in Int
  <2>1. first_ts \in Nat
    BY <1>2, <1>3, <1>5
  <2>2. \A p \in Playable : Rec(p).ts \in Nat
    BY <1>3
  <2> QED
    BY <2>1, <2>2 DEF Since
<1> HIDE DEF Due
<1>7. PICK b \in Nat : \A p \in 1 .. Size : Rec(p).ts <= b
  BY <1>3, TimesBounded
<1>8. D \subseteq Int /\ D # {} /\ \A x \in D : x <= b
  <2>1. D \subseteq Int
    BY <1>4, <1>6
  <2>2. D # {}
    BY <1>2
  <2>3. ASSUME NEW p \in Playable PROVE Due(p) <= b
    <3>1. Rec(p).ts <= b /\ Rec(p).ts \in Nat
      BY <1>3, <1>7
    <3> QED
      BY <3>1, <1>4, <1>6 DEF Since
  <2> QED
    BY <2>1, <2>2, <2>3
<1>9. Max(D) \in D /\ \A y \in D : y <= Max(D)
  <2> HIDE DEF D
  <2>1. b \in Int
    OBVIOUS
  <2> QED
    BY ONLY <2>1, <1>8, MaxBounded
<1>10. PICK p \in Playable : p <= cur /\ wall <= MaxLate + Since(p)
  BY <1>2
<1>11. Since(p) \in D
  BY <1>4, <1>10
<1> DEFINE m == Max(D)
<1>12. m \in Int /\ Since(p) <= m
  BY <1>8, <1>9, <1>11
<1> HIDE DEF m, D
<1>13. pass <= MaxLate + m
  <2>1. MaxLate \in Nat
    BY ReplayAssumption
  <2> QED
    BY <2>1, <1>2, <1>6, <1>10, <1>12
<1> QED
  BY <1>2, <1>4, <1>13 DEF m, D, Due

(* In every pass over a capture with times, the first or a later one,      *)
(* rx_loop feeds each frame at its time and at most MaxLate later.         *)
THEOREM EveryPassKeepsTempo == Spec => []PassesKeepTempo
<1>1. ReplayInv /\ TempoInv => PassesKeepTempo
  BY TempoFromInv DEF ReplayInv
<1> QED
  BY <1>1, ReplayInvariant, TempoInvariant, PTL

-----------------------------------------------------------------------------
(* The drift.                                                              *)

(* The integer part of a quotient, when it is not at an end of the range.  *)
LEMMA ToIntNear ==
  ASSUME NEW a \in Int, NEW b \in Nat \ {0}, NEW v \in ToInt(a, b),
         v \in -IntMax .. IntMax - 1
  PROVE  v \in Int /\ (v - 1) * b <= a /\ a <= (v + 1) * b
<1> DEFINE x == IF a < 0 THEN -a ELSE a
           k == x \div b
           q == IF a < 0 THEN -((-a) \div b) ELSE a \div b
           y == b * k
<1>1. x \in Nat
  OBVIOUS
<1>2. k \in Int /\ x % b \in 0 .. b - 1 /\ x = y + (x % b)
  <2>1. x \in Int
    BY <1>1
  <2> HIDE DEF x
  <2> QED
    BY <2>1, DivMod
<1>3. q = IF a < 0 THEN -k ELSE k
  OBVIOUS
<1>4. IntMax \in Nat \ {0}
  BY ReplayAssumption
<1>5. v \in (IF q \in -IntMax - 1 .. IntMax THEN {q} ELSE {-IntMax - 1, IntMax})
  BY DEF ToInt
<1> HIDE DEF k, q
<1>6. v = q /\ v \in Int
  BY <1>4, <1>5
<1>7. /\ y \in Int /\ (k - 1) * b = y - b /\ (k + 1) * b = y + b
      /\ (-k - 1) * b = -y - b /\ (-k + 1) * b = -y + b
  BY <1>2, SMTT(30)
<1> DEFINE z == x % b
<1>8. z \in 0 .. b - 1 /\ x = y + z
  BY <1>2
<1> HIDE DEF y, z
<1>9. CASE a < 0
  <2>1. v = -k /\ a = -y - z
    BY <1>3, <1>6, <1>7, <1>8, <1>9
  <2>2. (v - 1) * b = -y - b /\ (v + 1) * b = -y + b
    BY <2>1, <1>7
  <2> QED
    BY <2>1, <2>2, <1>6, <1>7, <1>8
<1>10. CASE ~(a < 0)
  <2>1. v = k /\ a = y + z
    BY <1>3, <1>6, <1>8, <1>10
  <2>2. (v - 1) * b = y - b /\ (v + 1) * b = y + b
    BY <2>1, <1>7
  <2> QED
    BY <2>1, <2>2, <1>6, <1>7, <1>8
<1> QED
  BY <1>9, <1>10

(* An estimate taken of e is one of what is no further than MaxLate off.   *)
LEMMA PpmNear ==
  ASSUME NEW ahead \in Int, NEW e \in Int, ahead - MaxLate <= e, e <= ahead + MaxLate,
         NEW dt \in Nat \ {0}, NEW v \in ToInt(e * Scale, dt), v \in -IntMax .. IntMax - 1
  PROVE  /\ (v - 1) * dt <= (ahead + MaxLate) * Scale
         /\ (ahead - MaxLate) * Scale <= (v + 1) * dt
<1>1. MaxLate \in Nat /\ Scale \in Nat
  BY ReplayAssumption
<1> DEFINE a == e * Scale
           most == (ahead + MaxLate) * Scale
           least == (ahead - MaxLate) * Scale
<1>2. ahead + MaxLate \in Int /\ ahead - MaxLate \in Int
  BY <1>1
<1>3. a <= most /\ least <= a
  BY <1>1, <1>2, ProductOrder
<1>4. a \in Int /\ most \in Int /\ least \in Int
  BY <1>1, <1>2
<1> HIDE DEF a, most, least
<1>5. v \in Int /\ (v - 1) * dt <= a /\ a <= (v + 1) * dt
  BY <1>4, ToIntNear DEF a
<1>6. (v - 1) * dt \in Int /\ (v + 1) * dt \in Int
  BY <1>5
<1> QED
  BY <1>3, <1>4, <1>5, <1>6 DEF most, least

LEMMA InitDrift == Init => DriftInv
<1> SUFFICES ASSUME Init PROVE DriftInv
  OBVIOUS
<1>1. Window \in Nat \ {0}
  BY ReplayAssumption
<1>2. DriftTypes
  BY <1>1 DEF Init, DriftTypes
<1>3. WindowInv /\ DriftIsTheCaptures
  BY DEF Init, WindowInv, DriftIsTheCaptures
<1> QED
  BY <1>2, <1>3 DEF DriftInv

LEMMA KeptDrift ==
  ASSUME DriftInv, UNCHANGED <<file, cur, first_ts, driftVars>>,
         (last' = Unset /\ wall' = Unset) \/ UNCHANGED <<wall, last>>
  PROVE  DriftInv'
<1>1. Playable' = Playable
  BY DEF Playable
<1>2. /\ win' = win /\ ppm' = ppm /\ begun' = begun /\ odd' = odd /\ meas' = meas
  BY DEF driftVars
<1>3. DriftTypes'
  BY <1>2 DEF DriftInv, DriftTypes, Rec
<1>4. WindowInv'
  BY <1>1, <1>2 DEF DriftInv, WindowInv, Since, Rec
<1>5. DriftIsTheCaptures'
  BY <1>2 DEF DriftInv, DriftIsTheCaptures
<1> QED
  BY <1>3, <1>4, <1>5 DEF DriftInv

(* How a frame is waited for: one that had to be waited for, and the first *)
(* of a pass, comes MaxLate late at most.                                  *)
LEMMA FrameWait ==
  ASSUME DriftTypes, NEW ts \in Nat, NEW d \in Waits(ts),
         wall' = IF wall # Unset THEN wall + d ELSE IF ts # 0 THEN d ELSE Unset,
         first_ts' = IF wall = Unset /\ ts # 0 THEN ts ELSE first_ts
  PROVE  /\ d \in Nat /\ wall' \in Nat \cup {Unset} /\ first_ts' \in Nat
         /\ wall # Unset => wall' = wall + d /\ first_ts' = first_ts
         /\ ts # 0 => /\ wall' \in Nat
                      /\ (wall = Unset \/ d # 0) => wall' - (ts - first_ts') \in 0 .. MaxLate
<1>1. /\ MaxLate \in Nat /\ first_ts \in Nat /\ wall \in Nat \cup {Unset}
  BY ReplayAssumption DEF DriftTypes
<1>2. CASE ts = 0
  <2>1. d \in 0 .. MaxLate
    BY <1>2 DEF Waits
  <2> QED
    BY <2>1, <1>1, <1>2 DEF Unset
<1>3. CASE ts # 0 /\ wall = Unset
  <2>1. d \in 0 .. MaxLate
    BY <1>3, WaitsForFirst
  <2>2. wall' = d /\ first_ts' = ts
    BY <1>3
  <2> QED
    BY <2>1, <2>2, <1>1, <1>3
<1>4. CASE ts # 0 /\ wall # Unset
  <2>1. /\ d \in Nat /\ ts - first_ts <= wall + d
        /\ d = 0 \/ wall + d <= ts - first_ts + MaxLate
    BY <1>1, <1>4, WaitsForTime
  <2>2. wall' = wall + d /\ first_ts' = first_ts /\ wall \in Nat
    BY <1>1, <1>4
  <2> QED
    BY <2>1, <2>2, <1>1, <1>4
<1> QED
  BY <1>2, <1>3, <1>4

(* A frame in its place after another: win_frames counts the frames the    *)
(* capture says have passed since the window began, without overflow.      *)
LEMMA WindowGrows ==
  ASSUME PassInv, DriftInv, NEW s \in Playable, cur # 0, ~odd, InPlace(Rec(s)),
         NEW d \in Nat
  PROVE  /\ win.last # Unset /\ wall \in Nat /\ begun \in Playable
         /\ WinFrames(Rec(s).n % CounterMod) = Rec(s).n - Rec(begun).n
         /\ Rec(s).n - Rec(begun).n \in Nat
         /\ \E l \in 0 .. MaxLate : wall + d = Since(begun) + l + (win.start + d)
<1> DEFINE n == Rec(s).n - Rec(cur).n
<1>1. /\ last # Unset /\ Rec(cur).ts # 0 /\ n \in 1 .. CounterMod
  BY DEF InPlace, Rec
<1>2. /\ cur \in Playable /\ Playable \subseteq 1 .. Size
      /\ \A p \in 1 .. Size : Rec(p).ts \in Nat /\ Rec(p).n \in Nat
      /\ file \in Files
  BY FileFacts DEF PassInv
<1>3. /\ begun \in Playable
      /\ win.frames = Rec(cur).n - Rec(begun).n
      /\ \E l \in 0 .. MaxLate : wall = Since(begun) + l + win.start
  BY <1>1 DEF DriftInv, WindowInv
<1>4. /\ wall \in Nat /\ first_ts \in Nat /\ win.start \in Nat /\ win.frames \in Nat
      /\ win.last = Rec(cur).n % CounterMod
  BY <1>1 DEF DriftInv, DriftTypes
<1>5. /\ CounterMod \in Nat \ {0} /\ FramesMod \in Nat \ {0} /\ MaxLate \in Nat
  BY ReplayAssumption
<1>6. /\ Rec(s).n \in Nat /\ Rec(cur).n \in Nat
      /\ Rec(begun).n \in Nat /\ Rec(begun).ts \in Nat
  BY <1>2, <1>3
<1>7. win.last # Unset
  <2>1. Rec(cur).n % CounterMod \in 0 .. CounterMod - 1
    BY <1>5, <1>6, DivMod
  <2> QED
    BY <2>1, <1>4, <1>5 DEF Unset
<1>8. reac_counter_gap(win.last, Rec(s).n % CounterMod) = n - 1
  BY <1>1, <1>4, <1>5, <1>6, CounterDistance DEF reac_counter_gap
<1>9. Rec(s).n - Rec(begun).n < FramesMod
  <2>1. s \in 1 .. Len(file.recs) /\ begun \in 1 .. Len(file.recs)
    BY <1>2, <1>3 DEF Size
  <2> QED
    BY <2>1, <1>2, SpanAssumption DEF Rec
<1>10. WinFrames(Rec(s).n % CounterMod) = Rec(s).n - Rec(begun).n
  <2> DEFINE f == Rec(s).n - Rec(begun).n
  <2>1. win.frames + (n - 1) + 1 = f /\ f \in 0 .. FramesMod - 1
    BY <1>1, <1>3, <1>4, <1>5, <1>6, <1>9
  <2> HIDE DEF f, n
  <2>2. f % FramesMod = f
    BY <2>1, <1>5, ModSmall
  <2> QED
    BY <2>1, <2>2, <1>8 DEF WinFrames, f
<1>11. Rec(s).n - Rec(begun).n \in Nat
  BY <1>1, <1>3, <1>4, <1>6
<1>12. \E l \in 0 .. MaxLate : wall + d = Since(begun) + l + (win.start + d)
  <2>1. PICK l \in 0 .. MaxLate : wall = Since(begun) + l + win.start
    BY <1>3
  <2> DEFINE x == Since(begun)
  <2>2. x \in Int
    BY <1>4, <1>6 DEF Since
  <2> HIDE DEF x
  <2>3. wall + d = x + l + (win.start + d)
    BY <2>1, <2>2, <1>4, <1>5 DEF x
  <2> QED
    BY <2>3 DEF x
<1> QED
  BY <1>3, <1>4, <1>7, <1>10, <1>11, <1>12

LEMMA FrameDrift ==
  ASSUME PassInv, DriftInv, Frame
  PROVE  DriftInv'
<1> DEFINE s == Stop(file, ps)
           r == file.recs[s]
           c == r.n % CounterMod
<1>1. /\ file' = file /\ Playable' = Playable /\ cur' = s /\ s \in Playable
      /\ last' = c /\ c \in 0 .. CounterMod - 1 /\ s \in Nat \ {0}
  BY FrameStep, FileFacts DEF PassInv, Rec
<1>2. /\ Playable \subseteq 1 .. Size /\ Playable \subseteq Nat
      /\ \A p \in 1 .. Size : Rec(p).ts \in Nat /\ Rec(p).n \in Nat
  BY FileFacts DEF PassInv
<1>3. PICK d \in Waits(r.ts) :
        /\ wall' = IF wall # Unset THEN wall + d ELSE IF r.ts # 0 THEN d ELSE Unset
        /\ update_ppm(s, c, d, InPlace(r))
  BY DEF Frame
<1>4. first_ts' = IF wall = Unset /\ r.ts # 0 THEN r.ts ELSE first_ts
  BY DEF Frame
<1>5. r = Rec(s) /\ r.ts \in Nat /\ r.n \in Nat
  BY <1>1, <1>2 DEF Rec
<1> DEFINE frames == IF win.last = Unset THEN 0 ELSE WinFrames(c)
           dt == IF win.last = Unset THEN 0 ELSE win.start + d
           strange == odd \/ ~InPlace(r)
<1>6. IF dt >= Window
      THEN /\ ppm' \in ToInt((frames * FrameTime - dt) * Scale, dt)
           /\ win' = [start |-> 0, frames |-> 0, last |-> c]
           /\ meas' = [from |-> begun, to |-> s, span |-> dt, odd |-> strange]
           /\ begun' = s /\ odd' = FALSE
      ELSE /\ win' = [start |-> dt, frames |-> frames, last |-> c]
           /\ begun' = IF win.last = Unset THEN s ELSE begun
           /\ odd' = strange
           /\ UNCHANGED <<ppm, meas>>
  BY <1>3 DEF update_ppm
<1>7. /\ Window \in Nat \ {0} /\ MaxLate \in Nat /\ FrameTime \in Nat \ {0}
      /\ CounterMod \in Nat \ {0} /\ FramesMod \in Nat \ {0}
  BY ReplayAssumption
<1>8. DriftTypes /\ WindowInv /\ DriftIsTheCaptures
  BY DEF DriftInv
<1>9. /\ win.start \in Nat /\ win.frames \in Nat /\ win.start < Window
      /\ win.last = (IF cur = 0 THEN Unset ELSE Rec(cur).n % CounterMod)
  BY <1>8 DEF DriftTypes
<1> HIDE DEF s, r, c
<1>10. /\ d \in Nat /\ wall' \in Nat \cup {Unset} /\ first_ts' \in Nat
       /\ wall # Unset => wall' = wall + d /\ first_ts' = first_ts
       /\ r.ts # 0 => /\ wall' \in Nat
                      /\ (wall = Unset \/ d # 0) => wall' - (r.ts - first_ts') \in 0 .. MaxLate
  BY <1>3, <1>4, <1>5, <1>8, FrameWait
<1>11. frames \in Nat /\ dt \in Nat
  <2>1. ASSUME win.last # Unset
        PROVE  WinFrames(c) \in Nat
    <3>1. cur # 0 /\ win.last = Rec(cur).n % CounterMod
      BY <1>9, <2>1
    <3>2. Rec(cur).n \in Nat
      BY <3>1, <1>2 DEF PassInv
    <3>3. win.last \in Int
      BY <3>1, <3>2, <1>7, DivMod
    <3>4. c - win.last - 1 \in Int
      BY <3>3, <1>1
    <3>5. reac_counter_gap(win.last, c) \in Nat
      BY <3>4, <1>7, DivMod DEF reac_counter_gap
    <3> DEFINE g == reac_counter_gap(win.last, c)
    <3> HIDE DEF g
    <3>6. win.frames + g + 1 \in Int
      BY <3>5, <1>9 DEF g
    <3> QED
      BY <3>6, <1>7, DivMod DEF WinFrames, g
  <2> QED
    BY <2>1, <1>9, <1>10
<1>12. ASSUME ~strange, cur # 0
       PROVE  /\ win.last # Unset /\ wall' = wall + d /\ begun \in Playable
              /\ first_ts' = first_ts /\ dt = win.start + d
              /\ frames = r.n - Rec(begun).n /\ frames \in Nat
              /\ \E l \in 0 .. MaxLate : wall' = Since(begun) + l + dt
  <2>1. ~odd /\ InPlace(Rec(s))
    BY <1>5, <1>12
  <2>2. /\ win.last # Unset /\ wall \in Nat /\ begun \in Playable
        /\ WinFrames(Rec(s).n % CounterMod) = Rec(s).n - Rec(begun).n
        /\ Rec(s).n - Rec(begun).n \in Nat
        /\ \E l \in 0 .. MaxLate : wall + d = Since(begun) + l + (win.start + d)
    BY <2>1, <1>1, <1>10, <1>12, WindowGrows
  <2>3. wall # Unset
    BY <2>2 DEF Unset
  <2>4. c = Rec(s).n % CounterMod
    BY <1>5 DEF c
  <2> QED
    BY <2>2, <2>3, <2>4, <1>5, <1>10
<1>13. \A p : Since(p)' = Rec(p).ts - first_ts' /\ Rec(p)' = Rec(p)
  BY <1>1 DEF Since, Rec
<1> HIDE DEF frames, dt, strange
<1>14. DriftTypes'
  <2>1. /\ win'.start \in Nat /\ win'.frames \in Nat /\ win'.start < Window /\ win'.last = c
    <3>1. CASE dt >= Window
      BY <3>1, <1>6, <1>7
    <3>2. CASE ~(dt >= Window)
      BY <3>2, <1>6, <1>7, <1>11
    <3> QED
      BY <3>1, <3>2
  <2>2. cur' # 0 /\ Rec(cur)' = r /\ c = r.n % CounterMod /\ last' # Unset
    BY <1>1, <1>7 DEF Rec, r, c, Unset
  <2> QED
    BY <2>1, <2>2, <1>10 DEF DriftTypes
<1>15. ASSUME dt >= Window
       PROVE  win.last # Unset /\ cur # 0 /\ d # 0 /\ dt = win.start + d
  <2>1. win.last # Unset
    BY <1>7, <1>15 DEF dt
  <2> QED
    BY <2>1, <1>7, <1>9, <1>10, <1>15 DEF dt
<1>16. WindowInv'
  <2> SUFFICES ASSUME last' # Unset, ~odd', r.ts # 0
               PROVE  /\ begun' \in Playable
                      /\ win'.frames = r.n - Rec(begun').n
                      /\ \E l \in 0 .. MaxLate : wall' = (Rec(begun').ts - first_ts') + l + win'.start
    <3>1. Rec(cur)' = r
      BY <1>1 DEF Rec, r
    <3>2. Rec(begun)' = Rec(begun')
      BY <1>1 DEF Rec
    <3> QED
      BY <3>1, <3>2, <1>1 DEF WindowInv, Since
  <2> DEFINE at == Rec(s).ts - first_ts'
             l == wall' - at
  <2>1. at \in Int /\ r.n - Rec(s).n = 0 /\ at = r.ts - first_ts'
    BY <1>5, <1>10
  <2>2. ASSUME wall = Unset \/ d # 0, win'.start = 0
        PROVE  \E m \in 0 .. MaxLate : wall' = (Rec(s).ts - first_ts') + m + win'.start
    <3>1. l \in 0 .. MaxLate /\ wall' \in Nat
      BY <2>1, <2>2, <1>10
    <3>2. wall' = at + l + win'.start
      BY <2>1, <2>2, <3>1, <1>7
    <3> QED
      BY <3>1, <3>2
  <2> HIDE DEF at, l
  <2>3. CASE dt >= Window
    <3>1. win'.start = 0 /\ win'.frames = 0 /\ begun' = s
      BY <2>3, <1>6
    <3>2. d # 0
      BY <2>3, <1>15
    <3> QED
      BY <3>1, <3>2, <2>1, <2>2, <1>1
  <2>4. CASE ~(dt >= Window) /\ cur = 0
    <3>1. ~strange /\ win.last = Unset
      BY <2>4, <1>6, <1>9
    <3>2. win'.start = 0 /\ win'.frames = 0 /\ begun' = s
      BY <2>4, <3>1, <1>6 DEF dt, frames
    <3>3. wall = Unset
      BY <2>4, <1>8 DEF PassInv, DriftTypes
    <3> QED
      BY <3>2, <3>3, <2>1, <2>2, <1>1
  <2>5. CASE ~(dt >= Window) /\ cur # 0
    <3>1. ~strange
      BY <2>5, <1>6
    <3>2. /\ win.last # Unset /\ begun \in Playable /\ first_ts' = first_ts
          /\ frames = r.n - Rec(begun).n
          /\ \E m \in 0 .. MaxLate : wall' = Since(begun) + m + dt
      BY <2>5, <3>1, <1>12
    <3>3. win'.start = dt /\ win'.frames = frames /\ begun' = begun
      BY <2>5, <3>2, <1>6
    <3> QED
      BY <3>2, <3>3 DEF Since
  <2> QED
    BY <2>3, <2>4, <2>5
<1>17. DriftIsTheCaptures'
  <2>1. CASE ~(dt >= Window)
    <3>1. ppm' = ppm /\ meas' = meas
      BY <2>1, <1>6
    <3> QED
      BY <3>1, <1>1, <1>8 DEF DriftIsTheCaptures
  <2>2. CASE dt >= Window
    <3>1. /\ ppm' \in ToInt((frames * FrameTime - dt) * Scale, dt)
          /\ meas' = [from |-> begun, to |-> s, span |-> dt, odd |-> strange]
      BY <2>2, <1>6
    <3> DEFINE took  == r.ts - Rec(begun).ts
               ahead == FrameTime * (r.n - Rec(begun).n) - took
    <3> SUFFICES ASSUME ~strange, ppm' \in -IntMax .. IntMax - 1
                 PROVE  /\ dt \in took - MaxLate .. took + MaxLate
                        /\ (ppm' - 1) * dt <= (ahead + MaxLate) * Scale
                        /\ (ahead - MaxLate) * Scale <= (ppm' + 1) * dt
      BY <3>1, <1>1, <1>5 DEF DriftIsTheCaptures, Rec
    <3>2. cur # 0 /\ d # 0
      BY <2>2, <1>15
    <3>3. /\ wall' = wall + d /\ begun \in Playable /\ first_ts' = first_ts
          /\ frames = r.n - Rec(begun).n
          /\ \E l \in 0 .. MaxLate : wall' = Since(begun) + l + dt
      BY <3>2, <1>12
    <3>4. r.ts # 0
      BY DEF strange, InPlace
    <3>5. wall' \in Nat /\ wall' - (r.ts - first_ts') \in 0 .. MaxLate
      BY <3>2, <3>4, <1>10
    <3>6. PICK l \in 0 .. MaxLate : wall' = Since(begun) + l + dt
      BY <3>3
    <3>7. Rec(begun).ts \in Nat /\ Rec(begun).n \in Nat /\ first_ts \in Nat
      BY <3>3, <1>2, <1>10
    <3> DEFINE t0 == Rec(begun).ts
               t1 == r.ts
    <3>8. t0 \in Nat /\ t1 \in Nat /\ took = t1 - t0
      BY <3>7, <1>5
    <3>9. Since(begun) = t0 - first_ts
      BY DEF Since
    <3> HIDE DEF t0, t1, took
    <3>10. dt \in took - MaxLate .. took + MaxLate /\ took \in Int
      <4>1. wall' = (t0 - first_ts) + l + dt
        BY <3>6, <3>9
      <4>2. wall' - (t1 - first_ts) \in 0 .. MaxLate
        BY <3>3, <3>5 DEF t1
      <4> QED
        BY <4>1, <4>2, <3>5, <3>7, <3>8, <1>7, <1>11
    <3> DEFINE e == frames * FrameTime - dt
               x == FrameTime * (r.n - Rec(begun).n)
    <3>11. x \in Int /\ frames * FrameTime = x /\ ahead = x - took
      <4>1. frames \in Int /\ FrameTime * frames = frames * FrameTime
        BY <1>7, <1>11
      <4>2. FrameTime * frames \in Int
        BY <4>1, <1>7
      <4> QED
        BY <3>3, <4>1, <4>2
    <3> HIDE DEF x
    <3>12. ahead \in Int /\ e \in Int /\ ahead - MaxLate <= e /\ e <= ahead + MaxLate
      BY <3>10, <3>11, <1>7, <1>11
    <3>13. dt \in Nat \ {0} /\ ppm' \in ToInt(e * Scale, dt)
      BY <2>2, <3>1, <1>7, <1>11
    <3> HIDE DEF e, ahead
    <3> QED
      BY <3>10, <3>12, <3>13, PpmNear
  <2> QED
    BY <2>1, <2>2
<1> QED
  BY <1>14, <1>16, <1>17 DEF DriftInv

LEMMA StepDrift ==
  ASSUME ReplayInv, DriftInv, [Next]_vars
  PROVE  DriftInv'
<1>1. (\/ NoFrame \/ Oversleep \/ Remove \/ Process
       \/ (\E p \in Ports : on_io_changed(p)) \/ UNCHANGED vars)
        => UNCHANGED <<file, cur, first_ts, driftVars, wall, last>>
  BY DEF NoFrame, Oversleep, Remove, Process, on_io_changed, vars, loopVars
<1>2. Rewind => last' = Unset /\ wall' = Unset /\ UNCHANGED <<file, cur, first_ts, driftVars>>
  BY DEF Rewind
<1> QED
  BY <1>1, <1>2, KeptDrift, FrameDrift DEF Next, Turn, ReplayInv

(* The statics of update_ppm: a window without a stranger in it counts the *)
(* capture's frames, and began MaxLate late at most.                       *)
THEOREM DriftInvariant == Spec => []DriftInv
<1>1. Init => DriftInv
  BY InitDrift
<1>2. ReplayInv /\ DriftInv /\ [Next]_vars => DriftInv'
  BY StepDrift
<1> QED
  BY <1>1, <1>2, ReplayInvariant, PTL DEF Spec

(* Whatever the times of a capture and whatever frames were lost in it,    *)
(* update_ppm reports how far the desk was ahead of its nominal rate in    *)
(* the capture itself, to within the feeder's own lateness at the ends of  *)
(* one window.                                                             *)
THEOREM DriftIsAlwaysTheCaptures == Spec => []DriftIsTheCaptures
<1>1. DriftInv => DriftIsTheCaptures
  BY DEF DriftInv
<1> QED
  BY <1>1, DriftInvariant, PTL
=============================================================================
