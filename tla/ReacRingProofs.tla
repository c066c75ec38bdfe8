--------------------------- MODULE ReacRingProofs ---------------------------
(***************************************************************************)
(* Proofs about ReacRing, for every capacity, number of channels, block    *)
(* and quantum size and every interleaving of the two threads, provided    *)
(* the feeder's blocks fit the ring.                                       *)
(***************************************************************************)
EXTENDS ReacRing, ModArith, SequenceTheorems

(* The cursors are the counts of samples accepted and gone, reduced to     *)
(* slots, and one slot at least stays free.                                *)
Cursors ==
  /\ head = Len(log) % Capacity
  /\ tail = gone % Capacity
  /\ Len(log) - gone <= Mask

(* The feeder's view is stale on the safe side: the callback can only have *)
(* freed more slots since.                                                 *)
WriterFacts ==
  /\ wr.pc # "idle" =>
       /\ wr.n \in Blocks /\ wr.n > 0 /\ wr.n <= Mask /\ wr.stride = wr.n
       /\ wr.base + wr.n = offered
       /\ wr.w > 0 /\ wr.w <= wr.n
  /\ wr.pc = "space" => wr.w = wr.n
  /\ wr.pc \in {"copy", "publish"} => Len(log) - gone + wr.w <= Mask
  /\ wr.pc = "copy" => wr.s < wr.w

(* What the feeder has copied so far, beyond head and not yet published.   *)
Copied ==
  \A c \in Chans : \A s \in 0 .. wr.w - 1 :
    \/ wr.pc = "publish"
    \/ wr.pc = "copy" /\ (c < wr.c \/ (c = wr.c /\ s < wr.s))
    => buf[c][(Len(log) + s) % Capacity] = <<c, wr.base + s + 1>>

(* The callback's view is stale on the safe side too.                      *)
ReaderFacts ==
  /\ rd.pc \in {"drop", "copy", "store"} => rd.k <= Len(log) - gone
  /\ rd.pc = "copy" => rd.s < rd.k

(* How many samples of channel c the callback has copied.                  *)
Taken(c) ==
  CASE rd.pc = "store" -> rd.k
    [] rd.pc = "copy" -> IF c < rd.c THEN rd.k ELSE IF c = rd.c THEN rd.s ELSE 0
    [] OTHER -> 0

(* What the callback has copied so far are the oldest samples.             *)
ReadSoFar ==
  rd.pc # "idle" =>
    \A c \in Chans :
      /\ Len(rd.dst[c]) = Taken(c)
      /\ \A i \in 1 .. Taken(c) : rd.dst[c][i] = <<c, log[gone + i]>>

RInv ==
  /\ TypeOK
  /\ Cursors
  /\ WriterFacts
  /\ Copied
  /\ PublishedPlanar
  /\ ReaderFacts
  /\ ReadSoFar

-----------------------------------------------------------------------------
(* The types of the constants and of the parts of a typed state.           *)
LEMMA ConstFacts ==
  /\ Capacity \in Nat \ {0} /\ Capacity > 1 /\ Mask \in Nat /\ Mask = Capacity - 1
  /\ NChannels \in Nat \ {0} /\ 0 \in Chans
  /\ CountMod \in Nat \ {0} /\ MaxOffered \in Nat
  BY RingAssumption DEF Mask, Chans

(* What TypeOK says of the components of the state, one by one.            *)
LEMMA StateFacts ==
  ASSUME TypeOK
  PROVE  /\ Len(log) \in Nat /\ gone \in Nat /\ gone <= Len(log)
         /\ offered \in Nat /\ offered <= MaxOffered
         /\ wr.n \in Nat /\ wr.stride \in Nat /\ wr.w \in Nat /\ wr.c \in Chans
         /\ wr.s \in Nat /\ wr.base \in Nat /\ wr.c \in Nat
         /\ rd.n \in Nat /\ rd.k \in Nat /\ rd.c \in Chans /\ rd.s \in Nat
         /\ rd.c \in Nat /\ rd.seen \in Nat
         /\ rd.dst \in [Chans -> Seq(Sample \cup {Blank})]
<1>1. Len(log) \in Nat
  BY DEF TypeOK
<1>2. wr \in Writers /\ rd \in Readers /\ wr.c \in Chans /\ rd.c \in Chans
  BY DEF TypeOK
<1>3. gone \in Nat /\ gone <= Len(log) /\ offered \in Nat /\ offered <= MaxOffered
  BY <1>1, ConstFacts DEF TypeOK
<1> QED
  BY <1>1, <1>2, <1>3 DEF Writers, Readers

(* The masked difference of the cursors is the number of samples held.     *)
LEMMA ReadableIs ==
  ASSUME TypeOK, Cursors
  PROVE  readable = Len(log) - gone
<1>1. /\ Len(log) \in Nat /\ gone \in Nat /\ gone <= Len(log)
      /\ Capacity \in Nat \ {0} /\ Mask = Capacity - 1
  BY StateFacts, ConstFacts
<1>2. ((Len(log) % Capacity) - (gone % Capacity)) % Capacity = (Len(log) - gone) % Capacity
  <2>1. Len(log) \in Int /\ gone \in Int
    BY <1>1
  <2> QED
    BY <1>1, <2>1, ModDifference
<1>3. Len(log) - gone \in 0 .. Capacity - 1
  BY <1>1 DEF Cursors
<1>4. (Len(log) - gone) % Capacity = Len(log) - gone
  BY <1>1, <1>3, ModSmall
<1> QED
  BY <1>2, <1>4 DEF readable, Cursors

(* A cursor that advances by k is the count that advances by k.            *)
LEMMA CursorAdvance ==
  ASSUME NEW n \in Nat, NEW k \in Nat
  PROVE  ((n % Capacity) + k) % Capacity = (n + k) % Capacity
         /\ (n + k) % Capacity \in Slots
<1>1. Capacity \in Nat \ {0} /\ n \in Int /\ k \in Int /\ n + k \in Int
  BY ConstFacts
<1>2. ((n % Capacity) + k) % Capacity = (n + k) % Capacity
  BY <1>1, ModAdd
<1>3. (n + k) % Capacity \in 0 .. Capacity - 1
  BY <1>1, DivMod
<1> QED
  BY <1>2, <1>3 DEF Slots

-----------------------------------------------------------------------------
(* The invariant holds initially.                                          *)
LEMMA InitRInv == Init => RInv
<1> SUFFICES ASSUME Init PROVE RInv
  OBVIOUS
<1> USE ConstFacts
<1>1. Len(log) = 0 /\ log \in Seq(1 .. MaxOffered)
  BY DEF Init
<1>2. TypeOK
  <2>1. NoDst \in [Chans -> Seq(Sample \cup {Blank})]
    BY DEF NoDst
  <2>2. wr \in Writers /\ wr.c \in Chans
    BY DEF Init, Writers
  <2>3. rd \in Readers /\ rd.c \in Chans
    BY <2>1 DEF Init, Readers
  <2> QED
    BY <1>1, <2>2, <2>3 DEF Init, TypeOK, Slots
<1>3. Cursors
  <2>1. 0 % Capacity = 0
    BY ModSmall
  <2> QED
    BY <1>1, <2>1 DEF Init, Cursors
<1>4. wr.pc = "idle" /\ rd.pc = "idle"
  BY DEF Init
<1>6. WriterFacts /\ Copied /\ ReaderFacts /\ ReadSoFar
  BY <1>4 DEF WriterFacts, Copied, ReaderFacts, ReadSoFar
<1>5. PublishedPlanar
  BY <1>1 DEF Init, PublishedPlanar
<1> QED
  BY <1>2, <1>3, <1>5, <1>6 DEF RInv

(* Each step of the feeder keeps it.                                       *)
LEMMA WriteBeginRInv ==
  ASSUME RInv, BlocksFit, NEW n \in Blocks, WriteBegin(n)
  PROVE  RInv'
<1> USE ConstFacts
<1>1. n \in Nat /\ n > 0 /\ n <= Mask
  BY RingAssumption DEF BlocksFit
<1>2. /\ wr.pc = "idle" /\ offered' = offered + n /\ offered + n <= MaxOffered
      /\ wr' = [wr EXCEPT !.pc = "space", !.n = n, !.stride = n, !.w = n, !.base = offered]
      /\ UNCHANGED <<head, tail, buf, underruns, overruns, rd, log, gone, batch>>
  <2>1. (IF n > Mask THEN Mask ELSE n) = n
    BY <1>1
  <2> QED
    BY <2>1 DEF WriteBegin, ringVars
<1>3. TypeOK /\ wr \in Writers /\ wr.c \in Chans /\ offered \in Nat
  BY StateFacts DEF RInv, TypeOK
<1>4. /\ wr' \in Writers /\ wr'.c \in Chans /\ wr'.pc = "space" /\ wr'.n = n
      /\ wr'.stride = n /\ wr'.w = n /\ wr'.base = offered
  BY <1>1, <1>2, <1>3 DEF Writers
<1>5. offered' \in 0 .. MaxOffered
  BY <1>1, <1>2, <1>3
<1>6. TypeOK'
  BY <1>2, <1>3, <1>4, <1>5 DEF TypeOK
<1>7. WriterFacts' /\ Copied'
  BY <1>1, <1>2, <1>4 DEF WriterFacts, Copied
<1>8. Cursors' /\ PublishedPlanar' /\ ReaderFacts' /\ ReadSoFar'
  BY <1>2 DEF RInv, Cursors, PublishedPlanar, ReaderFacts, ReadSoFar, Taken
<1> QED
  BY <1>6, <1>7, <1>8 DEF RInv

(* The feeder looks at the free space: what it will write fits.            *)
LEMMA WriteSpaceRInv ==
  ASSUME RInv, WriteSpace
  PROVE  RInv'
<1> USE ConstFacts
<1> DEFINE w == IF wr.w > writable THEN writable ELSE wr.w
<1>1. /\ wr.pc = "space"
      /\ overruns' = (overruns + wr.w - w) % CountMod
      /\ wr' = [wr EXCEPT !.pc = IF w = 0 THEN "idle" ELSE "copy", !.w = w, !.c = 0, !.s = 0]
      /\ UNCHANGED <<head, tail, buf, underruns, rd, offered, log, gone, batch>>
  BY DEF WriteSpace
<1>2. /\ TypeOK /\ wr \in Writers /\ wr.w \in Nat /\ Len(log) \in Nat /\ gone \in Nat
      /\ gone <= Len(log) /\ wr.n \in Nat /\ wr.base \in Nat /\ offered \in Nat
      /\ wr.stride \in Nat /\ overruns \in Nat
  BY StateFacts DEF RInv, TypeOK
<1>3. writable = Mask - (Len(log) - gone) /\ Len(log) - gone <= Mask
  BY ReadableIs DEF RInv, writable, Cursors
<1>4. /\ wr.n > 0 /\ wr.n <= Mask /\ wr.stride = wr.n /\ wr.base + wr.n = offered
      /\ wr.w = wr.n /\ wr.n \in Blocks
  BY <1>1 DEF RInv, WriterFacts
<1>5. w \in Nat /\ w <= wr.n /\ Len(log) - gone + w <= Mask
  BY <1>2, <1>3, <1>4
<1> HIDE DEF w
<1>6. /\ wr' \in Writers /\ wr'.c = 0 /\ wr'.s = 0 /\ wr'.w = w
      /\ wr'.n = wr.n /\ wr'.stride = wr.stride /\ wr'.base = wr.base
      /\ wr'.pc = IF w = 0 THEN "idle" ELSE "copy"
  BY <1>1, <1>2, <1>5 DEF Writers
<1>7. overruns' \in 0 .. CountMod - 1
  <2>1. overruns + wr.w - w \in Int
    BY <1>2, <1>5
  <2> QED
    BY <1>1, <2>1, DivMod
<1>8. TypeOK'
  BY <1>1, <1>2, <1>6, <1>7 DEF TypeOK
<1>9. WriterFacts'
  BY <1>1, <1>2, <1>4, <1>5, <1>6 DEF WriterFacts
<1>10. Copied'
  BY <1>6 DEF Copied, Chans
<1>11. Cursors' /\ PublishedPlanar' /\ ReaderFacts' /\ ReadSoFar'
  <2>1. Cursors' /\ PublishedPlanar'
    BY <1>1 DEF RInv, Cursors, PublishedPlanar
  <2>2. ReaderFacts'
    BY <1>1 DEF RInv, ReaderFacts
  <2>3. ReadSoFar'
    BY <1>1 DEF RInv, ReadSoFar, Taken
  <2> QED
    BY <2>1, <2>2, <2>3
<1> QED
  BY <1>8, <1>9, <1>10, <1>11 DEF RInv

(* One turn of the copy loop copies one sample of one channel.             *)
LEMMA WriteCopyRInv ==
  ASSUME RInv, WriteCopy
  PROVE  RInv'
<1> USE ConstFacts
<1> DEFINE L    == Len(log)
           slot == (L + wr.s) % Capacity
           val  == <<wr.c, wr.base + wr.s + 1>>
           Done(c, s) == c < wr.c \/ (c = wr.c /\ s < wr.s)
<1>1. /\ wr.pc = "copy" /\ wr' = Advance(wr, wr.w, "publish")
      /\ UNCHANGED <<head, tail, underruns, overruns, rd, offered, log, gone, batch>>
  BY DEF WriteCopy
<1>2. /\ wr.w \in Nat /\ L \in Nat /\ gone \in Nat
      /\ gone <= L /\ wr.n \in Nat /\ wr.base \in Nat /\ offered \in Nat
      /\ offered <= MaxOffered
      /\ wr.c \in Chans /\ wr.c \in Nat /\ wr.s \in Nat
  BY StateFacts DEF RInv
<1>3. /\ TypeOK /\ wr \in Writers
       /\ buf \in [Chans -> [Slots -> Sample \cup {Blank}]]
  BY DEF RInv, TypeOK
<1>w. /\ wr.n > 0 /\ wr.n <= Mask /\ wr.stride = wr.n /\ wr.base + wr.n = offered
      /\ wr.w > 0 /\ wr.w <= wr.n /\ L - gone + wr.w <= Mask /\ wr.s < wr.w /\ wr.n \in Blocks
  BY <1>1 DEF RInv, WriterFacts
<1>4. (head + wr.s) % Capacity = slot /\ slot \in Slots
  BY <1>2, CursorAdvance DEF RInv, Cursors
<1>5. Planar(wr.c * wr.stride + wr.s) = val
  <2>1. wr.n \in Nat \ {0} /\ wr.s \in 0 .. wr.n - 1
    BY <1>2, <1>w
  <2>2. (wr.c * wr.n + wr.s) \div wr.n = wr.c /\ (wr.c * wr.n + wr.s) % wr.n = wr.s
    BY <1>2, <2>1, RowColumn
  <2> QED
    BY <1>w, <2>2 DEF Planar
<1>6. buf' = [buf EXCEPT ![wr.c][slot] = val]
  BY <1>4, <1>5 DEF WriteCopy
<1>7. val \in Sample
  <2>1. wr.base + wr.s + 1 \in 1 .. MaxOffered
    <3>1. /\ wr.base \in Nat /\ wr.s \in Nat /\ wr.w \in Nat /\ wr.n \in Nat
          /\ offered \in Nat /\ MaxOffered \in Nat /\ offered <= MaxOffered
      BY <1>2
    <3>2. wr.s < wr.w /\ wr.w <= wr.n /\ wr.base + wr.n = offered
      BY <1>w
    <3> QED
      BY ONLY <3>1, <3>2
  <2> QED
    BY <1>2, <2>1 DEF Sample
<1>8. /\ wr' \in Writers /\ wr'.c \in Chans
      /\ wr'.n = wr.n /\ wr'.stride = wr.stride /\ wr'.base = wr.base /\ wr'.w = wr.w
      /\ wr'.pc \in {"copy", "publish"}
      /\ wr'.pc = "copy" => wr'.s < wr'.w
      /\ \A c \in Chans : \A s \in 0 .. wr.w - 1 :
           \/ wr'.pc = "publish"
           \/ wr'.pc = "copy" /\ (c < wr'.c \/ (c = wr'.c /\ s < wr'.s))
           => Done(c, s) \/ (c = wr.c /\ s = wr.s)
  <2>1. CASE wr.s + 1 < wr.w
    <3>1. wr' = [wr EXCEPT !.s = wr.s + 1]
      BY <1>1, <2>1 DEF Advance
    <3>2. wr.s + 1 \in Nat
      BY <1>2
    <3>3. /\ wr' \in Writers /\ wr'.c = wr.c /\ wr'.s = wr.s + 1 /\ wr'.pc = "copy"
          /\ wr'.n = wr.n /\ wr'.stride = wr.stride /\ wr'.base = wr.base /\ wr'.w = wr.w
      BY <1>1, <1>3, <3>1, <3>2 DEF Writers
    <3> QED
      BY <1>2, <2>1, <3>3 DEF Chans
  <2>2. CASE ~(wr.s + 1 < wr.w) /\ wr.c + 1 < NChannels
    <3>1. wr' = [wr EXCEPT !.c = wr.c + 1, !.s = 0]
      BY <1>1, <2>2 DEF Advance
    <3>2. wr.c + 1 \in Nat /\ wr.c + 1 \in Chans
      BY <1>2, <2>2 DEF Chans
    <3> DEFINE nc == wr.c + 1
    <3> HIDE DEF nc
    <3>3. wr' = [wr EXCEPT !.c = nc, !.s = 0] /\ nc \in Nat
      BY <3>1, <3>2 DEF nc
    <3>4. /\ wr' \in Writers /\ wr'.c = nc /\ wr'.s = 0 /\ wr'.pc = wr.pc
          /\ wr'.n = wr.n /\ wr'.stride = wr.stride /\ wr'.base = wr.base /\ wr'.w = wr.w
      BY <1>3, <3>3 DEF Writers
    <3>5. ASSUME NEW c \in Chans, NEW s \in 0 .. wr.w - 1, c < nc \/ (c = nc /\ s < 0)
          PROVE  Done(c, s) \/ (c = wr.c /\ s = wr.s)
      <4>1. c \in Nat /\ s \in Nat /\ s < wr.w
        BY <1>2 DEF Chans
      <4>2. c < wr.c \/ c = wr.c
        BY <1>2, <3>5, <4>1 DEF nc
      <4>3. s < wr.s \/ s = wr.s
        BY <1>2, <2>2, <4>1
      <4> QED
        BY <4>2, <4>3
    <3>6. wr'.pc = "copy" /\ wr'.s < wr'.w /\ wr'.c \in Chans
      <4>1. wr'.pc = "copy" /\ wr'.w = wr.w /\ wr'.s = 0 /\ wr'.c = nc
        BY <1>1, <3>4
      <4>2. 0 < wr.w
        BY <1>w
      <4> QED
        BY <3>2, <4>1, <4>2 DEF nc
    <3>7. \A c \in Chans : \A s \in 0 .. wr.w - 1 :
            c < wr'.c \/ (c = wr'.c /\ s < wr'.s) => Done(c, s) \/ (c = wr.c /\ s = wr.s)
      BY <3>4, <3>5
    <3> HIDE DEF Done
    <3> QED
      BY <3>4, <3>6, <3>7
  <2>3. CASE ~(wr.s + 1 < wr.w) /\ ~(wr.c + 1 < NChannels)
    <3>1. wr' = [wr EXCEPT !.pc = "publish"]
      BY <1>1, <2>3 DEF Advance
    <3>2. /\ wr' \in Writers /\ wr'.c = wr.c /\ wr'.s = wr.s /\ wr'.pc = "publish"
          /\ wr'.n = wr.n /\ wr'.stride = wr.stride /\ wr'.base = wr.base /\ wr'.w = wr.w
      BY <1>1, <1>3, <3>1 DEF Writers
    <3>3. ASSUME NEW c \in Chans, NEW s \in 0 .. wr.w - 1
          PROVE  Done(c, s) \/ (c = wr.c /\ s = wr.s)
      <4>1. c \in Nat /\ s \in Nat /\ s < wr.w /\ c < NChannels
        BY <1>2 DEF Chans
      <4>2. c < wr.c \/ c = wr.c
        BY <1>2, <2>3, <4>1
      <4>3. s < wr.s \/ s = wr.s
        BY <1>2, <2>3, <4>1, SMTT(30)
      <4> QED
        BY <4>2, <4>3
    <3> QED
      BY <1>2, <3>2, <3>3
  <2> QED
    BY <2>1, <2>2, <2>3
<1> HIDE DEF slot, val
<1>9. /\ buf' \in [Chans -> [Slots -> Sample \cup {Blank}]]
      /\ buf'[wr.c][slot] = val
      /\ \A c \in Chans, q \in Slots : c # wr.c \/ q # slot => buf'[c][q] = buf[c][q]
  BY <1>2, <1>3, <1>4, <1>6, <1>7
<1>10. TypeOK'
  BY <1>1, <1>3, <1>8, <1>9 DEF TypeOK
<1>11. WriterFacts'
  BY <1>1, <1>w, <1>8 DEF WriterFacts
<1>12. PublishedPlanar'
  <2> SUFFICES ASSUME NEW c \in Chans, NEW i \in gone + 1 .. L
               PROVE  buf'[c][(i - 1) % Capacity] = <<c, log[i]>>
    BY <1>1 DEF PublishedPlanar
  <2>1. i - 1 \in Nat /\ i - 1 < L + wr.s /\ (L + wr.s) - (i - 1) < Capacity
    BY <1>2, <1>w, SMTT(30)
  <2>2. (i - 1) % Capacity # slot
    BY <1>2, <2>1, ModDistinct DEF slot
  <2>3. (i - 1) % Capacity \in Slots
    BY <2>1, DivMod DEF Slots
  <2>4. buf[c][(i - 1) % Capacity] = <<c, log[i]>>
    BY DEF RInv, PublishedPlanar
  <2> QED
    BY <1>9, <2>2, <2>3, <2>4
<1>13. Copied'
  <2> SUFFICES ASSUME NEW c \in Chans, NEW s \in 0 .. wr.w - 1,
                      Done(c, s) \/ (c = wr.c /\ s = wr.s)
               PROVE  buf'[c][(L + s) % Capacity] = <<c, wr.base + s + 1>>
    BY <1>1, <1>8 DEF Copied
  <2>1. CASE c = wr.c /\ s = wr.s
    BY <1>9, <2>1 DEF slot, val
  <2>2. CASE Done(c, s)
    <3>1. buf[c][(L + s) % Capacity] = <<c, wr.base + s + 1>>
      BY <1>1, <2>2 DEF RInv, Copied
    <3>2. s \in Nat /\ L + s \in Int /\ L + wr.s \in Int
      BY <1>2
    <3>3. (L + s) % Capacity \in Slots
      BY <3>2, DivMod DEF Slots
    <3>4. c = wr.c => (L + s) % Capacity # slot
      <4> SUFFICES ASSUME c = wr.c PROVE (L + s) % Capacity # slot
        OBVIOUS
      <4>1. s < wr.s
        BY <1>2, <2>2, <3>2
      <4>2. wr.s < Capacity
        BY <1>2, <1>w
      <4>3. L + s < L + wr.s /\ (L + wr.s) - (L + s) < Capacity
        BY <1>2, <3>2, <4>1, <4>2
      <4> QED
        BY <3>2, <4>3, ModDistinct DEF slot
    <3> QED
      BY <1>9, <3>1, <3>3, <3>4
  <2> QED
    BY <2>1, <2>2
<1>14. Cursors' /\ ReaderFacts' /\ ReadSoFar'
  BY <1>1 DEF RInv, Cursors, ReaderFacts, ReadSoFar, Taken
<1> QED
  BY <1>10, <1>11, <1>12, <1>13, <1>14 DEF RInv

(* Publishing turns what was copied into what the ring holds.              *)
LEMMA WritePublishRInv ==
  ASSUME RInv, WritePublish
  PROVE  RInv'
<1> USE ConstFacts
<1> DEFINE L    == Len(log)
           tip  == [i \in 1 .. wr.w |-> wr.base + i]
<1>1. /\ wr.pc = "publish" /\ wr' = [wr EXCEPT !.pc = "idle"]
      /\ head' = (head + wr.w) % Capacity /\ log' = log \o tip
      /\ UNCHANGED <<tail, buf, underruns, overruns, rd, offered, gone, batch>>
  BY DEF WritePublish
<1>2. /\ wr.w \in Nat /\ L \in Nat /\ gone \in Nat /\ gone <= L /\ wr.n \in Nat
      /\ wr.base \in Nat /\ offered \in Nat /\ offered <= MaxOffered
      /\ rd.k \in Nat
  BY StateFacts DEF RInv
<1>3. /\ TypeOK /\ wr \in Writers /\ wr.c \in Chans /\ log \in Seq(1 .. MaxOffered)
  BY DEF RInv, TypeOK
<1>4. /\ wr.base + wr.n = offered /\ wr.w > 0 /\ wr.w <= wr.n
      /\ L - gone + wr.w <= Mask
  BY <1>1 DEF RInv, WriterFacts
<1>5. tip \in Seq(1 .. MaxOffered) /\ Len(tip) = wr.w
  <2>1. \A i \in 1 .. wr.w : wr.base + i \in 1 .. MaxOffered
    BY <1>2, <1>4, SMTT(30)
  <2>2. tip \in [1 .. wr.w -> 1 .. MaxOffered] /\ Len(tip) = wr.w
    BY <1>2, <2>1
  <2> HIDE DEF tip
  <2> QED
    BY <1>2, <2>2, SeqDef
<1>6. /\ log' \in Seq(1 .. MaxOffered) /\ Len(log') = L + wr.w
      /\ \A i \in 1 .. L : log'[i] = log[i]
      /\ \A i \in 1 .. wr.w : log'[L + i] = wr.base + i
  <2>1. log' \in Seq(1 .. MaxOffered) /\ Len(log') = L + wr.w
    <3> HIDE DEF tip
    <3>1. log \in Seq(1 .. MaxOffered) /\ tip \in Seq(1 .. MaxOffered)
      BY <1>3, <1>5
    <3>2. log \o tip \in Seq(1 .. MaxOffered) /\ Len(log \o tip) = Len(log) + Len(tip)
      BY ONLY <3>1, ConcatProperties
    <3> QED
      BY <1>1, <1>5, <3>2
  <2>2. \A i \in 1 .. L + wr.w : log'[i] = IF i <= L THEN log[i] ELSE tip[i - L]
    BY <1>1, <1>3, <1>5, ConcatProperties
  <2> HIDE DEF L
  <2>3. ASSUME NEW i \in 1 .. L
        PROVE  log'[i] = log[i]
    <3>1. i \in 1 .. L + wr.w /\ i <= L
      BY <1>2
    <3> QED
      BY <2>2, <3>1
  <2>4. ASSUME NEW i \in 1 .. wr.w
        PROVE  log'[L + i] = wr.base + i
    <3>1. L + i \in 1 .. L + wr.w /\ ~(L + i <= L) /\ (L + i) - L = i
      BY <1>2
    <3> QED
      BY <2>2, <3>1
  <2> QED
    BY <2>1, <2>3, <2>4
<1> HIDE DEF tip, L
<1>7. /\ wr' \in Writers /\ wr'.c = wr.c /\ wr'.pc = "idle"
  BY <1>1, <1>3 DEF Writers
<1>8. head' = (L + wr.w) % Capacity /\ head' \in Slots
  BY <1>1, <1>2, CursorAdvance DEF RInv, Cursors, L
<1>9. TypeOK'
  <2>1. gone' \in 0 .. Len(log')
    BY <1>1, <1>2, <1>6
  <2> QED
    BY <1>1, <1>3, <1>6, <1>7, <1>8, <2>1 DEF TypeOK
<1>10. Cursors'
  <2>1. Len(log') - gone <= Mask
    BY <1>2, <1>4, <1>6
  <2> QED
    BY <1>1, <1>6, <1>8, <2>1 DEF RInv, Cursors
<1>11. WriterFacts' /\ Copied'
  BY <1>7 DEF WriterFacts, Copied
<1>12. PublishedPlanar'
  <2> SUFFICES ASSUME NEW c \in Chans, NEW i \in gone + 1 .. L + wr.w
               PROVE  buf[c][(i - 1) % Capacity] = <<c, log'[i]>>
    BY <1>1, <1>6 DEF PublishedPlanar
  <2>1. CASE i <= L
    <3>1. i \in gone + 1 .. L /\ i \in 1 .. L
      BY <1>2, <2>1
    <3> QED
      BY <1>6, <3>1 DEF RInv, PublishedPlanar, L
  <2>2. CASE ~(i <= L)
    <3> DEFINE s == i - 1 - L
    <3>1. s \in 0 .. wr.w - 1 /\ L + s = i - 1 /\ s + 1 \in 1 .. wr.w
          /\ L + (s + 1) = i /\ wr.base + s + 1 = wr.base + (s + 1)
      BY <1>2, <2>2
    <3> HIDE DEF s
    <3>2. buf[c][(L + s) % Capacity] = <<c, wr.base + s + 1>>
      BY <1>1, <3>1 DEF RInv, Copied, L
    <3>3. log'[L + (s + 1)] = wr.base + (s + 1)
      BY <1>6, <3>1
    <3> QED
      BY <3>1, <3>2, <3>3
  <2> QED
    BY <2>1, <2>2
<1>13. ReaderFacts'
  BY <1>1, <1>2, <1>6, SMTT(30) DEF RInv, ReaderFacts, L
<1>14. ReadSoFar'
  <2> SUFFICES ASSUME rd.pc # "idle", NEW c \in Chans
               PROVE  /\ Len(rd.dst[c]) = Taken(c)
                      /\ \A i \in 1 .. Taken(c) : rd.dst[c][i] = <<c, log'[gone + i]>>
    BY <1>1 DEF ReadSoFar, Taken
  <2>1. /\ Len(rd.dst[c]) = Taken(c)
        /\ \A i \in 1 .. Taken(c) : rd.dst[c][i] = <<c, log[gone + i]>>
    BY DEF RInv, ReadSoFar
  <2>2. Taken(c) \in Nat /\ Taken(c) <= L - gone
    <3>1. rd.s \in Nat /\ rd.k \in Nat /\ L - gone \in Nat
      BY <1>2, StateFacts DEF RInv
    <3> QED
      BY <3>1 DEF RInv, ReaderFacts, Taken, L
  <2>3. ASSUME NEW i \in 1 .. Taken(c)
        PROVE  log'[gone + i] = log[gone + i]
    <3>1. gone + i \in 1 .. L
      BY <1>2, <2>2
    <3> QED
      BY <1>6, <3>1
  <2> QED
    BY <2>1, <2>3
<1> QED
  BY <1>9, <1>10, <1>11, <1>12, <1>13, <1>14 DEF RInv

-----------------------------------------------------------------------------
(* Each step of the callback keeps the invariant.  Two facts serve all of  *)
(* them: a step that only moves the callback's locals leaves the feeder's  *)
(* half alone, and so does one that frees the oldest samples.              *)
LEMMA ReaderStep ==
  ASSUME RInv, UNCHANGED <<ringVars, wr, offered, log, gone, batch>>,
         rd' \in Readers, rd'.c \in Chans, ReaderFacts', ReadSoFar'
  PROVE  RInv'
<1>1. UNCHANGED <<head, tail, buf, underruns, overruns, wr, offered, log, gone, batch>>
  BY DEF ringVars
<1>2. TypeOK'
  BY <1>1 DEF RInv, TypeOK
<1>3. Cursors' /\ WriterFacts' /\ Copied' /\ PublishedPlanar'
  BY <1>1 DEF RInv, Cursors, WriterFacts, Copied, PublishedPlanar
<1> QED
  BY <1>2, <1>3 DEF RInv

(* Moving tail over samples that are there keeps all but the callback's    *)
(* own facts, and only widens the room the feeder counted on.              *)
LEMMA ReaderFrees ==
  ASSUME RInv, NEW k \in Nat, k <= Len(log) - gone,
         gone' = gone + k, tail' = (tail + k) % Capacity,
         UNCHANGED <<head, buf, overruns, wr, offered, log>>,
         underruns' \in 0 .. CountMod - 1, batch' \in Seq(0 .. MaxOffered),
         rd' \in Readers, rd'.c \in Chans, ReaderFacts', ReadSoFar'
  PROVE  RInv'
<1> USE ConstFacts
<1>1. Len(log) \in Nat /\ gone \in Nat /\ gone <= Len(log) /\ wr.w \in Nat
  BY StateFacts DEF RInv
<1>2. tail' = (gone + k) % Capacity /\ tail' \in Slots
  BY <1>1, CursorAdvance DEF RInv, Cursors
<1>3. gone' \in 0 .. Len(log)
  BY <1>1
<1>4. TypeOK'
  BY <1>2, <1>3 DEF RInv, TypeOK
<1>5. Cursors'
  <2>1. Len(log) - gone <= Mask /\ head = Len(log) % Capacity
    BY DEF RInv, Cursors
  <2>2. Len(log) - (gone + k) <= Mask
    BY <1>1, <2>1
  <2> QED
    BY <1>2, <2>1, <2>2 DEF Cursors
<1>6. WriterFacts'
  <2>1. wr.pc \in {"copy", "publish"} => Len(log) - (gone + k) + wr.w <= Mask
    BY <1>1 DEF RInv, WriterFacts
  <2> QED
    BY <2>1 DEF RInv, WriterFacts
<1>7. Copied'
  BY DEF RInv, Copied
<1>8. PublishedPlanar'
  <2>1. \A i \in gone' + 1 .. Len(log) : i \in gone + 1 .. Len(log)
    BY <1>1
  <2> QED
    BY <2>1 DEF RInv, PublishedPlanar
<1> QED
  BY <1>4, <1>5, <1>6, <1>7, <1>8 DEF RInv

(* on_process is called.                                                   *)
LEMMA ProcessBeginRInv ==
  ASSUME RInv, NEW n \in Quanta, ProcessBegin(n)
  PROVE  RInv'
<1> USE ConstFacts
<1>1. /\ rd' = [rd EXCEPT !.pc = "trim", !.n = n, !.dst = NoDst]
      /\ UNCHANGED <<ringVars, wr, offered, log, gone, batch>>
  BY DEF ProcessBegin
<1>2. n \in Nat /\ rd \in Readers /\ rd.c \in Chans
  BY RingAssumption DEF RInv, TypeOK
<1>3. NoDst \in [Chans -> Seq(Sample \cup {Blank})] /\ \A c \in Chans : Len(NoDst[c]) = 0
  BY DEF NoDst
<1>4. rd' \in Readers /\ rd'.c = rd.c /\ rd'.pc = "trim" /\ rd'.dst = NoDst
  BY <1>1, <1>2, <1>3 DEF Readers
<1>5. ReaderFacts' /\ ReadSoFar'
  BY <1>3, <1>4 DEF ReaderFacts, ReadSoFar, Taken
<1> QED
  BY <1>1, <1>2, <1>4, <1>5, ReaderStep

(* The trim looks at what is there: the excess is part of it.              *)
LEMMA TrimLoadRInv ==
  ASSUME RInv, TrimLoad
  PROVE  RInv'
<1> USE ConstFacts
<1> DEFINE keep == TrimQuanta * rd.n
           k == IF readable <= keep THEN 0 ELSE readable - keep
           pc == IF readable <= keep THEN "load" ELSE "drop"
<1>1. /\ rd' = [rd EXCEPT !.pc = pc, !.k = k, !.seen = Len(log)] /\ rd.pc = "trim"
      /\ UNCHANGED <<ringVars, wr, offered, log, gone, batch>>
  BY DEF TrimLoad
<1>2. /\ rd \in Readers /\ rd.c \in Chans /\ Len(log) \in Nat /\ gone \in Nat
      /\ gone <= Len(log) /\ rd.n \in Nat
  BY StateFacts DEF RInv, TypeOK
<1>3. readable = Len(log) - gone
  BY ReadableIs DEF RInv
<1>4. keep \in Nat
  BY <1>2, RingAssumption
<1> HIDE DEF keep
<1>5. k \in Nat /\ k <= Len(log) - gone /\ pc \in {"load", "drop"}
  BY <1>2, <1>3, <1>4
<1> HIDE DEF k, pc
<1>6. rd' \in Readers /\ rd'.c = rd.c /\ rd'.pc = pc /\ rd'.k = k /\ rd'.dst = rd.dst
  BY <1>1, <1>2, <1>5 DEF Readers
<1>7. ReaderFacts'
  BY <1>1, <1>5, <1>6 DEF ReaderFacts
<1>8. ReadSoFar'
  BY <1>1, <1>5, <1>6 DEF RInv, ReadSoFar, Taken
<1> QED
  BY <1>1, <1>2, <1>6, <1>7, <1>8, ReaderStep

(* The trim moves tail.                                                    *)
LEMMA TrimDropRInv ==
  ASSUME RInv, TrimDrop
  PROVE  RInv'
<1>1. /\ rd.pc = "drop" /\ rd' = [rd EXCEPT !.pc = "load"]
      /\ tail' = (tail + rd.k) % Capacity /\ gone' = gone + rd.k
      /\ UNCHANGED <<head, buf, underruns, overruns, wr, offered, log, batch>>
  BY DEF TrimDrop
<1>2. /\ rd \in Readers /\ rd.c \in Chans /\ rd.k \in Nat
      /\ underruns \in 0 .. CountMod - 1 /\ batch \in Seq(0 .. MaxOffered)
  BY StateFacts DEF RInv, TypeOK
<1>3. rd' \in Readers /\ rd'.c = rd.c /\ rd'.pc = "load" /\ rd'.dst = rd.dst
  BY <1>1, <1>2 DEF Readers
<1>4. rd.k <= Len(log) - gone
  BY <1>1 DEF RInv, ReaderFacts
<1>5. \A c \in Chans : Len(rd.dst[c]) = 0
  BY <1>1 DEF RInv, ReadSoFar, Taken
<1>6. ReaderFacts' /\ ReadSoFar'
  BY <1>3, <1>5 DEF ReaderFacts, ReadSoFar, Taken
<1> QED
  BY <1>1, <1>2, <1>3, <1>4, <1>6, ReaderFrees

(* The read looks at what is there.                                        *)
LEMMA ReadLoadRInv ==
  ASSUME RInv, ReadLoad
  PROVE  RInv'
<1> USE ConstFacts
<1> DEFINE real == IF readable < rd.n THEN readable ELSE rd.n
           pc == IF real = 0 THEN "store" ELSE "copy"
<1>1. /\ rd.pc = "load" /\ rd' = [rd EXCEPT !.pc = pc, !.k = real, !.c = 0, !.s = 0]
      /\ UNCHANGED <<ringVars, wr, offered, log, gone, batch>>
  BY DEF ReadLoad
<1>2. /\ rd \in Readers /\ Len(log) \in Nat /\ gone \in Nat
      /\ gone <= Len(log) /\ rd.n \in Nat
  BY StateFacts DEF RInv, TypeOK
<1>3. readable = Len(log) - gone
  BY ReadableIs DEF RInv
<1>4. real \in Nat /\ real <= Len(log) - gone
  BY <1>2, <1>3
<1>5. \A c \in Chans : Len(rd.dst[c]) = 0
  BY <1>1 DEF RInv, ReadSoFar, Taken
<1> HIDE DEF real
<1>6. /\ rd' \in Readers /\ rd'.c = 0 /\ rd'.s = 0 /\ rd'.k = real /\ rd'.pc = pc
      /\ rd'.dst = rd.dst
  BY <1>1, <1>2, <1>4 DEF Readers
<1>7. ReaderFacts'
  BY <1>1, <1>4, <1>6 DEF ReaderFacts
<1>8. \A c \in Chans : Taken(c)' = 0
  BY <1>6 DEF Taken, Chans
<1>9. ReadSoFar'
  BY <1>1, <1>5, <1>6, <1>8 DEF ReadSoFar
<1> QED
  BY <1>1, <1>6, <1>7, <1>9, ReaderStep

(* One turn of the read loop appends the next oldest sample of a channel.  *)
LEMMA ReadCopyRInv ==
  ASSUME RInv, ReadCopy
  PROVE  RInv'
<1> USE ConstFacts
<1> DEFINE val == buf[rd.c][(tail + rd.s) % Capacity]
           dst == [rd.dst EXCEPT ![rd.c] = Append(rd.dst[rd.c], val)]
           adv == Advance(rd, rd.k, "store")
<1>1. /\ rd.pc = "copy" /\ rd' = [adv EXCEPT !.dst[rd.c] = Append(@, val)]
      /\ UNCHANGED <<ringVars, wr, offered, log, gone, batch>>
      /\ log' = log /\ gone' = gone
  BY DEF ReadCopy
<1>2. /\ Len(log) \in Nat /\ gone \in Nat /\ gone <= Len(log)
      /\ rd.k \in Nat /\ rd.c \in Chans /\ rd.c \in Nat /\ rd.s \in Nat
  BY StateFacts DEF RInv
<1>3. rd \in Readers /\ rd.dst \in [Chans -> Seq(Sample \cup {Blank})]
  BY StateFacts DEF RInv, TypeOK
<1>4. rd.k <= Len(log) - gone /\ rd.s < rd.k
  BY <1>1 DEF RInv, ReaderFacts
<1>5. val = <<rd.c, log[gone + rd.s + 1]>> /\ val \in Sample
  <2>1. (tail + rd.s) % Capacity = (gone + rd.s) % Capacity
    BY <1>2, CursorAdvance DEF RInv, Cursors
  <2>2. gone + rd.s + 1 \in gone + 1 .. Len(log) /\ (gone + rd.s + 1) - 1 = gone + rd.s
    BY <1>2, <1>4
  <2>3. buf[rd.c][(gone + rd.s) % Capacity] = <<rd.c, log[gone + rd.s + 1]>>
    BY <1>2, <2>2 DEF RInv, PublishedPlanar
  <2>4. log[gone + rd.s + 1] \in 1 .. MaxOffered
    <3>1. gone + rd.s + 1 \in 1 .. Len(log) /\ log \in Seq(1 .. MaxOffered)
      BY <1>2, <1>4, SMTT(30) DEF RInv, TypeOK
    <3> QED
      BY <3>1
  <2>5. val = <<rd.c, log[gone + rd.s + 1]>>
    BY <2>1, <2>3
  <2>6. <<rd.c, log[gone + rd.s + 1]>> \in Sample
    BY <1>2, <2>4 DEF Sample
  <2> QED
    BY <2>5, <2>6
<1> HIDE DEF val
<1>6. /\ dst \in [Chans -> Seq(Sample \cup {Blank})]
      /\ Len(dst[rd.c]) = Len(rd.dst[rd.c]) + 1
      /\ dst[rd.c][Len(rd.dst[rd.c]) + 1] = val
      /\ \A i \in 1 .. Len(rd.dst[rd.c]) : dst[rd.c][i] = rd.dst[rd.c][i]
      /\ \A c \in Chans : c # rd.c => dst[c] = rd.dst[c]
  <2>1. rd.dst[rd.c] \in Seq(Sample \cup {Blank}) /\ val \in Sample \cup {Blank}
    BY <1>2, <1>3, <1>5
  <2>2. dst[rd.c] = Append(rd.dst[rd.c], val)
    BY <1>2, <1>3
  <2>3. Append(rd.dst[rd.c], val) \in Seq(Sample \cup {Blank})
    BY <2>1
  <2>4. dst \in [Chans -> Seq(Sample \cup {Blank})]
    BY <1>3, <2>3
  <2>5. \A c \in Chans : c # rd.c => dst[c] = rd.dst[c]
    BY <1>3
  <2> HIDE DEF dst
  <2> QED
    BY <2>1, <2>2, <2>4, <2>5
<1>7. /\ Len(rd.dst[rd.c]) = rd.s
      /\ \A c \in Chans : Len(rd.dst[c]) = Taken(c)
      /\ \A c \in Chans : \A i \in 1 .. Taken(c) : rd.dst[c][i] = <<c, log[gone + i]>>
  <2>1. Taken(rd.c) = rd.s
    BY <1>1, <1>2 DEF Taken
  <2>2. /\ \A c \in Chans : Len(rd.dst[c]) = Taken(c)
        /\ \A c \in Chans : \A i \in 1 .. Taken(c) : rd.dst[c][i] = <<c, log[gone + i]>>
    BY <1>1 DEF RInv, ReadSoFar
  <2> QED
    BY <1>2, <2>1, <2>2
<1> HIDE DEF dst
<1>8. /\ rd' \in Readers /\ rd'.c \in Chans /\ rd'.dst = dst /\ rd'.k = rd.k
      /\ rd'.pc \in {"copy", "store"}
      /\ rd'.pc = "copy" => rd'.s < rd.k
      /\ \A c \in Chans : Taken(c)' = IF c = rd.c THEN rd.s + 1 ELSE Taken(c)
  <2>1. CASE rd.s + 1 < rd.k
    <3> DEFINE ns == rd.s + 1
    <3>1. adv = [rd EXCEPT !.s = ns]
      BY <2>1 DEF Advance
    <3>2. ns \in Nat
      BY <1>2
    <3> HIDE DEF adv, ns
    <3>3. /\ rd' \in Readers /\ rd'.c = rd.c /\ rd'.dst = dst /\ rd'.k = rd.k
          /\ rd'.pc = rd.pc /\ rd'.s = ns
      BY <1>1, <1>3, <1>6, <3>1, <3>2 DEF Readers, dst
    <3>4. \A c \in Chans : Taken(c)' = IF c = rd.c THEN rd.s + 1 ELSE Taken(c)
      BY <1>1, <1>2, <3>3 DEF Taken, ns, Chans
    <3> QED
      BY <1>1, <1>2, <2>1, <3>3, <3>4 DEF ns
  <2>2. CASE ~(rd.s + 1 < rd.k) /\ rd.c + 1 < NChannels
    <3> DEFINE nc == rd.c + 1
    <3>1. adv = [rd EXCEPT !.c = nc, !.s = 0]
      BY <2>2 DEF Advance
    <3>2. nc \in Nat /\ nc \in Chans
      BY <1>2, <2>2 DEF Chans
    <3> HIDE DEF adv, nc
    <3>3. /\ rd' \in Readers /\ rd'.c = nc /\ rd'.dst = dst /\ rd'.k = rd.k
          /\ rd'.pc = rd.pc /\ rd'.s = 0
      BY <1>1, <1>3, <1>6, <3>1, <3>2 DEF Readers, dst
    <3>4. ASSUME NEW c \in Chans
          PROVE  Taken(c)' = IF c = rd.c THEN rd.s + 1 ELSE Taken(c)
      <4>1. c \in Nat /\ rd.k = rd.s + 1 /\ nc = rd.c + 1
        BY <1>2, <1>4, <2>2 DEF Chans, nc
      <4>2. /\ Taken(c)' = IF c < nc THEN rd.k ELSE IF c = nc THEN 0 ELSE 0
            /\ Taken(c) = IF c < rd.c THEN rd.k ELSE IF c = rd.c THEN rd.s ELSE 0
        BY <1>1, <3>3 DEF Taken
      <4> QED
        BY <1>2, <4>1, <4>2
    <3> QED
      BY <1>1, <1>2, <1>4, <3>2, <3>3, <3>4, SMTT(30)
  <2>3. CASE ~(rd.s + 1 < rd.k) /\ ~(rd.c + 1 < NChannels)
    <3>1. adv = [rd EXCEPT !.pc = "store"]
      BY <2>3 DEF Advance
    <3> HIDE DEF adv
    <3>2. /\ rd' \in Readers /\ rd'.c = rd.c /\ rd'.dst = dst /\ rd'.k = rd.k
          /\ rd'.pc = "store" /\ rd'.s = rd.s
      BY <1>1, <1>3, <1>6, <3>1 DEF Readers, dst
    <3>3. ASSUME NEW c \in Chans
          PROVE  Taken(c)' = IF c = rd.c THEN rd.s + 1 ELSE Taken(c)
      <4>1. c \in Nat /\ c <= rd.c /\ rd.k = rd.s + 1
        BY <1>2, <1>4, <2>3 DEF Chans
      <4>2. /\ Taken(c)' = rd.k
            /\ Taken(c) = IF c < rd.c THEN rd.k ELSE IF c = rd.c THEN rd.s ELSE 0
        BY <1>1, <3>2 DEF Taken
      <4> QED
        BY <1>2, <4>1, <4>2
    <3> QED
      BY <1>2, <3>2, <3>3
  <2> QED
    BY <2>1, <2>2, <2>3
<1>9. ReaderFacts'
  BY <1>1, <1>4, <1>8 DEF ReaderFacts
<1>10. ReadSoFar'
  <2> SUFFICES ASSUME NEW c \in Chans
               PROVE  /\ Len(dst[c]) = Taken(c)'
                      /\ \A i \in 1 .. Taken(c)' : dst[c][i] = <<c, log[gone + i]>>
    <3>1. rd'.dst = dst /\ log' = log /\ gone' = gone
      BY <1>1, <1>8
    <3> QED
      BY <3>1 DEF ReadSoFar
  <2>1. CASE c = rd.c
    <3>1. Taken(c)' = rd.s + 1 /\ Taken(c) = rd.s
      BY <1>7, <1>8, <2>1
    <3>2. ASSUME NEW i \in 1 .. rd.s + 1
          PROVE  dst[c][i] = <<c, log[gone + i]>>
      <4>1. CASE i = rd.s + 1
        <5>1. gone + i = gone + rd.s + 1
          BY <1>2, <4>1
        <5> QED
          BY <1>5, <1>6, <1>7, <2>1, <4>1, <5>1
      <4>2. CASE i # rd.s + 1
        <5>1. i \in 1 .. rd.s
          BY <1>2, <4>2
        <5> QED
          BY <1>6, <1>7, <2>1, <3>1, <5>1
      <4> QED
        BY <4>1, <4>2
    <3> QED
      BY <1>6, <1>7, <2>1, <3>1, <3>2
  <2>2. CASE c # rd.c
    BY <1>6, <1>7, <1>8, <2>2
  <2> QED
    BY <2>1, <2>2
<1> QED
  BY <1>1, <1>8, <1>9, <1>10, ReaderStep

(* The read gives its slots back; what it hands out is the front of the    *)
(* queue.                                                                  *)
LEMMA ReadStoreRInv ==
  ASSUME RInv, ReadStore
  PROVE  /\ RInv'
         /\ batch' = [i \in 1 .. rd.k |-> log[gone + i]]
<1> USE ConstFacts
<1>1. /\ rd.pc = "store" /\ rd' = [rd EXCEPT !.pc = "idle"]
      /\ tail' = (tail + rd.k) % Capacity /\ gone' = gone + rd.k
      /\ underruns' = (underruns + rd.n - rd.k) % CountMod
      /\ batch' = [i \in 1 .. rd.k |-> rd.dst[0][i][2]]
      /\ UNCHANGED <<head, buf, overruns, wr, offered, log>>
  BY DEF ReadStore
<1>2. /\ rd.k \in Nat /\ rd.n \in Nat /\ Len(log) \in Nat /\ gone \in Nat
      /\ gone <= Len(log)
  BY StateFacts DEF RInv
<1>3. /\ rd \in Readers /\ rd.c \in Chans /\ underruns \in 0 .. CountMod - 1
      /\ log \in Seq(1 .. MaxOffered)
  BY DEF RInv, TypeOK
<1>4. rd' \in Readers /\ rd'.c = rd.c /\ rd'.pc = "idle"
  BY <1>1, <1>3 DEF Readers
<1>5. rd.k <= Len(log) - gone
  BY <1>1 DEF RInv, ReaderFacts
<1>6. underruns' \in 0 .. CountMod - 1
  <2>1. underruns + rd.n - rd.k \in Int
    BY <1>2, <1>3
  <2> QED
    BY <1>1, <2>1, DivMod
<1>7. \A i \in 1 .. rd.k : rd.dst[0][i] = <<0, log[gone + i]>>
  BY <1>1 DEF RInv, ReadSoFar, Taken
<1>8. batch' = [i \in 1 .. rd.k |-> log[gone + i]]
  BY <1>1, <1>7
<1>9. batch' \in Seq(0 .. MaxOffered)
  <2>1. \A i \in 1 .. rd.k : log[gone + i] \in 0 .. MaxOffered
    <3> SUFFICES ASSUME NEW i \in 1 .. rd.k PROVE log[gone + i] \in 0 .. MaxOffered
      OBVIOUS
    <3>1. gone + i \in 1 .. Len(log)
      BY <1>2, <1>5
    <3>2. log[gone + i] \in 1 .. MaxOffered
      BY <1>3, <3>1
    <3> QED
      BY <3>2
  <2> QED
    BY <1>2, <1>8, <2>1
<1>10. ReaderFacts' /\ ReadSoFar'
  BY <1>4 DEF ReaderFacts, ReadSoFar
<1>11. RInv'
  BY <1>1, <1>2, <1>3, <1>4, <1>5, <1>6, <1>9, <1>10, ReaderFrees
<1> QED
  BY <1>8, <1>11

-----------------------------------------------------------------------------
(* Every step of either thread keeps the invariant.                        *)
LEMMA NextRInv ==
  ASSUME BlocksFit, RInv, [Next]_vars
  PROVE  RInv'
<1>1. ASSUME NEW n \in Blocks, WriteBegin(n) PROVE RInv'
  BY <1>1, WriteBeginRInv
<1>2. CASE WriteSpace
  BY <1>2, WriteSpaceRInv
<1>3. CASE WriteCopy
  BY <1>3, WriteCopyRInv
<1>4. CASE WritePublish
  BY <1>4, WritePublishRInv
<1>5. ASSUME NEW n \in Quanta, ProcessBegin(n) PROVE RInv'
  BY <1>5, ProcessBeginRInv
<1>6. CASE TrimLoad
  BY <1>6, TrimLoadRInv
<1>7. CASE TrimDrop
  BY <1>7, TrimDropRInv
<1>8. CASE ReadLoad
  BY <1>8, ReadLoadRInv
<1>9. CASE ReadCopy
  BY <1>9, ReadCopyRInv
<1>10. CASE ReadStore
  BY <1>10, ReadStoreRInv
<1>11. CASE UNCHANGED vars
  <2>1. UNCHANGED <<head, tail, buf, underruns, overruns, wr, rd, offered, log, gone, batch>>
    BY <1>11 DEF vars, ringVars
  <2>2. TypeOK'
    BY <2>1 DEF RInv, TypeOK
  <2>3. Cursors' /\ WriterFacts' /\ Copied' /\ PublishedPlanar' /\ ReaderFacts' /\ ReadSoFar'
    BY <2>1 DEF RInv, Cursors, WriterFacts, Copied, PublishedPlanar, ReaderFacts,
                ReadSoFar, Taken
  <2> QED
    BY <2>2, <2>3 DEF RInv
<1> QED
  BY <1>1, <1>2, <1>3, <1>4, <1>5, <1>6, <1>7, <1>8, <1>9, <1>10, <1>11
     DEF Next, Feeder, Callback

(* The inductive invariant holds in every state: head and tail are the     *)
(* numbers of samples accepted and gone, modulo the capacity; what each    *)
(* thread saw of the other's cursor is stale on the safe side only; what   *)
(* the feeder copied and what the callback copied is what they should.     *)
THEOREM RingInvariant ==
  ASSUME BlocksFit
  PROVE  Spec => []RInv
<1>1. Init => RInv
  BY InitRInv
<1>2. RInv /\ [Next]_vars => RInv'
  BY NextRInv
<1> QED
  BY <1>1, <1>2, PTL DEF Spec

(* The ring's cursors, slots and counters stay in their ranges.            *)
THEOREM RingTypeCorrect ==
  ASSUME BlocksFit
  PROVE  Spec => []TypeOK
<1>1. RInv => TypeOK
  BY DEF RInv
<1> QED
  BY <1>1, RingInvariant, PTL

(* reac_ring_write never touches a slot reac_ring_read_planar is reading.  *)
THEOREM RingNeverRaces ==
  ASSUME BlocksFit
  PROVE  Spec => []NoSharedSlot
<1>1. RInv => NoSharedSlot
  <2> SUFFICES ASSUME RInv, wr.pc \in {"copy", "publish"}, rd.pc \in {"drop", "copy", "store"},
                      NEW s \in 0 .. wr.w - 1, NEW t \in 0 .. rd.k - 1,
                      (head + s) % Capacity = (tail + t) % Capacity
               PROVE  FALSE
    BY DEF NoSharedSlot, Writing, Reading
  <2> USE ConstFacts
  <2>1. /\ Len(log) \in Nat /\ gone \in Nat /\ gone <= Len(log) /\ wr.w \in Nat
        /\ rd.k \in Nat
    BY StateFacts DEF RInv
  <2>2. Len(log) - gone + wr.w <= Mask /\ rd.k <= Len(log) - gone
    BY DEF RInv, WriterFacts, ReaderFacts
  <2>3. s \in Nat /\ t \in Nat
    BY <2>1
  <2>4. (Len(log) + s) % Capacity = (gone + t) % Capacity
    BY <2>1, <2>3, CursorAdvance DEF RInv, Cursors
  <2>5. /\ gone + t \in Int /\ Len(log) + s \in Int
        /\ gone + t < Len(log) + s /\ (Len(log) + s) - (gone + t) < Capacity
    BY <2>1, <2>2, <2>3, SMTT(30)
  <2> QED
    BY <2>4, <2>5, ModDistinct
<1> QED
  BY <1>1, RingInvariant, PTL

(* reac_ring_read_planar hands out the same sample for every channel.      *)
THEOREM PlanesAlwaysAligned ==
  ASSUME BlocksFit
  PROVE  Spec => []PlanesAligned
<1>1. RInv => PlanesAligned
  <2> SUFFICES ASSUME RInv, rd.pc = "store", NEW c \in Chans, NEW i \in 1 .. rd.k
               PROVE  rd.dst[c][i] = <<c, rd.dst[0][i][2]>>
    BY DEF PlanesAligned
  <2>1. \A d \in Chans : rd.dst[d][i] = <<d, log[gone + i]>>
    BY DEF RInv, ReadSoFar, Taken
  <2>2. rd.dst[0][i] = <<0, log[gone + i]>>
    BY <2>1, ConstFacts
  <2> QED
    BY <2>1, <2>2
<1> QED
  BY <1>1, RingInvariant, PTL

(* Every published slot holds the sample the caller put at planar[c*n+s].  *)
THEOREM AlwaysPublishedPlanar ==
  ASSUME BlocksFit
  PROVE  Spec => []PublishedPlanar
<1>1. RInv => PublishedPlanar
  BY DEF RInv
<1> QED
  BY <1>1, RingInvariant, PTL

-----------------------------------------------------------------------------
(* The counters and the latency.                                           *)

(* Counts that agree modulo the counters' width still do when both move by *)
(* as much.                                                                *)
LEMMA CountsMove ==
  ASSUME NEW x \in Int, NEW t \in Int, x % CountMod = t % CountMod, NEW d \in Int
  PROVE  (x + d) % CountMod = (t + d) % CountMod
<1>1. CountMod \in Nat \ {0}
  BY ConstFacts
<1>2. ((x % CountMod) + d) % CountMod = (x + d) % CountMod
  BY <1>1, ModAdd
<1>3. ((t % CountMod) + d) % CountMod = (t + d) % CountMod
  BY <1>1, ModAdd
<1> QED
  BY <1>2, <1>3

(* One turn of the copy loop leaves the block's length and place alone.    *)
LEMMA CopyKeepsBlock ==
  ASSUME RInv, WriteCopy
  PROVE  wr'.w = wr.w /\ wr'.base = wr.base /\ wr'.pc \in {"copy", "publish"} /\ wr.pc = "copy"
<1>1. wr \in Writers /\ wr.pc = "copy" /\ wr' = Advance(wr, wr.w, "publish")
  BY DEF RInv, TypeOK, WriteCopy
<1> QED
  BY <1>1 DEF Advance, Writers

(* A step of the feeder keeps the account of what was offered.             *)
LEMMA FeederCounts ==
  ASSUME BlocksFit, RInv, DropsCounted, Feeder
  PROVE  DropsCounted'
<1> USE ConstFacts
<1>1. /\ Len(log) \in Nat /\ overruns \in Nat /\ offered \in Nat /\ wr.w \in Nat
      /\ wr.base \in Nat /\ wr.n \in Nat /\ wr \in Writers
  BY StateFacts DEF RInv, TypeOK
<1>2. ASSUME NEW n \in Blocks, WriteBegin(n) PROVE DropsCounted'
  BY <1>1, <1>2 DEF WriteBegin, ringVars, Writers, DropsCounted
<1>3. CASE WriteSpace
  <2> DEFINE w == IF wr.w > writable THEN writable ELSE wr.w
             d == wr.w - w
  <2>1. /\ wr.pc = "space" /\ overruns' = (overruns + wr.w - w) % CountMod
        /\ wr' = [wr EXCEPT !.pc = IF w = 0 THEN "idle" ELSE "copy", !.w = w, !.c = 0, !.s = 0]
        /\ UNCHANGED <<offered, log>>
    BY <1>3 DEF WriteSpace
  <2>2. /\ wr.w = wr.n /\ wr.base + wr.n = offered
    BY <2>1 DEF RInv, WriterFacts
  <2>3. w \in Int
    <3>1. writable \in Int
      BY <1>1, ReadableIs, StateFacts DEF RInv, writable
    <3> QED
      BY <1>1, <3>1
  <2> HIDE DEF w
  <2>4. d \in Int /\ overruns + wr.w - w = overruns + d /\ wr.base + d = offered - w
    BY ONLY <1>1, <2>2, <2>3
  <2>5. (Len(log) + overruns) % CountMod = wr.base % CountMod
    BY <2>1 DEF DropsCounted
  <2> HIDE DEF d
  <2>6. (Len(log) + ((overruns + d) % CountMod)) % CountMod = (wr.base + d) % CountMod
    <3> DEFINE L == Len(log)
               b == wr.base
    <3>1. L \in Int /\ b \in Int /\ overruns \in Int /\ d \in Int
      BY <1>1, <2>4
    <3>2. (L + overruns) % CountMod = b % CountMod
      BY <2>5
    <3> HIDE DEF L, b
    <3>3. (L + overruns + d) % CountMod = (b + d) % CountMod
      <4> DEFINE x == L + overruns
      <4>1. x \in Int /\ x % CountMod = b % CountMod
        BY <3>1, <3>2
      <4> HIDE DEF x
      <4>2. (x + d) % CountMod = (b + d) % CountMod
        BY ONLY <3>1, <4>1, CountsMove
      <4> QED
        BY <4>2 DEF x
    <3>4. (((overruns + d) % CountMod) + L) % CountMod = ((overruns + d) + L) % CountMod
      BY <3>1, overruns + d \in Int, ModAdd
    <3>5. (overruns + d) % CountMod \in Int
      BY <3>1, overruns + d \in Int, DivMod
    <3>6. /\ (overruns + d) + L = L + overruns + d
          /\ ((overruns + d) % CountMod) + L = L + ((overruns + d) % CountMod)
      BY <3>1, <3>5
    <3> QED
      BY <3>3, <3>4, <3>6 DEF L, b
  <2>7. (Len(log') + overruns') % CountMod = (offered - w) % CountMod
    BY <2>1, <2>4, <2>6
  <2>8. wr'.w = w /\ wr'.pc = IF w = 0 THEN "idle" ELSE "copy"
    BY <1>1, <2>1 DEF Writers
  <2>9. w = 0 => offered - w = offered
    BY <1>1
  <2> QED
    BY <2>1, <2>7, <2>8, <2>9 DEF DropsCounted
<1>4. CASE WriteCopy
  <2>1. wr'.w = wr.w /\ wr'.pc \in {"copy", "publish"} /\ wr.pc = "copy"
    BY <1>4, CopyKeepsBlock
  <2>2. UNCHANGED <<overruns, offered, log>>
    BY <1>4 DEF WriteCopy
  <2> QED
    BY <2>1, <2>2 DEF DropsCounted
<1>5. CASE WritePublish
  <2> DEFINE tip == [i \in 1 .. wr.w |-> wr.base + i]
  <2>1. /\ wr.pc = "publish" /\ wr'.pc = "idle" /\ log' = log \o tip
        /\ UNCHANGED <<overruns, offered>>
    BY <1>1, <1>5 DEF WritePublish, Writers
  <2>2. Len(log') = Len(log) + wr.w
    <3>1. tip \in Seq(Int) /\ Len(tip) = wr.w
      BY <1>1
    <3>2. log \in Seq(Int)
      <4>1. log \in Seq(1 .. MaxOffered)
        BY DEF RInv, TypeOK
      <4> QED
        BY <4>1
    <3> HIDE DEF tip
    <3>3. Len(log \o tip) = Len(log) + Len(tip)
      BY ONLY <3>1, <3>2, ConcatProperties
    <3> QED
      BY <2>1, <3>1, <3>3
  <2>3. (Len(log) + overruns) % CountMod = (offered - wr.w) % CountMod
    BY <2>1 DEF DropsCounted
  <2>4. ((Len(log) + wr.w) + overruns) % CountMod = ((offered - wr.w) + wr.w) % CountMod
    <3> DEFINE L == Len(log)
               w == wr.w
               t == offered - w
    <3>1. L \in Int /\ w \in Int /\ overruns \in Int /\ t \in Int
      BY <1>1
    <3>2. (L + overruns) % CountMod = t % CountMod
      BY <2>3
    <3> HIDE DEF L, w, t
    <3>3. ((L + w) + overruns) % CountMod = (t + w) % CountMod
      <4> DEFINE x == L + overruns
      <4>1. x \in Int /\ x % CountMod = t % CountMod
        BY <3>1, <3>2
      <4>2. x + w = (L + w) + overruns
        BY <3>1
      <4> HIDE DEF x
      <4>3. (x + w) % CountMod = (t + w) % CountMod
        BY ONLY <3>1, <4>1, CountsMove
      <4> QED
        BY <4>2, <4>3
    <3> QED
      BY <3>3 DEF L, w, t
  <2>5. (offered - wr.w) + wr.w = offered
    BY <1>1
  <2> QED
    BY <2>1, <2>2, <2>4, <2>5 DEF DropsCounted
<1> QED
  BY <1>2, <1>3, <1>4, <1>5 DEF Feeder

(* Whatever the callback frees meanwhile, every sample offered to          *)
(* reac_ring_write is published, about to be, or in overruns.              *)
THEOREM DropsAlwaysCounted ==
  ASSUME BlocksFit
  PROVE  Spec => []DropsCounted
<1>1. Init => DropsCounted
  BY DEF Init, DropsCounted
<1>2. RInv /\ DropsCounted /\ [Next]_vars => DropsCounted'
  <2> SUFFICES ASSUME RInv, DropsCounted, [Next]_vars PROVE DropsCounted'
    OBVIOUS
  <2>1. CASE Callback \/ UNCHANGED vars
    <3>1. UNCHANGED <<overruns, wr, offered, log>>
      BY <2>1 DEF Callback, ProcessBegin, TrimLoad, TrimDrop, ReadLoad, ReadCopy, ReadStore,
                  vars, ringVars
    <3> QED
      BY <3>1 DEF DropsCounted
  <2> QED
    BY <2>1, FeederCounts DEF Next
<1> QED
  BY <1>1, <1>2, RingInvariant, PTL DEF Spec

(* The latency is bounded before tail moves: what TrimDrop is about to     *)
(* skip is what the trim saw in excess of the quanta it keeps.             *)
Trimming ==
  rd.pc = "drop" => rd.seen - (gone + rd.k) <= TrimQuanta * rd.n

(* reac_ring_trim leaves at most TrimQuanta quanta of what had been        *)
(* published when it looked, for any quantum the graph asks for.           *)
THEOREM TrimAlwaysBoundsBacklog ==
  ASSUME BlocksFit
  PROVE  Spec => []TrimBoundsBacklog
<1>1. Init => Trimming /\ TrimBoundsBacklog
  BY DEF Init, Trimming, TrimBoundsBacklog
<1>2. RInv /\ Trimming /\ TrimBoundsBacklog /\ [Next]_vars => Trimming' /\ TrimBoundsBacklog'
  <2> SUFFICES ASSUME RInv, Trimming, TrimBoundsBacklog, [Next]_vars
               PROVE  Trimming' /\ TrimBoundsBacklog'
    OBVIOUS
  <2> USE DEF Trimming, TrimBoundsBacklog
  <2>1. /\ rd \in Readers /\ Len(log) \in Nat /\ gone \in Nat /\ gone <= Len(log)
        /\ rd.n \in Nat /\ rd.k \in Nat /\ rd.seen \in Nat
    BY StateFacts DEF RInv, TypeOK
  <2>2. CASE Feeder \/ UNCHANGED vars
    <3>1. UNCHANGED <<rd, gone>>
      BY <2>2 DEF Feeder, WriteBegin, WriteSpace, WriteCopy, WritePublish, vars
    <3> QED
      BY <3>1
  <2>3. ASSUME NEW n \in Quanta, ProcessBegin(n) PROVE Trimming' /\ TrimBoundsBacklog'
    BY <2>1, <2>3 DEF ProcessBegin, Readers
  <2>4. CASE TrimLoad
    <3> DEFINE keep == TrimQuanta * rd.n
    <3>1. readable = Len(log) - gone
      BY ReadableIs DEF RInv
    <3>2. keep \in Nat
      BY <2>1, RingAssumption
    <3>3. /\ rd'.n = rd.n /\ rd'.seen = Len(log) /\ gone' = gone
          /\ rd'.pc = IF readable <= keep THEN "load" ELSE "drop"
          /\ rd'.k = IF readable <= keep THEN 0 ELSE readable - keep
      BY <2>1, <2>4 DEF TrimLoad, Readers
    <3> HIDE DEF keep
    <3>4. rd'.pc = "load" => rd'.seen - gone' <= keep
      BY <2>1, <3>1, <3>2, <3>3
    <3>5. rd'.pc = "drop" => rd'.seen - (gone' + rd'.k) <= keep
      BY <2>1, <3>1, <3>2, <3>3
    <3> QED
      BY <3>3, <3>4, <3>5 DEF keep
  <2>5. CASE TrimDrop
    BY <2>1, <2>5 DEF TrimDrop, Readers
  <2>6. CASE ReadLoad \/ ReadCopy \/ ReadStore
    <3>1. rd'.pc \in {"idle", "copy", "store"}
      BY <2>1, <2>6 DEF ReadLoad, ReadCopy, ReadStore, Advance, Readers
    <3> QED
      BY <3>1
  <2> QED
    BY <2>2, <2>3, <2>4, <2>5, <2>6 DEF Next, Callback
<1> QED
  BY <1>1, <1>2, RingInvariant, PTL DEF Spec

-----------------------------------------------------------------------------
(* The refinement.                                                         *)

(* Freeing the k oldest samples is taking the front off the queue.         *)
LEMMA FreeFront ==
  ASSUME TypeOK, NEW k \in Nat, k <= Len(log) - gone
  PROVE  LET q == SubSeq(log, gone + 1, Len(log))
         IN  /\ Len(q) = Len(log) - gone
             /\ SubSeq(q, k + 1, Len(q)) = SubSeq(log, gone + k + 1, Len(log))
             /\ SubSeq(q, 1, k) = [i \in 1 .. k |-> log[gone + i]]
<1> DEFINE q == SubSeq(log, gone + 1, Len(log))
<1>1. /\ Len(log) \in Nat /\ gone \in Nat /\ gone <= Len(log)
      /\ log \in Seq(1 .. MaxOffered)
  BY StateFacts DEF TypeOK
<1>2. q = [i \in 1 .. Len(log) - gone |-> log[i + gone]] /\ Len(q) = Len(log) - gone
  BY <1>1
<1> HIDE DEF q
<1>3. SubSeq(q, k + 1, Len(q)) = [i \in 1 .. Len(log) - gone - k |-> log[i + k + gone]]
  BY <1>1, <1>2
<1>4. SubSeq(log, gone + k + 1, Len(log)) = [i \in 1 .. Len(log) - gone - k |-> log[i + gone + k]]
  BY <1>1
<1>5. SubSeq(q, 1, k) = [i \in 1 .. k |-> log[gone + i]]
  BY <1>1, <1>2
<1>6. SubSeq(q, k + 1, Len(q)) = SubSeq(log, gone + k + 1, Len(log))
  <2>1. \A i \in 1 .. Len(log) - gone - k : i + k + gone = i + gone + k
    BY <1>1
  <2>2. \A i \in 1 .. Len(log) - gone - k : log[i + k + gone] = log[i + gone + k]
    BY <2>1
  <2> QED
    BY <1>3, <1>4, <2>2
<1> QED
  BY <1>2, <1>5, <1>6 DEF q

(* The empty ring is the empty queue.                                      *)
LEMMA InitQueue ==
  ASSUME Init
  PROVE  Queue!QueueInit
<1>1. log = << >> /\ gone = 0 /\ offered = 0 /\ batch = << >> /\ wr.pc = "idle"
  BY DEF Init
<1>2. SubSeq(log, gone + 1, Len(log)) = << >>
  BY <1>1
<1> QED
  BY <1>1, <1>2 DEF Queue!QueueInit

(* A step that moves neither cursor, nor starts or ends a call of          *)
(* reac_ring_write, changes nothing of the queue.                          *)
LEMMA QueueStutter ==
  ASSUME UNCHANGED <<log, gone, batch>>,
         (IF wr'.pc = "idle" THEN offered' ELSE wr'.base)
           = (IF wr.pc = "idle" THEN offered ELSE wr.base)
  PROVE  UNCHANGED Queue!queueVars
BY DEF Queue!queueVars

(* The part of a sequence behind its first g elements.                     *)
LEMMA SubSeqInside ==
  ASSUME NEW s \in Seq(Nat), NEW g \in Nat, g <= Len(s)
  PROVE  /\ SubSeq(s, g + 1, Len(s)) \in Seq(Nat)
         /\ Len(SubSeq(s, g + 1, Len(s))) = Len(s) - g
         /\ \A i \in 1 .. Len(s) - g : SubSeq(s, g + 1, Len(s))[i] = s[g + i]
<1>1. Len(s) \in Nat
  OBVIOUS
<1>2. \A i \in g + 1 .. Len(s) : s[i] \in Nat
  BY <1>1
<1>3. g + 1 \in Int /\ Len(s) \in Int
  BY <1>1
<1>4. SubSeq(s, g + 1, Len(s)) \in Seq(Nat)
  BY <1>2, <1>3, SubSeqProperties
<1> QED
  BY <1>1, <1>4

(* Appending accepted samples to the log appends them to the queue.        *)
LEMMA AppendBack ==
  ASSUME TypeOK, NEW w \in Nat, NEW b \in Nat
  PROVE  LET blk == [i \in 1 .. w |-> b + i]
             ext == log \o blk
         IN  SubSeq(ext, gone + 1, Len(ext)) = SubSeq(log, gone + 1, Len(log)) \o blk
<1> DEFINE blk == [i \in 1 .. w |-> b + i]
           q   == SubSeq(log, gone + 1, Len(log))
           ext == log \o blk
<1>1. /\ Len(log) \in Nat /\ gone \in Nat /\ gone <= Len(log)
      /\ log \in Seq(1 .. MaxOffered)
  BY StateFacts DEF TypeOK
<1>2. blk \in Seq(Nat) /\ Len(blk) = w
  OBVIOUS
<1>3. log \in Seq(Nat)
  <2>1. 1 .. MaxOffered \subseteq Nat
    BY ConstFacts
  <2> QED
    BY <1>1, <2>1, SeqMonotonic
<1>4. /\ q \in Seq(Nat) /\ Len(q) = Len(log) - gone
      /\ \A i \in 1 .. Len(log) - gone : q[i] = log[gone + i]
  BY <1>1, <1>3, SubSeqInside
<1>5. ext \in Seq(Nat) /\ Len(ext) = Len(log) + w
  BY <1>1, <1>2, <1>3
<1>6. \A i \in 1 .. Len(log) + w :
        ext[i] = IF i <= Len(log) THEN log[i] ELSE blk[i - Len(log)]
  BY <1>1, <1>2
<1> HIDE DEF blk, q, ext
<1> DEFINE lhs == SubSeq(ext, gone + 1, Len(ext))
           rhs == q \o blk
<1>7. /\ Len(lhs) = Len(log) + w - gone /\ lhs \in Seq(Nat)
      /\ \A i \in 1 .. Len(log) + w - gone : lhs[i] = ext[gone + i]
  BY <1>1, <1>5, SubSeqInside
<1>8. /\ Len(rhs) = Len(log) - gone + w /\ rhs \in Seq(Nat)
      /\ \A i \in 1 .. Len(log) - gone + w :
           rhs[i] = IF i <= Len(log) - gone THEN q[i] ELSE blk[i - (Len(log) - gone)]
  <2>1. /\ Len(rhs) = Len(q) + Len(blk) /\ rhs \in Seq(Nat)
        /\ \A i \in 1 .. Len(q) + Len(blk) :
             rhs[i] = IF i <= Len(q) THEN q[i] ELSE blk[i - Len(q)]
    BY <1>2, <1>4, ConcatProperties
  <2> QED
    BY <1>2, <1>4, <2>1
<1> HIDE DEF lhs, rhs
<1>9. \A i \in 1 .. Len(log) + w - gone : lhs[i] = rhs[i]
  <2> SUFFICES ASSUME NEW i \in 1 .. Len(log) + w - gone PROVE lhs[i] = rhs[i]
    OBVIOUS
  <2>1. /\ gone + i \in 1 .. Len(log) + w /\ i \in 1 .. Len(log) - gone + w
        /\ (gone + i <= Len(log)) <=> (i <= Len(log) - gone)
        /\ (gone + i) - Len(log) = i - (Len(log) - gone)
    BY <1>1
  <2>2. lhs[i] = ext[gone + i]
    BY <1>7
  <2>3. CASE gone + i <= Len(log)
    <3>1. i \in 1 .. Len(log) - gone
      BY <1>1, <2>1, <2>3
    <3> QED
      BY <1>4, <1>6, <1>8, <2>1, <2>2, <2>3, <3>1
  <2>4. CASE ~(gone + i <= Len(log))
    <3>1. ext[gone + i] = blk[(gone + i) - Len(log)]
      BY <1>6, <2>1, <2>4
    <3>2. rhs[i] = blk[i - (Len(log) - gone)]
      BY <1>8, <2>1, <2>4
    <3> QED
      BY <2>1, <2>2, <3>1, <3>2
  <2> QED
    BY <2>3, <2>4
<1>10. Len(lhs) = Len(rhs)
  BY <1>1, <1>7, <1>8
<1>11. lhs = rhs
  BY <1>7, <1>8, <1>9, <1>10, SeqEqual
<1> QED
  BY <1>11 DEF lhs, rhs, ext, q, blk

(* The block the feeder had been called with enters, all but its end.      *)
LEMMA PublishIsOffer ==
  ASSUME RInv, WritePublish
  PROVE  Queue!QueueNext
<1>1. /\ wr.pc = "publish" /\ log' = log \o [i \in 1 .. wr.w |-> wr.base + i]
      /\ wr' = [wr EXCEPT !.pc = "idle"]
      /\ UNCHANGED <<offered, gone, batch>>
  BY DEF WritePublish
<1>2. /\ wr.w \in Nat /\ Len(log) \in Nat /\ gone \in Nat /\ gone <= Len(log)
      /\ wr.n \in Nat /\ wr.base \in Nat /\ TypeOK
  BY StateFacts DEF RInv
<1>3. /\ wr.n \in Blocks /\ wr.base + wr.n = offered /\ wr.w <= wr.n
      /\ Len(log) - gone + wr.w <= Mask
  BY <1>1 DEF RInv, WriterFacts
<1>4. wr'.pc = "idle"
  BY <1>1, <1>2 DEF TypeOK, Writers
<1>5. SubSeq(log, gone + 1, Len(log))'
        = SubSeq(log, gone + 1, Len(log)) \o [i \in 1 .. wr.w |-> wr.base + i]
  BY <1>1, <1>2, AppendBack
<1>6. Len(SubSeq(log, gone + 1, Len(log))) = Len(log) - gone
  BY <1>2 DEF TypeOK
<1>7. Queue!Offer(wr.n, wr.w)
  BY <1>1, <1>3, <1>4, <1>5, <1>6 DEF Queue!Offer
<1>8. wr.w \in 0 .. wr.n
  BY <1>2, <1>3
<1> QED
  BY <1>3, <1>7, <1>8 DEF Queue!QueueNext

(* A block for which there is no room is offered and wholly refused; any   *)
(* other is still to come when the feeder has looked at the free space.    *)
LEMMA SpaceIsOfferOrStutter ==
  ASSUME RInv, WriteSpace
  PROVE  Queue!QueueNext \/ UNCHANGED Queue!queueVars
<1> DEFINE w == IF wr.w > writable THEN writable ELSE wr.w
<1>1. /\ wr.pc = "space" /\ UNCHANGED <<log, gone, batch, offered>>
      /\ wr' = [wr EXCEPT !.pc = IF w = 0 THEN "idle" ELSE "copy",
                          !.w = w, !.c = 0, !.s = 0]
  BY DEF WriteSpace
<1> HIDE DEF w
<1>2. /\ Len(log) \in Nat /\ gone \in Nat /\ gone <= Len(log)
      /\ wr.n \in Nat /\ wr.base \in Nat /\ TypeOK /\ wr \in Writers
  BY StateFacts DEF RInv, TypeOK
<1>3. /\ wr.n \in Blocks /\ wr.base + wr.n = offered
  BY <1>1 DEF RInv, WriterFacts
<1>4. wr'.base = wr.base /\ wr'.pc = IF w = 0 THEN "idle" ELSE "copy"
  BY <1>1, <1>2 DEF Writers
<1>5. CASE w # 0
  BY <1>1, <1>4, <1>5, QueueStutter
<1>6. CASE w = 0
  <2>1. wr'.pc = "idle"
    BY <1>4, <1>6
  <2>2. SubSeq(log, gone + 1, Len(log)) \in Seq(Nat)
    <3>1. 1 .. MaxOffered \subseteq Nat /\ log \in Seq(1 .. MaxOffered)
      BY <1>2, ConstFacts DEF TypeOK
    <3> QED
      BY <1>2, <3>1, SeqMonotonic, SubSeqInside
  <2>3. [i \in 1 .. 0 |-> wr.base + i] = << >>
    OBVIOUS
  <2>4. SubSeq(log, gone + 1, Len(log)) \o [i \in 1 .. 0 |-> wr.base + i]
          = SubSeq(log, gone + 1, Len(log))
    BY <2>2, <2>3, ConcatEmptySeq
  <2>5. /\ 0 <= wr.n
        /\ Len(SubSeq(log, gone + 1, Len(log))) + 0 <= Mask
    <3>1. Len(SubSeq(log, gone + 1, Len(log))) = Len(log) - gone
      BY <1>2 DEF TypeOK
    <3>2. Len(log) - gone <= Mask
      BY DEF RInv, Cursors
    <3> QED
      BY <1>2, <3>1, <3>2
  <2>6. SubSeq(log, gone + 1, Len(log))' = SubSeq(log, gone + 1, Len(log))
    BY <1>1
  <2>7. Queue!Offer(wr.n, 0)
    BY <1>1, <1>3, <2>1, <2>4, <2>5, <2>6 DEF Queue!Offer
  <2>8. 0 \in 0 .. wr.n
    BY <1>2
  <2> QED
    BY <1>3, <2>7, <2>8 DEF Queue!QueueNext
<1> QED
  BY <1>5, <1>6

(* The trim forgets the oldest samples of the queue.                       *)
LEMMA TrimIsForget ==
  ASSUME RInv, TrimDrop
  PROVE  Queue!QueueNext \/ UNCHANGED Queue!queueVars
<1>1. rd.pc = "drop" /\ gone' = gone + rd.k /\ UNCHANGED <<wr, offered, log, batch>>
  BY DEF TrimDrop
<1>2. rd.k \in Nat /\ gone \in Nat /\ Len(log) \in Nat /\ TypeOK
  BY StateFacts DEF RInv
<1>3. rd.k <= Len(log) - gone
  BY <1>1 DEF RInv, ReaderFacts
<1>4. /\ Len(SubSeq(log, gone + 1, Len(log))) = Len(log) - gone
      /\ SubSeq(SubSeq(log, gone + 1, Len(log)), rd.k + 1, Len(SubSeq(log, gone + 1, Len(log))))
           = SubSeq(log, gone + rd.k + 1, Len(log))
  BY <1>2, <1>3, FreeFront
<1>5. Queue!Forget(rd.k)
  BY <1>1, <1>4 DEF Queue!Forget
<1>6. CASE rd.k = 0
  <2>1. gone' = gone
    BY <1>1, <1>2, <1>6
  <2> QED
    BY <1>1, <2>1, QueueStutter
<1>7. CASE rd.k # 0
  <2>1. rd.k \in 1 .. Len(SubSeq(log, gone + 1, Len(log)))
    BY <1>2, <1>3, <1>4, <1>7
  <2> QED
    BY <1>5, <2>1 DEF Queue!QueueNext
<1> QED
  BY <1>6, <1>7

(* The read hands out the oldest samples of the queue, in order.           *)
LEMMA ReadIsTake ==
  ASSUME RInv, ReadStore
  PROVE  Queue!QueueNext
<1>1. rd.pc = "store" /\ gone' = gone + rd.k /\ UNCHANGED <<wr, offered, log>>
  BY DEF ReadStore
<1>2. rd.k \in Nat /\ gone \in Nat /\ Len(log) \in Nat /\ TypeOK
  BY StateFacts DEF RInv
<1>3. rd.k <= Len(log) - gone
  BY <1>1 DEF RInv, ReaderFacts
<1>4. batch' = [i \in 1 .. rd.k |-> log[gone + i]]
  BY ReadStoreRInv
<1>5. /\ Len(SubSeq(log, gone + 1, Len(log))) = Len(log) - gone
      /\ SubSeq(SubSeq(log, gone + 1, Len(log)), rd.k + 1, Len(SubSeq(log, gone + 1, Len(log))))
           = SubSeq(log, gone + rd.k + 1, Len(log))
      /\ SubSeq(SubSeq(log, gone + 1, Len(log)), 1, rd.k) = [i \in 1 .. rd.k |-> log[gone + i]]
  BY <1>2, <1>3, FreeFront
<1>6. Queue!Take(rd.k)
  BY <1>1, <1>4, <1>5 DEF Queue!Take
<1>7. rd.k \in 0 .. Len(SubSeq(log, gone + 1, Len(log)))
  BY <1>2, <1>3, <1>5
<1> QED
  BY <1>6, <1>7 DEF Queue!QueueNext

(* Every step of the two threads is a step of the queue or leaves it alone. *)
LEMMA NextQueue ==
  ASSUME RInv, [Next]_vars
  PROVE  [Queue!QueueNext]_Queue!queueVars
<1>1. ASSUME NEW n \in Blocks, WriteBegin(n) PROVE UNCHANGED Queue!queueVars
  <2>1. /\ wr.pc = "idle" /\ UNCHANGED <<log, gone, batch>>
        /\ wr' = [wr EXCEPT !.pc = "space", !.n = n,
                            !.stride = IF n > Mask THEN Mask ELSE n,
                            !.w = IF n > Mask THEN Mask ELSE n, !.base = offered]
    BY <1>1 DEF WriteBegin
  <2>2. wr'.pc = "space" /\ wr'.base = offered
    BY <2>1 DEF RInv, TypeOK, Writers
  <2> QED
    BY <2>1, <2>2, QueueStutter
<1>2. CASE WriteSpace
  BY <1>2, SpaceIsOfferOrStutter
<1>3. CASE WriteCopy
  <2>1. /\ wr.pc = "copy" /\ UNCHANGED <<log, gone, batch, offered>>
        /\ wr' = Advance(wr, wr.w, "publish")
    BY <1>3 DEF WriteCopy
  <2>2. wr'.pc # "idle" /\ wr'.base = wr.base
    BY <2>1 DEF RInv, TypeOK, Writers, Advance
  <2> QED
    BY <2>1, <2>2, QueueStutter
<1>4. CASE WritePublish
  BY <1>4, PublishIsOffer
<1>5. CASE (\E n \in Quanta : ProcessBegin(n)) \/ TrimLoad \/ ReadLoad \/ ReadCopy
  <2>1. UNCHANGED <<wr, log, gone, batch, offered>>
    BY <1>5 DEF ProcessBegin, TrimLoad, ReadLoad, ReadCopy
  <2> QED
    BY <2>1, QueueStutter
<1>6. CASE TrimDrop
  BY <1>6, TrimIsForget
<1>7. CASE ReadStore
  BY <1>7, ReadIsTake
<1>8. CASE UNCHANGED vars
  <2>1. UNCHANGED <<wr, log, gone, batch, offered>>
    BY <1>8 DEF vars
  <2> QED
    BY <2>1, QueueStutter
<1> QED
  BY <1>1, <1>2, <1>3, <1>4, <1>5, <1>6, <1>7, <1>8 DEF Next, Feeder, Callback

(* The ring between the feeder and the realtime callback is a bounded      *)
(* first-in first-out queue, at whatever grain the two threads interleave: *)
(* reac_ring_read_planar hands out samples in the order in which           *)
(* reac_ring_write accepted them, each once, none invented, and loses only *)
(* what an overrun refused or the trim forgot.                             *)
THEOREM RingImplementsQueue ==
  ASSUME BlocksFit
  PROVE  Spec => ImplementsQueue
<1>1. Init => Queue!QueueInit
  BY InitQueue
<1>2. RInv /\ [Next]_vars => [Queue!QueueNext]_Queue!queueVars
  BY NextQueue
<1> QED
  BY <1>1, <1>2, RingInvariant, PTL DEF Spec, ImplementsQueue, Queue!QueueSpec
=============================================================================
