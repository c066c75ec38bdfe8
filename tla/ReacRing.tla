------------------------------ MODULE ReacRing ------------------------------
(***************************************************************************)
(* The lock-free sample ring of reac-pw (src/pipewire/src/reac_ring.c)     *)
(* between its two threads: the RX feeder, which calls reac_ring_write,    *)
(* and PipeWire's realtime callback on_process, which calls reac_ring_trim *)
(* and then reac_ring_read_planar.                                         *)
(*                                                                         *)
(* Every load or store of the shared cursors and every copy of one sample  *)
(* is a step of its own, so the threads interleave at the grain of their   *)
(* memory accesses.  A cursor is only ever stored by its owner, so the     *)
(* owner's loads of it need no step.  The stores are releases and the      *)
(* loads of the other thread's cursor acquires: what a thread did before a *)
(* store is visible to the thread that loads the stored value, which is    *)
(* what interleaving whole steps says.                                     *)
(***************************************************************************)
EXTENDS Integers, Sequences

CONSTANTS
  Capacity,     \* slots per channel, a power of two
  NChannels,    \* channels (40 in the code)
  Blocks,       \* samples per channel in the blocks the feeder writes (12)
  Quanta,       \* samples per channel the callback asks for
  TrimQuanta,   \* quanta of backlog on_process keeps (4 in the code)
  CountMod,     \* values of the underrun and overrun counters (2^64)
  MaxOffered    \* bound: samples per channel the feeder offers in all

ASSUME RingAssumption ==
  /\ Capacity \in Nat /\ Capacity > 1
  /\ NChannels \in Nat \ {0}
  /\ Blocks \subseteq Nat \ {0}
  /\ Quanta \subseteq Nat \ {0}
  /\ TrimQuanta \in Nat \ {0}
  /\ CountMod \in Nat \ {0}
  /\ MaxOffered \in Nat

(* One slot stays empty to tell a full ring from an empty one.             *)
Mask     == Capacity - 1
Slots    == 0 .. Capacity - 1
Chans    == 0 .. NChannels - 1

(* The feeder's blocks fit the ring.  In reac-pw they do: a block is 12    *)
(* samples and the ring holds a quarter of a second.                       *)
BlocksFit == \A n \in Blocks : n <= Mask

(* Sample i of channel c is <<c, i>>; Blank is what calloc left in a slot. *)
Sample == Chans \X (1 .. MaxOffered)
Blank  == <<0, 0>>

VARIABLES
  head, tail, buf, underruns, overruns,   \* struct reac_ring
  wr,        \* the feeder's locals in reac_ring_write
  rd,        \* the callback's locals in on_process
  offered,   \* history: samples offered to reac_ring_write
  log,       \* history: the samples it accepted, in order
  gone,      \* history: how many of log were read or trimmed
  batch      \* history: what the last read handed out, channel 0's numbers

ringVars == <<head, tail, buf, underruns, overruns>>
vars     == <<ringVars, wr, rd, offered, log, gone, batch>>

(* The feeder's locals: where it is; n as passed; the stride; how many     *)
(* samples it will write; the copy loop's channel and sample; how many     *)
(* samples were offered before this block.                                 *)
Writers == [pc : {"idle", "space", "copy", "publish"}, n : Nat, stride : Nat,
            w : Nat, c : Nat, s : Nat, base : Nat]

(* The callback's locals: where it is; nframes; the samples to trim or to  *)
(* read; the copy loop's channel and sample; the port buffers.  seen is    *)
(* history: what had been published when the trim looked.                  *)
Readers == [pc : {"idle", "trim", "drop", "load", "copy", "store"}, n : Nat,
            k : Nat, c : Nat, s : Nat, dst : [Chans -> Seq(Sample \cup {Blank})],
            seen : Nat]

NoDst == [c \in Chans |-> << >>]

Init ==
  /\ head = 0 /\ tail = 0 /\ underruns = 0 /\ overruns = 0
  /\ buf = [c \in Chans |-> [i \in Slots |-> Blank]]
  /\ wr = [pc |-> "idle", n |-> 0, stride |-> 0, w |-> 0, c |-> 0, s |-> 0, base |-> 0]
  /\ rd = [pc |-> "idle", n |-> 0, k |-> 0, c |-> 0, s |-> 0, dst |-> NoDst, seen |-> 0]
  /\ offered = 0 /\ log = << >> /\ gone = 0 /\ batch = << >>

readable == (head - tail) % Capacity

(* Fault: the slot that tells full from empty is written too.              *)
WritableWithoutGap == Capacity - readable

writable == Mask - readable

-----------------------------------------------------------------------------
(* The feeder.                                                             *)

(* reac_ring_write is entered with n samples per channel; a block longer   *)
(* than the ring is cut, and the stride is the length after the cut.       *)
WriteBegin(n) ==
  LET cut == IF n > Mask THEN Mask ELSE n
  IN  /\ wr.pc = "idle"
      /\ offered + n <= MaxOffered
      /\ wr' = [wr EXCEPT !.pc = "space", !.n = n, !.stride = cut, !.w = cut,
                          !.base = offered]
      /\ offered' = offered + n
      /\ UNCHANGED <<ringVars, rd, log, gone, batch>>

(* Fault: an overrun counts as one, however many samples it drops.         *)
WriteSpaceCountingOnce ==
  LET w == IF wr.w > writable THEN writable ELSE wr.w
  IN  /\ wr.pc = "space"
      /\ overruns' = (overruns + IF wr.w > w THEN 1 ELSE 0) % CountMod
      /\ wr' = [wr EXCEPT !.pc = IF w = 0 THEN "idle" ELSE "copy",
                          !.w = w, !.c = 0, !.s = 0]
      /\ UNCHANGED <<head, tail, buf, underruns, rd, offered, log, gone, batch>>

(* The free space is read once; what does not fit is counted and dropped   *)
(* from the end of the block.                                              *)
WriteSpace ==
  LET w == IF wr.w > writable THEN writable ELSE wr.w
  IN  /\ wr.pc = "space"
      /\ overruns' = (overruns + wr.w - w) % CountMod
      /\ wr' = [wr EXCEPT !.pc = IF w = 0 THEN "idle" ELSE "copy",
                          !.w = w, !.c = 0, !.s = 0]
      /\ UNCHANGED <<head, tail, buf, underruns, rd, offered, log, gone, batch>>

(* What the caller's planar[c * n + s] array holds at a position.          *)
Planar(pos) == <<pos \div wr.n, wr.base + (pos % wr.n) + 1>>

(* The next sample of the loop over channels and, within one, samples.     *)
Advance(at, len, done) ==
  IF at.s + 1 < len THEN [at EXCEPT !.s = @ + 1]
  ELSE IF at.c + 1 < NChannels THEN [at EXCEPT !.c = @ + 1, !.s = 0]
  ELSE [at EXCEPT !.pc = done]

(* Fault: the stride is what fits and not what was passed.                 *)
WriteCopyShortStride ==
  /\ wr.pc = "copy"
  /\ buf' = [buf EXCEPT ![wr.c][(head + wr.s) % Capacity] = Planar(wr.c * wr.w + wr.s)]
  /\ wr' = Advance(wr, wr.w, "publish")
  /\ UNCHANGED <<head, tail, underruns, overruns, rd, offered, log, gone, batch>>

WriteCopy ==
  /\ wr.pc = "copy"
  /\ buf' = [buf EXCEPT ![wr.c][(head + wr.s) % Capacity] =
               Planar(wr.c * wr.stride + wr.s)]
  /\ wr' = Advance(wr, wr.w, "publish")
  /\ UNCHANGED <<head, tail, underruns, overruns, rd, offered, log, gone, batch>>

(* The release store of head publishes the whole block at once.            *)
WritePublish ==
  /\ wr.pc = "publish"
  /\ head' = (head + wr.w) % Capacity
  /\ log' = log \o [i \in 1 .. wr.w |-> wr.base + i]
  /\ wr' = [wr EXCEPT !.pc = "idle"]
  /\ UNCHANGED <<tail, buf, underruns, overruns, rd, offered, gone, batch>>

-----------------------------------------------------------------------------
(* The realtime callback.                                                  *)

(* on_process with at least one port linked; with none it returns at once  *)
(* and leaves the ring alone.                                              *)
ProcessBegin(n) ==
  /\ rd.pc = "idle"
  /\ rd' = [rd EXCEPT !.pc = "trim", !.n = n, !.dst = NoDst]
  /\ UNCHANGED <<ringVars, wr, offered, log, gone, batch>>

(* Fault: the trim leaves one sample too many.                             *)
TrimLoadShort ==
  LET keep == TrimQuanta * rd.n
  IN  /\ rd.pc = "trim"
      /\ rd' = [rd EXCEPT !.pc = IF readable <= keep THEN "load" ELSE "drop",
                          !.k = IF readable <= keep THEN 0 ELSE readable - keep - 1,
                          !.seen = Len(log)]
      /\ UNCHANGED <<ringVars, wr, offered, log, gone, batch>>

(* reac_ring_trim reads how much there is ...                              *)
TrimLoad ==
  LET keep == TrimQuanta * rd.n
  IN  /\ rd.pc = "trim"
      /\ rd' = [rd EXCEPT !.pc = IF readable <= keep THEN "load" ELSE "drop",
                          !.k = IF readable <= keep THEN 0 ELSE readable - keep,
                          !.seen = Len(log)]
      /\ UNCHANGED <<ringVars, wr, offered, log, gone, batch>>

(* ... and moves tail over the oldest samples in excess.                   *)
TrimDrop ==
  /\ rd.pc = "drop"
  /\ tail' = (tail + rd.k) % Capacity
  /\ gone' = gone + rd.k
  /\ rd' = [rd EXCEPT !.pc = "load"]
  /\ UNCHANGED <<head, buf, underruns, overruns, wr, offered, log, batch>>

(* reac_ring_read_planar reads how much there is ...                       *)
ReadLoad ==
  LET real == IF readable < rd.n THEN readable ELSE rd.n
  IN  /\ rd.pc = "load"
      /\ rd' = [rd EXCEPT !.pc = IF real = 0 THEN "store" ELSE "copy",
                          !.k = real, !.c = 0, !.s = 0]
      /\ UNCHANGED <<ringVars, wr, offered, log, gone, batch>>

(* ... copies the samples, channel by channel (the zero fill of the rest   *)
(* touches only the port buffers and is left out) ...                      *)
ReadCopy ==
  /\ rd.pc = "copy"
  /\ rd' = [Advance(rd, rd.k, "store") EXCEPT
              !.dst[rd.c] = Append(@, buf[rd.c][(tail + rd.s) % Capacity])]
  /\ UNCHANGED <<ringVars, wr, offered, log, gone, batch>>

(* Faults: tail moves over the whole quantum, read or not; tail stays      *)
(* where it is after an underrun.                                          *)
ReadStoreWholeQuantum ==
  /\ rd.pc = "store"
  /\ tail' = (tail + rd.n) % Capacity
  /\ gone' = gone + rd.n
  /\ underruns' = (underruns + rd.n - rd.k) % CountMod
  /\ batch' = [i \in 1 .. rd.k |-> rd.dst[0][i][2]]
  /\ rd' = [rd EXCEPT !.pc = "idle"]
  /\ UNCHANGED <<head, buf, overruns, wr, offered, log>>

ReadStoreOnlyWhenFull ==
  /\ rd.pc = "store"
  /\ tail' = IF rd.k = rd.n THEN (tail + rd.k) % Capacity ELSE tail
  /\ gone' = IF rd.k = rd.n THEN gone + rd.k ELSE gone
  /\ underruns' = (underruns + rd.n - rd.k) % CountMod
  /\ batch' = [i \in 1 .. rd.k |-> rd.dst[0][i][2]]
  /\ rd' = [rd EXCEPT !.pc = "idle"]
  /\ UNCHANGED <<head, buf, overruns, wr, offered, log>>

(* ... and gives the slots back with the release store of tail.            *)
ReadStore ==
  /\ rd.pc = "store"
  /\ tail' = (tail + rd.k) % Capacity
  /\ gone' = gone + rd.k
  /\ underruns' = (underruns + rd.n - rd.k) % CountMod
  /\ batch' = [i \in 1 .. rd.k |-> rd.dst[0][i][2]]
  /\ rd' = [rd EXCEPT !.pc = "idle"]
  /\ UNCHANGED <<head, buf, overruns, wr, offered, log>>

-----------------------------------------------------------------------------
Feeder   == (\E n \in Blocks : WriteBegin(n)) \/ WriteSpace \/ WriteCopy \/ WritePublish
Callback == \/ \E n \in Quanta : ProcessBegin(n)
            \/ TrimLoad \/ TrimDrop \/ ReadLoad \/ ReadCopy \/ ReadStore

Next == Feeder \/ Callback

Spec == Init /\ [][Next]_vars

(* PipeWire's graph keeps calling on_process, which never waits, so the    *)
(* callback always takes its next step.  Nothing is asked of the feeder.   *)
FairSpec == Spec /\ WF_vars(Callback)

-----------------------------------------------------------------------------
TypeOK ==
  /\ head \in Slots /\ tail \in Slots
  /\ buf \in [Chans -> [Slots -> Sample \cup {Blank}]]
  /\ underruns \in 0 .. CountMod - 1 /\ overruns \in 0 .. CountMod - 1
  /\ wr \in Writers /\ wr.c \in Chans
  /\ rd \in Readers /\ rd.c \in Chans
  /\ offered \in 0 .. MaxOffered
  /\ log \in Seq(1 .. MaxOffered)
  /\ gone \in 0 .. Len(log)
  /\ batch \in Seq(0 .. MaxOffered)

(* The slots a thread is entitled to between its look at the other's       *)
(* cursor and the store of its own.                                        *)
Writing == {(head + s) % Capacity : s \in 0 .. wr.w - 1}
Reading == {(tail + s) % Capacity : s \in 0 .. rd.k - 1}

(* The feeder never overwrites a sample that the callback is reading or    *)
(* about to skip, however stale the cursors are that each of them acts on. *)
NoSharedSlot ==
  wr.pc \in {"copy", "publish"} /\ rd.pc \in {"drop", "copy", "store"} =>
    Writing \cap Reading = {}

(* The planes stay aligned: sample i that a read hands out for channel c   *)
(* is channel c's, and is the same sample of the stream for every channel. *)
PlanesAligned ==
  rd.pc = "store" =>
    \A c \in Chans : \A i \in 1 .. rd.k :
      rd.dst[c][i] = <<c, rd.dst[0][i][2]>>

(* Every sample offered to reac_ring_write is either accepted or counted   *)
(* in overruns, whether or not the callback frees slots meanwhile.         *)
DropsCounted ==
  LET settled == IF wr.pc \in {"copy", "publish"} THEN offered - wr.w
                 ELSE IF wr.pc = "space" THEN wr.base ELSE offered
  IN  (Len(log) + overruns) % CountMod = settled % CountMod

(* After the trim at most TrimQuanta quanta of what had been published     *)
(* when it looked are still to be read: the latency is bounded.            *)
TrimBoundsBacklog ==
  rd.pc = "load" => rd.seen - gone <= TrimQuanta * rd.n

(* reac_ring.h:49: the source is "planar[c*n + s]".  Slot by slot, the    *)
(* published samples of channel c are the samples of channel c that the    *)
(* caller passed.                                                          *)
PublishedPlanar ==
  \A c \in Chans : \A i \in gone + 1 .. Len(log) :
    buf[c][(i - 1) % Capacity] = <<c, log[i]>>

(* The ring implements the queue of SampleQueue: a block enters when head  *)
(* is stored (or the whole of it is dropped), samples leave when tail is   *)
(* stored, and what the callback copied out of the slots is what leaves.   *)
Queue == INSTANCE SampleQueue WITH
           Bound   <- Mask,
           queue   <- SubSeq(log, gone + 1, Len(log)),
           offered <- IF wr.pc = "idle" THEN offered ELSE wr.base,
           batch   <- batch

ImplementsQueue == Queue!QueueSpec

(* Every sample the feeder publishes is eventually read or trimmed.        *)
EverySampleLeaves ==
  \A i \in 1 .. MaxOffered : (Len(log) >= i) ~> (gone >= i)

=============================================================================
