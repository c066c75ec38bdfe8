--------------------------- MODULE GenlockedWire ----------------------------
(***************************************************************************)
(* The pipeline fed by a REAC master over a lossy wire.                    *)
(*                                                                         *)
(* The master numbers its frames 0, 1, 2, ... and stamps frame k with the  *)
(* counter base + k, modulo the counter's width (libreac's wire format,    *)
(* external).  The wire may lose frames, duplicate them, deliver them late *)
(* or corrupt them; the master may be restarted, after which its counter   *)
(* starts anywhere.  The extra variables are ground truth that the program *)
(* cannot see: they say what its clock and its counts ought to be.         *)
(***************************************************************************)
EXTENDS Pipeline

CONSTANTS MaxGap,       \* bound: frames lost in a row
          MaxReorder,   \* bound: how far behind the newest a frame may arrive
          MaxRestarts   \* bound: restarts of the master

(* Within half a counter period the signed distance is unambiguous.        *)
ASSUME WireAssumption ==
  /\ MaxGap \in Nat /\ MaxGap < HalfRange
  /\ MaxReorder \in Nat /\ MaxReorder < HalfRange
  /\ MaxRestarts \in Nat

VARIABLES
  base,      \* counter of frame 0
  high,      \* newest frame delivered
  prev,      \* frame delivered last
  late,      \* deliveries that were duplicates or late
  run,       \* consecutive frames delivered in a row, up to prev
  restarts   \* restarts of the master so far

wireVars == <<base, high, prev, late, run, restarts>>
wireAllVars == <<vars, wireVars>>

WireInit ==
  /\ Init
  /\ base \in Counters
  /\ high = -1 /\ prev = -1
  /\ late = 0 /\ run = 0 /\ restarts = 0

(* The first frame heard is numbered 0: what came before it is nobody's    *)
(* loss.                                                                   *)
Deliverable ==
  IF clock.started THEN (high - MaxReorder) .. (high + MaxGap + 1) ELSE {0}

Deliver(k, pcm) ==
  /\ OnFrame((base + k) % CounterMod, pcm)
  /\ high' = IF k > high THEN k ELSE high
  /\ late' = IF k > high THEN late ELSE late + 1
  /\ run'  = IF k = prev + 1 THEN run + 1 ELSE 1
  /\ prev' = k
  /\ UNCHANGED <<base, restarts>>

(* A corrupted frame fails reac_frame_inspect and counts as malformed; to  *)
(* the clock it is a lost one.                                             *)
Corrupt == OnMalformed /\ UNCHANGED wireVars

Restart ==
  /\ restarts < MaxRestarts
  /\ restarts' = restarts + 1
  /\ base' \in Counters
  /\ run' = 0
  /\ UNCHANGED <<vars, high, prev, late>>

WireNext ==
  \/ \E k \in Deliverable, pcm \in Packets : Deliver(k, pcm)
  \/ Corrupt
  \/ Restart

WireSpec == WireInit /\ [][WireNext]_wireAllVars

-----------------------------------------------------------------------------
(* Losses never move the timeline: as long as the master keeps counting,   *)
(* the clock is at the anchor plus one slot per frame the master sent, and *)
(* only duplicates and late frames, which media_clock_on_packet gives a    *)
(* slot of their own, push it further, one slot each.                      *)
TimelineTracksMaster ==
  clock.started /\ restarts = 0 =>
    clock.rtp_ts = (clock.anchor + (high + late) * SamplesPerPkt) % TsMod

(* Every frame of the master up to the newest is either counted as a       *)
(* packet or as lost, once: a duplicate or a late frame is neither counted *)
(* as a loss nor makes the next frame look like one.                       *)
LossesExact ==
  clock.started /\ restarts = 0 =>
    stats.packets - late + stats.loss_total = high + 1

(* A restart of the master never wedges the clock: its high-water counter  *)
(* may look late for a while, but after half a counter period of frames    *)
(* delivered in order the clock follows the master again.                  *)
ResyncsWithinHalfPeriod ==
  run > HalfRange => clock.last_counter = (base + prev) % CounterMod
=============================================================================
