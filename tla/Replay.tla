------------------------------- MODULE Replay -------------------------------
(***************************************************************************)
(* A capture file as the source of reac-pw: rx_loop (reac_rx.c) reads the  *)
(* file again and again, paces the frames by their capture times, counts   *)
(* gaps and estimates the drift of the desk's clock (update_ppm), which    *)
(* the source node hands to the graph's resampler (on_process in           *)
(* reac_source_node.c).  What enters the ring is ReacRing's subject,       *)
(* starting and stopping ReacPw's.                                         *)
(*                                                                         *)
(* Time is kept as ages: how long ago wall_first_ns and win_start_ns were. *)
(* The code's absolute times, modulo 2^64, come to the same but for the    *)
(* time to wait for: that of a frame captured longer before the first than *)
(* the machine has been up lies below zero, and so centuries ahead.        *)
(***************************************************************************)
EXTENDS PcapSource

CONSTANTS
  CounterMod,   \* range of the frame counter (2^16)
  FramesMod,    \* range of win_frames (2^32)
  FrameTime,    \* nominal time of a frame
  Window,       \* the estimate's window (250 ms)
  Scale,        \* units of ppm_error_milli in a whole (10^9)
  IntMax,       \* the largest int
  MaxLate,      \* bound: how late the scheduler wakes the feeder
  Uptime,       \* what CLOCK_MONOTONIC shows, at least, when a pass begins
  Ports,        \* ports of the source node
  Files         \* capture files

ASSUME ReplayAssumption ==
  /\ {CounterMod, FramesMod, FrameTime, Window, Scale, IntMax} \subseteq Nat \ {0}
  /\ MaxLate \in Nat /\ Uptime \in Nat /\ Ports \subseteq Nat /\ Ports # {}

(* Of the records of a file only the last can be cut off.                  *)
ASSUME FilesAssumption ==
  \A f \in Files :
    /\ f.recs \in Seq([kind : Kinds, n : Nat, ts : Nat])
    /\ \A p \in 1 .. Len(f.recs) : f.recs[p].kind = "cut" => p = Len(f.recs)

(* A capture holds fewer frames than win_frames can count (twelve days).   *)
ASSUME SpanAssumption ==
  \A f \in Files : \A p, q \in 1 .. Len(f.recs) : f.recs[q].n - f.recs[p].n < FramesMod

VARIABLES
  file,      \* the file that is open: magic and records
  path,      \* what its name refers to now
  ps,        \* ps.f
  asleep,    \* the feeder waits for a time centuries ahead
  wall,      \* age of wall_first_ns, or Unset
  first_ts,  \* pcap_first_ts
  last,      \* last_counter, or Unset without have_counter
  gap,       \* what the newest frame added to counter_gaps
  win,       \* the statics of update_ppm; last is Unset without have_last
  ppm,       \* rx->ppm_error_milli
  area,      \* ports with a rate-match area
  rate,      \* rate - 1 in their areas, in units of ppm_error_milli
  cur, prev, \* history: the records of the last two frames fed, 0 for none
  pass,      \* history: time since the first frame of this pass was read
  begun,     \* history: the record the window began with
  odd,       \* history: the window holds more than frames in their places
  meas       \* history: the window ppm was taken from

loopVars  == <<ps, asleep, wall, first_ts, last, gap, cur, prev, pass>>
driftVars == <<win, ppm, begun, odd, meas>>
nodeVars  == <<area, rate>>
vars      == <<file, path, loopVars, driftVars, nodeVars>>

Unset  == -1
NoFile == [magic |-> "none", recs |-> << >>]

Init ==
  /\ file \in Files /\ path = file
  /\ ps = pcap_source_open(file) /\ ps # NULL /\ asleep = FALSE
  /\ wall = Unset /\ first_ts = 0 /\ last = Unset /\ gap = 0
  /\ win = [start |-> 0, frames |-> 0, last |-> Unset] /\ ppm = 0
  /\ area = {} /\ rate = [p \in Ports |-> 0]
  /\ cur = 0 /\ prev = 0 /\ pass = 0 /\ begun = 0 /\ odd = FALSE
  /\ meas = [from |-> 0, to |-> 0, span |-> 0, odd |-> TRUE]

-----------------------------------------------------------------------------
(* libreac's reac_counter_gap: the frames missing between two counters.    *)
reac_counter_gap(from, to) == (to - from - 1) % CounterMod

(* When the frame captured at ts may be fed, d after it was read: when its *)
(* time has come, and soon after, or at once when it is over.  A time of   *)
(* zero is not waited for.                                                 *)
Waits(ts) ==
  LET now    == IF wall = Unset THEN 0 ELSE wall
      target == IF wall = Unset THEN 0 ELSE ts - first_ts
  IN  IF ts = 0 THEN 0 .. MaxLate
      ELSE Max({now, target}) - now .. Max({now, target + MaxLate}) - now

(* Fault: frames are counted as they come, lost ones are not.              *)
ArrivedFrames(c) == (win.frames + 1) % FramesMod

(* The frames the counter says have passed in the window.                  *)
WinFrames(c) == (win.frames + reac_counter_gap(win.last, c) + 1) % FramesMod

(* A double converted to int: cut towards zero.  Out of range the result   *)
(* is undefined: processors answer with the smallest or the largest int.   *)
ToInt(a, b) ==
  LET q == IF a < 0 THEN -((-a) \div b) ELSE a \div b
  IN  IF q \in -IntMax - 1 .. IntMax THEN {q} ELSE {-IntMax - 1, IntMax}

(* The capture's own truth: frame r comes n frames after the one before in *)
(* the same pass.                                                          *)
InPlace(r) ==
  /\ r.ts # 0
  /\ cur # 0 => /\ last # Unset /\ file.recs[cur].ts # 0
                /\ r.n - file.recs[cur].n \in 1 .. CounterMod

(* The frame of record p, with counter c, d after the last look at the     *)
(* clock.                                                                  *)
update_ppm(p, c, d, inplace) ==
  LET frames == IF win.last = Unset THEN 0 ELSE WinFrames(c)
      dt     == IF win.last = Unset THEN 0 ELSE win.start + d
      strange == odd \/ ~inplace
  IN  IF dt >= Window
      THEN /\ ppm' \in ToInt((frames * FrameTime - dt) * Scale, dt)
           /\ win' = [start |-> 0, frames |-> 0, last |-> c]
           /\ meas' = [from |-> begun, to |-> p, span |-> dt, odd |-> strange]
           /\ begun' = p /\ odd' = FALSE
      ELSE /\ win' = [start |-> dt, frames |-> frames, last |-> c]
           /\ begun' = IF win.last = Unset THEN p ELSE begun
           /\ odd' = strange
           /\ UNCHANGED <<ppm, meas>>

(* A REAC frame is read, waited for, looked at and fed.                    *)
Frame ==
  LET r == file.recs[Stop(file, ps)]
      c == r.n % CounterMod
  IN  /\ ~asleep /\ Answer(file, ps) = "record" /\ r.kind = "frame"
      /\ ps' = pcap_source_next(file, ps)
      /\ \E d \in Waits(r.ts) :
           /\ wall' = IF wall # Unset THEN wall + d ELSE IF r.ts # 0 THEN d ELSE Unset
           /\ pass' = IF last # Unset THEN pass + d ELSE d
           /\ update_ppm(Stop(file, ps), c, d, InPlace(r))
      /\ first_ts' = IF wall = Unset /\ r.ts # 0 THEN r.ts ELSE first_ts
      /\ gap' = IF last = Unset THEN 0 ELSE reac_counter_gap(last, c)
      /\ last' = c
      /\ prev' = cur /\ cur' = Stop(file, ps)
      /\ UNCHANGED <<file, path, asleep, nodeVars>>

(* A REAC frame is read that was captured before the first by more than    *)
(* the uptime: the time to wait for wraps, and clock_nanosleep does not    *)
(* return.  (The machine may be up for longer than Uptime; then it is a    *)
(* Frame like any other.)                                                  *)
Oversleep ==
  LET r == file.recs[Stop(file, ps)]
  IN  /\ ~asleep /\ Answer(file, ps) = "record" /\ r.kind = "frame"
      /\ r.ts # 0 /\ wall # Unset /\ r.ts + Uptime < first_ts
      /\ ps' = pcap_source_next(file, ps)
      /\ asleep' = TRUE
      /\ UNCHANGED <<file, path, wall, first_ts, last, gap, cur, prev, pass, driftVars, nodeVars>>

(* Another packet, or an error: the loop goes round.                       *)
NoFrame ==
  /\ ~asleep
  /\ \/ Answer(file, ps) = "record" /\ file.recs[Stop(file, ps)].kind = "other"
     \/ Answer(file, ps) = "error"
  /\ ps' = pcap_source_next(file, ps)
  /\ UNCHANGED <<file, path, asleep, wall, first_ts, last, gap, cur, prev, pass, driftVars, nodeVars>>

(* Fault: the new pass is paced from the beginning of the first.           *)
RewindWithoutBaseline ==
  /\ ~asleep /\ Answer(file, ps) = "eof"
  /\ ps' = pcap_source_open(path)
  /\ last' = Unset
  /\ UNCHANGED <<file, path, asleep, wall, first_ts, gap, cur, prev, pass, driftVars, nodeVars>>

(* The end of the file: it is opened again, by its name, and the pace      *)
(* begins anew.  The statics of update_ppm are not touched.                *)
Rewind ==
  /\ ~asleep /\ Answer(file, ps) = "eof"
  /\ ps' = pcap_source_open(path)
  /\ last' = Unset /\ wall' = Unset
  /\ UNCHANGED <<file, path, asleep, first_ts, gap, cur, prev, pass, driftVars, nodeVars>>

Turn == Frame \/ Oversleep \/ NoFrame \/ Rewind

(* The file is removed, or replaced by something that is no capture.       *)
Remove ==
  /\ path # NoFile
  /\ path' = NoFile
  /\ UNCHANGED <<file, loopVars, driftVars, nodeVars>>

-----------------------------------------------------------------------------
(* The source node.  PipeWire gives a port a rate-match area, which it has *)
(* set to 1, or takes it away.                                             *)
on_io_changed(p) ==
  /\ area' = IF p \in area THEN area \ {p} ELSE area \cup {p}
  /\ rate' = [rate EXCEPT ![p] = 0]
  /\ UNCHANGED <<file, path, loopVars, driftVars>>

(* Fault: only the first port is looked at.                                *)
ProcessFirstPort ==
  /\ Min(Ports) \in area
  /\ rate' = [rate EXCEPT ![Min(Ports)] = ppm]
  /\ UNCHANGED <<file, path, loopVars, driftVars, area>>

(* on_process after it has read the ring: the first port with an area gets *)
(* the correction.                                                         *)
Process ==
  /\ area # {}
  /\ rate' = [rate EXCEPT ![Min(area)] = ppm]
  /\ UNCHANGED <<file, path, loopVars, driftVars, area>>

-----------------------------------------------------------------------------
Next == Turn \/ Remove \/ Process \/ (\E p \in Ports : on_io_changed(p))

(* The feeder's turn comes, and the graph calls a linked node.             *)
Spec == Init /\ [][Next]_vars /\ WF_vars(Turn) /\ WF_vars(Process)

-----------------------------------------------------------------------------
(* The frames a reader of the file can reach: those before a record of     *)
(* length zero, which reads as the end, and before the cut.                *)
Playable ==
  {p \in DOMAIN file.recs :
     /\ file.recs[p].kind = "frame"
     /\ \A q \in 1 .. p - 1 : file.recs[q].kind \notin {"empty", "cut"}}

Behind(p) == {q \in Playable : q > p}

(* "returning -1 here ... would silently abort the rest of a               *)
(* multi-thousand-frame capture": the frames of the file are fed in order, *)
(* none left out because of what lies between them, and the first follows  *)
(* the last.  The gaps counted are those of the capture; winding it back   *)
(* is none.                                                                *)
ReplaysInOrder ==
  /\ cur # 0 => cur \in Playable
  /\ prev # 0 => cur = Min(IF Behind(prev) # {} THEN Behind(prev) ELSE Playable)
  /\ LET missing == file.recs[cur].n - file.recs[prev].n - 1
     IN  IF prev = 0 \/ cur <= prev THEN gap = 0
         ELSE missing \in 0 .. CounterMod - 1 => gap = missing

(* "otherwise every loop after the first replays FLAT OUT": in every pass  *)
(* each frame is fed as long after the beginning of the pass as it was     *)
(* captured after the first, and at most MaxLate later; one with an        *)
(* earlier time than those before it is fed with them.                     *)
PassesKeepTempo ==
  last # Unset /\ (\A p \in Playable : file.recs[p].ts # 0) =>
    LET Due(p) == file.recs[p].ts - file.recs[Min(Playable)].ts
    IN  /\ Due(cur) <= pass
        /\ pass <= MaxLate + Max({Due(p) : p \in {q \in Playable : q <= cur}})

(* "locked to the long-term counter slope": update_ppm measures the        *)
(* capture, however its times run, whatever frames were lost in it and     *)
(* wherever one window ends and the next begins.  The window lasted as     *)
(* long as the capture took between the frames at its ends, and ppm is how *)
(* far the desk got ahead of its nominal rate between them, both but for   *)
(* MaxLate of the feeder's own, and for the fraction cut off.  (A window   *)
(* with a repeated, a late or an untimed frame or the beginning of a pass  *)
(* in it is spoilt, and no other with it; at either end of the range of    *)
(* int the estimate may be an undefined conversion.)                       *)
DriftIsTheCaptures ==
  LET a     == file.recs[meas.from]
      b     == file.recs[meas.to]
      took  == b.ts - a.ts
      ahead == FrameTime * (b.n - a.n) - took
  IN  ~meas.odd /\ ppm \in -IntMax .. IntMax - 1 =>
        /\ meas.span \in took - MaxLate .. took + MaxLate
        /\ (ppm - 1) * meas.span <= (ahead + MaxLate) * Scale
        /\ (ahead - MaxLate) * Scale <= (ppm + 1) * meas.span

(* The estimate reaches the resampler through whichever port is the first  *)
(* one linked.                                                             *)
DriftReachesGraph ==
  \A p \in Ports : <>[](area # {} /\ Min(area) = p) => []<>(rate[p] = ppm)

(* No frame was captured before the first timed one by more than the       *)
(* machine has been up.                                                    *)
TimesWithinUptime ==
  LET timed == {p \in Playable : file.recs[p].ts # 0}
  IN  \A p \in timed : file.recs[Min(timed)].ts <= file.recs[p].ts + Uptime

(* As long as the file can be opened again every frame of it is fed again  *)
(* and again, also when the capture was cut off in a record, unless a time *)
(* in it makes the feeder sleep for centuries.                             *)
ReplayGoesOn ==
  \A p \in UNION {DOMAIN f.recs : f \in Files} :
    []<>(p \in Playable /\ TimesWithinUptime => cur = p \/ path = NoFile)
=============================================================================
