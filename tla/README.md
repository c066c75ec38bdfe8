# reac-aes67: TLA+ models and proofs

`reac-aes67` takes Roland REAC audio frames (EtherType 0x8819, 12 samples of 40
channels, a 16-bit counter) off an Ethernet interface or out of a capture file
and sends the audio on: as one AES67 / RTP L24 stream, as the several RTP flows
of a Dante-like session, or, in the separate program `reac-pw`, as PipeWire
nodes.  This directory models that code in TLA+, model-checks the models with
TLC and proves the central results with TLAPS.

`PROJECT.json` lists components, runs, the source lines of every definition,
findings, hazards and theorems.  To repeat a run:
`tlc -config MCRing.cfg MCRing`; to repeat a proof: `tlapm ReacRingProofs.tla`.

## The system

| Component (source) | State | Operations | Talks to |
|---|---|---|---|
| Media clock (`media_clock.c`) | timestamp, anchor, high-water counter, losses | `init_anchored`, `on_packet` | called by the pipeline |
| Loss concealment (`plc.c`) | history ring per channel | `observe`, `conceal` | called by the pipeline |
| Pipeline (`pipeline.c`) | the two above, RTP number, statistics | `on_frame` | emits packets, or frames to a PCM sink |
| RTP (`rtp_l24.c`) | none | `build`, `build_flow` | called by pipeline and packetizer |
| Packetizer (`packetizer.c`) | window of frames, a number per flow | `push` | the pipeline's PCM sink; emits packets |
| Dante loop (`main.c: run_dante`) | loop position, `g_stop`, frame count | take a frame, announce, stop | source, pipeline, senders, SAP |
| Listen mode (`main.c: run_listen`, `ubus_stats.c`) | loop position, `g_stop`, timer, published statistics | drain, take, publish, announce, stop | capture socket, uloop or blocking recv, signals |
| Capture (`reac_capture.c`) | a socket, blocking or not | `next` | its answers steer every live loop |
| Sample ring (`reac_ring.c`) | cursors, slots, counters | `write`; `trim`, `read_planar` | one feeder and one realtime thread, lock-free |
| RX feeder (`reac_rx.c`) | `running`, source, pacing baseline, gap counter, drift window | `open`, `start`, `stop`, the loop | source, decoder, ring, source node |
| Capture file reader (`pcap_source.c`) | a position in the file | `open`, `next` | feeder, `run_pcap`, `run_dante` |
| Source node (`reac_source_node.c`) | ports, rate match | `new`, `destroy`, `on_process`, `on_io_changed` | ring, feeder's drift, PipeWire |
| Sink node (`reac_sink_node.c`), transmitter (`reac_tx.c`) | a stage of up to 11 samples, frame counter | `on_process`, `emit` | PipeWire, raw socket |
| `reac-pw` main (`pipewire/src/main.c`) | what was created so far | start-up, main loop, teardown | all of the above |
| Decoder (`reac_decode.c`) | none | `inspect`, `decode` | pipeline, feeder |
| Tone (`tone.c`, `main.c: run_gen_tone`) | base phase, RTP number and timestamp | `tone_fill` | sender |
| `reac-aes67` main (`main.c`), senders (`aes67_send.c`) | what is open, announced, closed | choice of mode, open, announce, send, close | all of the above |
| SAP/SDP text, PTP time, LuCI | none worth a model | | |

What is hard about it:

* **Modular arithmetic.**  The counter has 16 bits and is read as a signed
  distance, timestamps have 32 and wrap inside bursts, history and sample ring
  wrap at odd places.  Unit tests run a few frames and seldom reach a wrap.
* **An unreliable wire.**  Frames are lost, repeated, late, malformed; the master
  restarts with any counter; two directions may share the interface.
* **Two threads without a lock** around the sample ring, one of them realtime,
  each acting on a stale copy of the other's cursor.
* **Three threads and a teardown** in `reac-pw`: who may still use the ring, the
  socket, the capture.
* **Loops that wait.**  A stop flag tested before a blocking call, announcements
  that depend on traffic, a timer beside a drain.
* **State that outlives its occasion**: a pacing baseline and a drift window while
  a file is wound back, a phase bounded for one channel and used by forty.
* **Failures half way**: some flows open and the next not, an announcer that was
  never started, a capture that ends in a record.

What makes each part correct: the emitted stream has neither hole nor overlap and
its numbers count it; what is lost is counted once and concealed with the newest
audio; each flow is a contiguous stream and each sample travels once; the ring is
a bounded queue; played audio is heard on its own channel; nothing is used after
it is freed; a signal ends a loop that looks for it; the session stays announced, at the
address it is sent to; a replay keeps order and tempo and its drift is the desk's.

## Modules

```
ReacMode                      samples per frame
 |- MediaClock, Plc, Rtp      operators on the C structs
 |    \- Pipeline             pipeline_on_frame          <- PipelineProofs (ModArith)
 |         |- GenlockedWire   + the master and the wire  <- PipelineProofs
 |         \- Dante           + Packetizer, run_dante    <- DanteProofs
 |    \- Listen               MediaClock + run_listen   <- ListenProofs (ModArith)
 \- SinkNode                  the playback node
      \- Loopback             + the receiving feeder     <- ReacPwProofs (ModArith)
SampleQueue                   abstract: a bounded lossy FIFO
ReacRing                      the lock-free ring, implements SampleQueue
                                                         <- ReacRingProofs (ModArith)
ReacPw                        life cycle of reac-pw      <- ReacPwProofs
PcapSource                    the reader of capture files
 \- Replay                    the feeder's file loop, drift, rate match
                                                         <- ReplayProofs (ModArith)
ReacAes67                     life cycle of reac-aes67   <- Aes67Proofs
GenTone                       the test tone
MC*                           small instances for TLC
```

A module of proofs stands for a program's part: `PipelineProofs` also holds the
proofs about the wire that feeds the pipeline, `ReacPwProofs` those about the sink
and the loopback of `reac-pw`.

Names follow the source: `plc_conceal` in `Plc` is `plc_conceal` in `plc.c`, a
field of a record is the field of the struct.  Definitions introduced by a comment
that begins with "Fault" are plausible bugs; no specification uses them.  They
take the place of the definition that follows when a property's power is tested.

**MediaClock, Plc, Rtp, Packetizer** are operators on records, because the C
structs are owned by one thread and each call runs to completion.  The code's
tests of the wrapped distance are `SignedDelta`, `LostBefore`, `IsLate`.  PLC
models one channel: every channel receives the same number of samples and the
same treatment.  The Q15 unit, the sample range, the ring length and the range of
int are constants: `burst_gain_q15` multiplies in an int that wraps and divides as C
does.  `FadeFits` says that its ramp does not wrap (up to 81920 packets in the code).
Right shifts of negative products round towards minus infinity, as `\div` does.

**Pipeline.**  `OnFrame` is the whole of `pipeline_on_frame`: clock step,
concealment of the gap, the frame, statistics, `plc_observe` last.  What one call
emits is `out`.  The counter of a frame is arbitrary, so nothing is assumed about
the wire.  `sink` chooses between RTP emission and the PCM sink.

**GenlockedWire** adds a master that counts and a wire that loses, repeats,
delays and damages frames, and restarts of the master.  Its variables are ground
truth the program cannot see.

**Dante** is the loop of `run_dante` for files and live interfaces, one `Push` per
frame of a burst.  A sample is named `<<frame, channel, index>>`, so a payload says
where each of its samples comes from.

**Listen** is `run_listen` after the handlers are installed, with both loops:
`Readable`, `Drain`, `DrainEnd`, `Publish`, `UloopEnds` with uloop (of the published
statistics only the losses are kept); `Check`, `Recv`,
`Interrupted` without.  A signal, in any state and as often as one likes, sets `g_stop`
and may interrupt a waiting `recv`; that is all `on_sigint` does.  uloop installs a
handler of its own only for a signal that has none, so `on_sigint` stays, and the
event loop, which never reads `g_stop`, ends only where libubus calls `uloop_end`.  `restarts` says whether the libc's `signal()` restarts an
interrupted `recv` (musl and BSD semantics do, System V semantics, which glibc
gives a strict `-std=c11` build, do not).  Frames carry a direction; a foreign one
ends a non-blocking drain and is skipped by a blocking read, as in
`reac_capture_next`.  Of the broadcast fewer than half a counter period of frames
is lost in a row (`Arrive`), as in `GenlockedWire`.  A damaged frame counts towards the next announcement and
leaves the clock alone.

**ReacRing** splits `reac_ring_write`, `reac_ring_trim` and `reac_ring_read_planar`
into one step per load or store of a shared cursor and per copied sample.  The
cursors are stored with release and loaded with acquire by the other side, which
is what interleaving such steps describes.  `on_process` always trims, then reads.
Counters wrap at `CountMod`.

**SampleQueue** is what the ring promises: a bounded first-in first-out queue that
may refuse the end of a block and forget its oldest samples.  The mapping takes
the samples published and not yet consumed as the queue; a block counts as offered
when its write ends, whether published or dropped as a whole.

**ReacPw** follows main from `reac_rx_open` to its return, beside the feeder
(`rx_loop`) and the realtime thread.  Signals are events of the main loop
(`pw_loop_add_signal` uses a signalfd and blocks the signal in every thread made
later), so they interrupt no `recv`.  Every failure path is an action.

**SinkNode, Loopback.**  One step stages one sample; the one that fills the stage
encodes and sends the frame, which may fail.  A sample is a number of half units
of the 24-bit scale, so that rounding and both ends of the clamp are exercised.
`Loopback` decodes with the code of `reac_decode.c` and `reac_rx.c`.

**PcapSource, Replay.**  A file is a sequence of records, of which the reader tells
five kinds apart (`pcap_source_next` skips what does not fit, takes a record of
length zero for the end, and answers an error once where the file is cut off).
`Replay` is `rx_loop` on such a file: `Frame` is a whole turn with reading, waiting
until the frame's time, gap counting and `update_ppm`; `Rewind` opens the file
again by its name, which may be gone (`Remove`).  Time is kept as the ages of the
two baselines the code subtracts, in units of half a frame, and passes only while
the feeder waits; `MaxLate` is how much too late it may wake.  The one absolute time
that matters is the one a frame is waited for: it is unsigned, and wraps for a frame
captured before the first by more than the machine has been up, at least `Uptime`
(`Oversleep`).  The drift is the
code's, a quotient cut towards zero, in coarser units than thousandths of a ppm;
beyond the range of int the conversion is undefined and may give either end.
`begun`, `odd` and `meas` record from which frame to which the estimate was taken and
whether anything but frames in their places lay between.
`Process` is the end of `on_process`, where the first port with a rate-match area
gets the correction.

**ReacAes67** follows `main` from a command line (any combination of the options
that choose a mode) to the exit code.  A descriptor is kept by the variable that
holds it: "own", -1 ("none" after a failure, "closed"), or not the program's at all
("unset" on the stack, "zero" in `sap = {0}`).  Each open may fail.  `Send` stands
for a turn of any loop; the loops themselves are `Dante`, `Listen`, `GenTone`.

**GenTone** keeps the phases of the tone as integers: the base phase in units of
1/SampleRate turn, a channel's in units `Freq` times finer, so that no rounding
hides or makes up a jump.

External parts, modelled from how the code uses them: the wire and the master,
libreac's `reac_counter_gap`, `lrintf`, uloop's timer and end, PipeWire's realtime thread,
the file system.

## Runs

Bounds are chosen so that every wrap, overflow and early return happens.

| Run | Instance | What it shows |
|---|---|---|
| `pipeline` | 16 counters, timestamps mod 32, 2 samples per frame in a history of 3, fade of 5 whose ramp just fits an int, numbers mod 8, 4 frames | No hole, no overlap, numbers and counts agree; concealment repeats the newest frame exactly and never gets louder |
| `wire` | 8 counters, 7 frames, gaps of 2, 3 late, one restart | Losses exact, timeline follows the master, recovery within half a period |
| `dante` | windows of 3 frames, bursts up to 4, 3 channels in flows of 2 and 1, numbers mod 2 | Each flow contiguous, each sample carried once, concealment flagged, announcements kept up |
| `ring` | 4 slots, 2 channels, blocks of 1 to 3, quanta of 1 and 2, 7 samples | No shared slot, aligned planes, drops counted, backlog bounded, refinement of SampleQueue; every published sample is read or trimmed |
| `pw` | both sources, all failures | Nothing freed in use, clean exit, at most one frame after stop, a file replay ends when signalled |
| `loopback` | frames of 3, quanta of 2 and 4, counter mod 3, 3 wire channels of which 2 played, 14 samples, 2 failed sends in a row | Cadence, channel and sample order, rounding and clipping, gaps exact |
| `listen` | 4 counters, which wrap, socket of 1, 5 frames of four kinds | With `--bcast-only` losses are exact; the event loop announces for ever and publishes losses; a signal ends the blocking loop at once, or with the next REAC frame when it missed both the test and `recv` |
| `replay` | counters of 8, frames of 2 time units, windows of 4 frames, 1 unit late, up for 3 units, drift in tenths, int up to 9; eight files: losses over a counter wrap between harmless records, one cut off, one with an empty record, repeated and late frames, one frame without a time, a slow desk, a fast one with uneven and backward times, times too long before the first | Every frame again and again, in order and in tempo; the drift is the capture's own up to the lateness, whatever was lost, and reaches the resampler |
| `aes67` | every command line, three flows or too many, room for three, two or no addresses | All that was opened is closed and nothing else, the exit code is right, the addresses announced are those sent to |

Why the bounds are enough.  The pipeline reads a counter only through its distance
to the last one, so 16 values contain every case of `SignedDelta` (next, gap,
late, both ends) and gaps that outlast the fade; 4 frames wrap a history of 3
samples more than twice.  Seven frames cover half a period of 8 after a restart.
Three-frame windows against bursts of one to four begin at every offset.  Four
slots with blocks and quanta of different lengths place both cursors everywhere
and make the ring full, empty and trimmed.  `TrimQuanta` is 1 in the instances (4
in the code), or the trim would need a longer ring to fire; the theorems hold for
every value.  A replayed file is finite and read for ever, so its state is finite
without a cap; windows of four frames end at every place of files of one to four,
and one that is wound back in a window adds a wrapped counter, which at these
widths overflows int as the code's does.  Unspoilt windows are reached with
estimates of -4, -1 and 4 to 9 tenths, so a desk that is slow, one that is fast and
the feeder's lateness all show.  Three flows are the fewest with a first,
a middle and a last one to fail at.  The theorems remove the bounds where they apply.  `MaxFrames`,
`MaxOffered`, `MaxSamples`, `MaxGap`, `MaxReorder`, `MaxRestarts`, `MaxFails` and
`MaxLate` are the only caps (`Uptime` is a fact about the machine); the behaviour between them is the code's.  The runs
of `Pipeline`, `GenlockedWire` and `Loopback` stop when these are used up, so
deadlock is not checked there; in the other modules it is.

Runs that end in a violation, each against a statement of the repository:

| Run | The repository says | The code |
|---|---|---|
| `pw_stop` | `reac_rx.c`: "EINTR/stop-flag exits" | nothing interrupts the feeder's `recv`; on a silent wire the join never returns |
| `listen_idle` | `main.c`: recv times out every ~1s | there is no receive timeout; an idle session is never announced again |
| `tone` | `tone.c`: phase carried per-base so the waveform is continuous across packets | the base phase is bounded by whole turns of channel 0; a detuned channel jumps when it wraps |

Other places where the models and the repository's words part, without a run of
their own:

* `plc.c:62` calls the gain linear to 0.  `--plc-fade` is not bounded (`main.c:567`);
  above 81920 packets the product in `plc.c:69` overflows int once a gap is longer
  than a fifth of the fade, and the sign of what is played flips.
  `ConcealmentNeverSwells` asks for `FadeFits` for that reason.
* `README.md` ("Hold-last is the floor") and `pipeline.h` say never silence on live
  audio; `burst_gain_q15` reaches 0, so a gap longer than the fade ends in silence.
* `reac_ring.h` says that a full ring drops the oldest and still writes the newest;
  `WriteSpace` drops the newest, as the comment in `on_process` says.
* `reac_ring.h` says the source is `planar[c*n + s]`.  A block longer than the ring
  is read with the cut length as its stride.  No caller passes one, and
  `AlwaysPublishedPlanar` needs `BlocksFit` for that reason.
* `reac_rx.c` and `reac_source_node.c` call the drift slowly filtered and locked to
  the long-term slope.  It is the plain quotient of one window of 250 ms: the jitter
  of the capture's times at the ends of the window and the feeder's lateness enter it
  whole, 4 ppm for each microsecond (`DriftIsTheCaptures` says exactly how much), and
  a repeated or late frame, or the beginning of a new pass, spoils one window by a
  wrapped counter.  A file shorter than a window spoils every window.
* The time a frame is waited for (`reac_rx.c:134`) is unsigned.  A frame captured
  before the first by more than the uptime makes the feeder sleep for centuries
  (`Oversleep`); nothing interrupts the sleep, so `reac-pw` cannot be stopped then.
* `pcap_source.h` says 0 at the end of the file.  A record of length zero gives 0
  too, and what lies behind it is never read.
* `run_gen_tone` calls its pace drift-free; the period is cut to whole nanoseconds
  of a whole number of packets per second, which at 44.1 kHz is no even division.
* Announcements are never withdrawn: after the exit, or a source that fails after
  the flows were announced, receivers keep the session until it times out.
* `media_clock.h` says that under genlock sample counting stays aligned forever.
  `TimelineTracksMaster` says by how much it does not: one slot for each frame that
  was duplicated or late.
* `reac_rx.h` says that `reac_rx_open` opens the source; it does so only for a live
  one whose rate is to be detected.  `rx_loop` opens what it reads and, failing,
  ends without telling anyone (`FeederOpen`).
* `reac_capture.c` says that an interrupted `recv` lets an idle `--listen` be
  signalled.  That holds for a `recv` that waits and is not restarted; a signal
  between the test of `g_stop` and `recv` is obeyed with the next REAC frame
  (`SignalledLoopStops`), and on an idle wire never.
* `reac_capture.h:34` says that in blocking mode 0 is never returned.
  `reac_capture_next` returns 0 when `recv` is interrupted (`Interrupted`), and the
  callers depend on it.
* `pipeline.h` says that the uptime comes from a monotonic clock; `listen_on_publish`
  divides packets by the nominal rate.
* `ubus_stats.c:159` says that `uloop_run` runs until a signal.  `run_listen` has
  installed `on_sigint` before (`main.c:239`), which uloop leaves in place, and nobody
  who sees `g_stop` is running: no signal that can be caught ends the event loop.

## Fairness

* `ReacRing`: weak fairness of the callback.  PipeWire calls `on_process` every
  cycle, with at least one linked port (without, it returns before the trim,
  `reac_source_node.c:66`), and it never waits.  Nothing is asked of the feeder.
* `ReacPw`: main, the feeder's own steps and the return of `on_process` are weakly
  fair: the scheduler runs each thread.  A file answers at once, and the feeder's
  sleeps end (`Replay` has the one that does not).
  `pw_filter_destroy` is strongly fair, because the realtime thread stops calling
  a filter whose destruction was requested.  Nothing is asked of the wire, which
  is why `pw_stop` fails and `FileReplayStops` holds.
* `Listen`: the loop takes its next step, seconds pass, and uloop does not neglect
  a due timer (strong fairness: timers are looked at between two rounds of
  descriptors).  Nothing is asked of the wire, of whoever sends signals, or of
  libubus.
* `Replay`: the feeder's turn comes (its sleeps end, but for the one of `Oversleep`),
  and the graph calls a node that is linked.  Nothing is asked of the file.
* `ReacAes67` has no liveness property; `Finished` only tells an exit from a
  deadlock.

## Proofs

All assumptions are the `ASSUME`s of the component modules.  Most are positive
sizes, an even counter range, a history of at least one frame, samples within
their range.  Some say something about the world.  `WireAssumption` (the wire loses,
and delays a frame by, less than half a counter period) and `SinkAssumption` (fewer
sends fail in a row than the counter has values), and the guard of `Arrive` in
`Listen` to the same effect: beyond them a 16-bit counter cannot tell what happened,
and the properties are false.  `FilesAssumption`: a capture file ends where it is cut
off.  `SpanAssumption`: a capture holds fewer frames than the 32-bit `win_frames` can
count (twelve days).

**PipelineProofs**, for every width, history length, fade option and number of
frames.  `TypeOK` and the stated invariants are not inductive: they speak of the
last burst and of nothing that ties the clock to it.  `IInv` adds `ClockPosition`
(the clock stands at the slot of the newest packet, the anchor plus one slot for
each packet emitted before it) and `SequencePosition` (the next number is the
number of packets, modulo its range).  A frame then moves both by the same
`lost + 1`, the timestamps of a burst counted backwards from the frame's are those
counted forwards from the anchor, and `LostBefore` is below half the range and zero
before the first frame.  The theorems: type correctness, `TimelineContiguous`,
`SequenceContiguous`, `LossAccounted`, `BurstBounded`, `ConcealsFromHistory`.

What concealment plays is two action properties.  `RepeatsNewestFrame` needs one
more invariant, `HistoryHolds`: once a frame was decoded, the history ring read
backwards from its newest sample is that frame (`plc_observe` writes each of its
samples to a slot of its own, as the ring is no shorter than a frame).  With it
`plc_conceal` of the ring is a function of the newest frame.
`ConcealmentNeverSwells` then is arithmetic: under `FadeFits` the product of the ramp
stays within int (`RampExact`), `FadeShape` and `GainRange` bound the
gain, `GainFalls` says that it never rises with the length of the burst,
`ScaleBounds` and `CrossfadeBounds` that rounding towards minus infinity leaves a
scaled sample between zero and the sample and a crossfaded one between its two
ends.

**ReacRingProofs**, for every capacity, channel count, block and quantum, when
blocks fit the ring (`BlocksFit`, true in `reac-pw`: 12 samples against a quarter
of a second; a longer block is read with the wrong stride).  `RInv` ties the masked
cursors to unbounded positions (`head = Len(log) % Capacity`,
`tail = gone % Capacity`, at most `Mask` apart), says that each thread's stale view
errs on the safe side (`WriterFacts`, `ReaderFacts`), and what has been copied into
the slots ahead of `head` (`Copied`) and out of those behind it (`ReadSoFar`).
Positions less than `Capacity` apart have different remainders, so the feeder's
slots and the callback's are disjoint.  The theorems: type correctness,
`NoSharedSlot`, `PlanesAligned`, `PublishedPlanar`, `ImplementsQueue`, `DropsCounted`
and `TrimBoundsBacklog`, all of them under `BlocksFit`.  `ImplementsQueue`: each step of the ring is a step of `SampleQueue` or none.
`DropsCounted` is inductive beside `RInv`: the samples in a block's copy are settled
one way or the other when the space is loaded, modulo the width of `overruns`.
`TrimBoundsBacklog` needs what the trim is about to skip (`Trimming`).

**ReacPwProofs**: `PwInv` says which threads, nodes, rings and sockets exist at each
point of main.  Each of the 24 actions keeps it; `NothingFreedInUse`, `CleanExit`
and `OneFrameAfterStop` follow.

**PipelineProofs, the wire**, for every counter width, length of gap, delay and number of
restarts.  The wire only chooses counters, so `WireFeedsPipeline` (`WireSpec => Spec`)
brings in all of the above.  `WInv` adds `HighWater`: until the master
restarts, the program's `last_counter` is the counter of the newest frame delivered
(`high`), so that `SignedDelta` is the true distance and a gap is counted once.
`LossesExact` is then inductive, and `TimelineTracksMaster` is `ClockPosition` with
`LossesExact` put in.  `ResyncsWithinHalfPeriod` needs `CatchingUp`: while the clock
takes the frames after a restart for late ones, each brings the master one step
nearer, its distance behind `last_counter` being at least `HalfRange + run - 1`
and less than a period, so that half a period of frames in order uses it up.

**DanteProofs**, for every window, number of channels and flows, and every pattern
of bursts.  `DanteRunsPipeline` (`DanteSpec => Spec`) again brings in the pipeline.
The properties speak of the packets of the last window and are not inductive.
`DInv` tells everything from the number of frames pushed: `Pushing` (a burst being
pushed is the newest part of the stream), `OnlyThePartialWindowHeld` (the window
holds the remainder), `Gathering` (the flows' next numbers, the window's timestamp
and its mark) and `Gathered` (which sample lies in which cell of the window).  A
push that fills the window emits what `Gathering` and `Gathered` say, which gives
`FlowsContiguous`, `ConcealmentFlagged` and `EverySampleCarriedOnce`; the lemmas on
`dante_build_flows` show that the flows divide the channels among them.
`SessionKeptFresh` follows from `AnnouncedInTime`: the frames without an
announcement are at most those since the last multiple of `Pps`.

**ReacPwProofs, sink and loopback**, for every frame length, sequence of quanta, channel count,
sample width, input and pattern of failed sends.  `LInv` tells everything from the
number of samples played: `StagePlayed` (what waits in the stage), `InFlight` (what
each frame on the wire carries), `SendsInOrder` (how far apart the numbers of two
frames on the wire are, and of the newest from what was played) and `Receiver` (the
feeder's `last_counter` is the newest frame's).  `HeardIsPlayed` is the round trip of
one sample (rounding, both clamps, the sign of a 24-bit field) at the cell the
decoder reads.  `FailedSendsAreGaps` rests on `SendsInOrder`: a difference of frame
numbers within the counter's range is what `reac_counter_gap` gives.

**ListenProofs**, for every counter width, socket buffer and number of frames, both
loops, and every mixture of broadcast, unicast, damaged and foreign frames.
`DirectionsNeverMixed` is about the clock and says nothing of the frames that still
wait in the socket, which decide what the clock will be told.  `SInv` adds them:
the broadcast frames in the socket wait in order (`InOrder`), each less than half a
period after the one before, the first of them after the newest handled
(`Countable`), and the last of them is the newest that reached the socket
(`NewestLast`), from which the next to arrive is again not too far.  `ClockFollows`
is the conclusion: with `--bcast-only`, `last_counter` is the counter of the newest
broadcast frame handled, so that `SignedDelta` counts exactly those in between.

**ReplayProofs**, for every collection of capture files and every width.
`ReplaysInOrder` looks at the last two frames only.  `PassInv` says where in the file
the reader stands: nothing before `ps` ends the file, no playable frame lies between
the last one fed and `ps`, and before the first frame of a new pass the last one was
complete.  `PassesKeepTempo` needs `TempoInv`: the pacing baseline belongs to the first
playable frame in every pass, and the wall clock is ahead of the latest frame so far
by `MaxLate` at most.  `DriftIsTheCaptures` holds for every capture, and is not
inductive: it speaks of the last window, and a frame adds to the one that grows.
`WindowInv` follows that one: as long as nothing odd was in it, `win_frames` is the
distance of the frames at its ends in the capture, and it began with a frame that was
waited for, or the first of a pass.  `DriftInv` adds the window the estimate was taken
from.  A window ends when the wait for a frame has made it long enough (`FrameWait`),
so at both ends the wall clock is where the capture says, up to `MaxLate`, and what
lies between, jitter and steps backwards included, cancels out.  `ToIntNear` and
`PpmNear` say that the quotient cut towards zero is within one of the true one.
The
library's induction theorems cannot be used; where a file of any length needs
induction (its capture times have a largest one), the proof takes a least
counterexample (`LeastNat`, from the well-foundedness of the naturals).

**Aes67Proofs**, for any number of flows, range of octets and base address, and
whichever open fails.  `AInv` says which descriptors are open at each point of the
program, from the command line and from how far it has come: `PathTaken`,
`SenderHeld`, `SourceHeld`, `AnnouncerHeld`, `FlowsHeld`, and `Addresses` for what was
announced and sent to.  `SocketsOwned` alone says nothing before the exit and is not
inductive.

**ModArith** holds the facts about `%` the other proofs cite: uniqueness of
remainder and quotient, adding multiples, differences smaller than the modulus, the
step from one number to the next, how quotients are ordered, and `CounterDistance`:
the distance of two wrapped counters is that of the frames, up to a whole period.

Only model-checked: the liveness properties (`EverySampleLeaves`, `FileReplayStops`,
`SignalledLoopStops`, `AnnouncedForEver`, `StatusCatchesUp`, `DriftReachesGraph`,
`ReplayGoesOn`), as fairness and `ENABLED` are outside the prover's reach.  Every
invariant and every action property of a passing run is also a theorem.  All of
`ReacRingProofs` is under the stated hypothesis that blocks fit the ring
(`BlocksFit`), and `ConcealmentNeverSwells` itself speaks of the fades that fit an int
(`FadeFits`).

## Not modelled

* The age of the PTP anchor when the first frame arrives, and the real time of the
  tone's packets.
* `--rate auto`: `reac_detect_rate_fd` is libreac's; the rate is a constant.
* SAP and SDP text, RTP header bytes, Ethernet headers, ubus message encoding, the
  parsing of arguments, LuCI pages and packages.
* Socket options.  Sends whose result the code ignores are not states; the one
  failure that leaves a trace (a frame number is used up) is in `SinkNode`.
* A second signal (except in `Listen`), and signals before the handlers are
  installed, which kill.
* The exit of `reac-pw` after a failed start while a node is connected: the model
  ends with main.

## Plan

Done: the pipeline with its clock and concealment, the wire, the Dante sender,
the ring and its refinement, the life cycle of `reac-pw`, the sink with the
loopback, listen mode, the reader of capture files with the feeder's replay and
drift, the life cycle of `reac-aes67`, the tone; proofs for pipeline, wire, Dante
sender, ring, life cycle of both programs, loopback, listen mode and replay.  What is
left unmodelled is formatting, packaging and time of day; what is left unproved is
liveness.
