------------------------------- MODULE Listen -------------------------------
(***************************************************************************)
(* The live AES67 daemon (run_listen in src/src/main.c) around the media   *)
(* clock of its pipeline: frames wait in the capture socket, a loop hands  *)
(* them to the pipeline, announces the session and publishes statistics.   *)
(*                                                                         *)
(* There are two loops.  With ubus, uloop serves a non-blocking socket and *)
(* a publish timer (ubus_stats_run).  Without, run_listen itself reads a   *)
(* blocking socket and looks at g_stop between frames.  uloop, recv and    *)
(* signals are the system's and modelled from their use.  uloop brings its *)
(* own handler only for a signal that has none: on_sigint is installed     *)
(* before it starts and stays, and the event loop never reads g_stop.      *)
(*                                                                         *)
(* Two directions share the wire: the master's broadcast and the unicast   *)
(* frames of a stage box, which count independently.                       *)
(***************************************************************************)
EXTENDS MediaClock, Sequences

CONSTANTS
  Pps,         \* frames per second (4000 at 48 kHz)
  SockCap,     \* frames the socket buffer holds
  UpCounters,  \* counters of the unicast frames
  MaxFrames    \* bound: frames on the wire

ASSUME ListenAssumption ==
  /\ Pps \in Nat \ {0} /\ SockCap \in Nat \ {0}
  /\ UpCounters \subseteq Counters
  /\ MaxFrames \in Nat

VARIABLES
  uloop,      \* ubus_stats_start gave a handle: the event loop runs
  restarts,   \* the libc's signal() restarts an interrupted recv
  bcast,      \* g_bcast_only
  pc,         \* where run_listen is
  sockq,      \* frames waiting in the socket
  g_stop,     \* set by on_sigint
  woken,      \* recv was interrupted
  timer,      \* the publish timer: "armed" or "due"
  clock,      \* the pipeline's media clock
  fc,         \* fc of the blocking loop
  status,     \* the losses ubus answers with
  ann,        \* flips with every announcement
  arrived,    \* history: frames on the wire
  strange,    \* history: one of them was not of REAC
  down,       \* history: broadcast frames sent
  newest,     \* history: the newest of them that reached the socket whole
  first, high, taken   \* history: the first and the newest of them handled,
                       \* and how many were handled

config == <<uloop, restarts, bcast>>
stops  == <<g_stop, woken>>
media  == <<clock, fc, first, high, taken>>
wire   == <<arrived, strange, down, newest>>
lvars  == <<config, pc, sockq, stops, timer, media, status, ann, wire>>

(* The state when the signal handlers are installed: the capture is open   *)
(* and the session was announced once.                                     *)
ListenInit ==
  /\ uloop \in BOOLEAN /\ restarts \in BOOLEAN /\ bcast \in BOOLEAN
  /\ pc = "setup" /\ sockq = << >>
  /\ g_stop = FALSE /\ woken = FALSE
  /\ timer = "armed"
  /\ clock = media_clock_init_anchored(0)
  /\ fc = 0 /\ first = -1 /\ high = -1 /\ taken = 0
  /\ status = 0
  /\ ann = FALSE /\ arrived = 0 /\ strange = FALSE /\ down = 0 /\ newest = -1

-----------------------------------------------------------------------------
(* The world: frames, time and signals.                                    *)

(* A frame reaches the socket, or is dropped because the buffer is full.   *)
(* n numbers the broadcast frames, of which fewer than half a counter      *)
(* period are lost in a row: beyond, no receiver can tell how many.        *)
Arrive(f) ==
  /\ arrived < MaxFrames
  /\ f.dir \in {"down", "bad"} /\ newest >= 0 => down - newest <= HalfRange
  /\ arrived' = arrived + 1 /\ strange' = (strange \/ f.dir = "foreign")
  /\ sockq' = IF Len(sockq) < SockCap THEN Append(sockq, f) ELSE sockq
  /\ down' = IF f.dir \in {"down", "bad"} THEN down + 1 ELSE down
  /\ newest' = IF f.dir = "down" /\ Len(sockq) < SockCap THEN f.n ELSE newest
  /\ UNCHANGED <<config, pc, stops, timer, media, status, ann>>

(* A frame of the broadcast, whole or damaged, of a stage box, or not of   *)
(* REAC at all.                                                            *)
Frames ==
  {[dir |-> "down", counter |-> down % CounterMod, n |-> down]}
    \cup [dir : {"up"}, counter : UpCounters, n : {-1}]
    \cup [dir : {"bad", "foreign"}, counter : {0}, n : {-1}]

Tick ==
  /\ uloop /\ timer = "armed" /\ pc \in {"poll", "drain"}
  /\ timer' = "due"
  /\ UNCHANGED <<config, pc, sockq, stops, media, status, ann, wire>>

(* SIGINT or SIGTERM, once or again.  A recv that waits for a frame is     *)
(* interrupted unless signal() restarts it.                                *)
Signal ==
  /\ pc # "done"
  /\ g_stop' = TRUE
  /\ woken' = (woken \/ (pc = "recv" /\ sockq = << >> /\ ~restarts))
  /\ UNCHANGED <<config, pc, sockq, timer, media, status, ann, wire>>

-----------------------------------------------------------------------------
(* Fault: the frames of both directions are taken.                         *)
WantedAlways(f) == TRUE

frame_wanted(f) == bcast => f.dir \in {"down", "bad"}

(* pipeline_on_frame, as far as the media clock; a damaged frame is not    *)
(* decoded and leaves it alone.                                            *)
HandOver(f) ==
  /\ clock' = IF f.dir = "bad" THEN clock ELSE media_clock_on_packet(clock, f.counter)
  /\ IF f.dir = "down"
     THEN /\ first' = IF taken = 0 THEN f.n ELSE first
          /\ high' = f.n /\ taken' = taken + 1
     ELSE UNCHANGED <<first, high, taken>>

Setup ==
  /\ pc = "setup"
  /\ pc' = IF uloop THEN "poll" ELSE "check"
  /\ UNCHANGED <<config, sockq, stops, timer, media, status, ann, wire>>

(* The event loop: listen_on_readable is called while the socket holds     *)
(* frames ...                                                              *)
Readable ==
  /\ pc = "poll" /\ sockq # << >>
  /\ pc' = "drain"
  /\ UNCHANGED <<config, sockq, stops, timer, media, status, ann, wire>>

(* ... and takes them one by one.  At a frame that is not of REAC          *)
(* reac_capture_next answers 0, as if there were no more.                  *)
Drain ==
  /\ pc = "drain" /\ sockq # << >>
  /\ sockq' = Tail(sockq)
  /\ LET f == Head(sockq)
     IN  /\ pc' = IF f.dir = "foreign" THEN "poll" ELSE "drain"
         /\ IF f.dir # "foreign" /\ frame_wanted(f)
            THEN HandOver(f) /\ UNCHANGED fc
            ELSE UNCHANGED media
  /\ UNCHANGED <<config, stops, timer, status, ann, wire>>

(* Fault: the socket was left blocking, so the empty one is waited for.    *)
DrainWaits == pc = "drain" /\ sockq = << >> /\ UNCHANGED lvars

DrainEnd ==
  /\ pc = "drain" /\ sockq = << >>
  /\ pc' = "poll"
  /\ UNCHANGED <<config, sockq, stops, timer, media, status, ann, wire>>

(* The pipeline's statistics go to ubus and the session is announced.      *)
listen_on_publish ==
  /\ status' = clock.total_lost
  /\ ann' = ~ann

(* Fault: the timer fires once.                                            *)
PublishOnce ==
  /\ pc = "poll" /\ timer = "due"
  /\ listen_on_publish
  /\ timer' = "spent"
  /\ UNCHANGED <<config, pc, sockq, stops, media, wire>>

(* The timer is due: on_pub_uloop calls back and arms it again.            *)
Publish ==
  /\ pc = "poll" /\ timer = "due"
  /\ listen_on_publish
  /\ timer' = "armed"
  /\ UNCHANGED <<config, pc, sockq, stops, media, wire>>

(* uloop_end, which nobody here calls: libubus does when it loses ubusd.   *)
UloopEnds ==
  /\ pc = "poll"
  /\ pc' = "done"
  /\ UNCHANGED <<config, sockq, stops, timer, media, status, ann, wire>>

-----------------------------------------------------------------------------
(* The blocking loop.                                                      *)
Check ==
  /\ pc = "check"
  /\ pc' = IF g_stop THEN "done" ELSE "recv"
  /\ UNCHANGED <<config, sockq, stops, timer, media, status, ann, wire>>

(* A wanted frame: the pipeline, and an announcement every Pps frames.     *)
Take(f) ==
  /\ HandOver(f)
  /\ fc' = fc + 1
  /\ ann' = IF fc' % Pps = 0 THEN ~ann ELSE ann

(* recv yields a frame; reac_capture_next keeps waiting after one that is  *)
(* not of REAC.                                                            *)
Recv ==
  /\ pc = "recv" /\ sockq # << >>
  /\ sockq' = Tail(sockq) /\ woken' = FALSE
  /\ LET f == Head(sockq)
     IN  /\ pc' = IF f.dir = "foreign" THEN "recv" ELSE "check"
         /\ IF f.dir # "foreign" /\ frame_wanted(f) THEN Take(f)
            ELSE UNCHANGED <<media, ann>>
  /\ UNCHANGED <<config, g_stop, timer, status, wire>>

(* Fault: recv is tried again at once.                                     *)
InterruptedRetries ==
  /\ pc = "recv" /\ woken
  /\ woken' = FALSE
  /\ UNCHANGED <<config, pc, sockq, g_stop, timer, media, status, ann, wire>>

(* An interrupted recv: reac_capture_next answers 0, the session is        *)
(* announced and g_stop looked at.                                         *)
Interrupted ==
  /\ pc = "recv" /\ woken
  /\ woken' = FALSE
  /\ ann' = ~ann
  /\ pc' = "check"
  /\ UNCHANGED <<config, sockq, g_stop, timer, media, status, wire>>

(* recv fails: the blocking loop ends, the event loop carries on.          *)
RecvFails ==
  /\ pc \in {"recv", "drain"}
  /\ pc' = IF uloop THEN "poll" ELSE "done"
  /\ UNCHANGED <<config, sockq, stops, timer, media, status, ann, wire>>

Done == pc = "done" /\ UNCHANGED lvars

-----------------------------------------------------------------------------
Loop == \/ Setup \/ Readable \/ Drain \/ DrainEnd \/ Publish
        \/ Check \/ Recv \/ Interrupted

ListenNext == \/ Loop \/ (\E f \in Frames : Arrive(f)) \/ Tick \/ Signal
              \/ UloopEnds \/ RecvFails \/ Done

(* The loop takes its next step when it has one, uloop does not neglect    *)
(* the timer, and seconds pass.  Nothing is asked of the wire.             *)
ListenSpec ==
  /\ ListenInit /\ [][ListenNext]_lvars
  /\ WF_lvars(Loop) /\ SF_lvars(Publish) /\ WF_lvars(Tick)

-----------------------------------------------------------------------------
(* "decoding them together interleaves two independent counter streams     *)
(* into concealment garbage": with --bcast-only, whatever the stage boxes  *)
(* send in between, the losses the clock reports are exactly the broadcast *)
(* frames that did not make it through the socket since the first one did. *)
DirectionsNeverMixed ==
  bcast /\ clock.started => clock.total_lost = high - first + 1 - taken

(* A signal ends the blocking loop.  One caught before the loop looks at   *)
(* g_stop does so at once.  One caught after it looked, before or inside   *)
(* recv, does so no later than the next REAC frame in the socket, wanted   *)
(* or not, damaged or not.  One that interrupts a recv that waits needs no *)
(* frame.  (A frame that is not of REAC may use up that wake-up inside     *)
(* reac_capture_next; the socket is bound so as not to see any.)           *)
SignalledLoopStops ==
  /\ /\ ~uloop /\ g_stop
     /\ pc # "recv" \/ \E i \in 1 .. Len(sockq) : sockq[i].dir # "foreign"
     ~> pc = "done"
  /\ woken ~> (pc = "done" \/ strange)

(* The event loop announces the session again and again, with or without   *)
(* frames.                                                                 *)
AnnouncedForEver ==
  /\ (pc = "poll" /\ ann) ~> (~ann \/ pc = "done")
  /\ (pc = "poll" /\ ~ann) ~> (ann \/ pc = "done")

(* Losses the pipeline has seen show in the published statistics in time.  *)
StatusCatchesUp ==
  \A x \in 1 .. MaxFrames :
    (uloop /\ clock.total_lost >= x) ~> (status >= x \/ pc = "done")

(* main.c:259: "recv times out every ~1s so we re-announce then".  The     *)
(* blocking loop announces the session again and again.                    *)
IdleReannounces ==
  /\ (pc = "recv" /\ ann) ~> (~ann \/ pc = "done")
  /\ (pc = "recv" /\ ~ann) ~> (ann \/ pc = "done")
=============================================================================
