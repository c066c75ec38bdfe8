------------------------------- MODULE ReacPw -------------------------------
(***************************************************************************)
(* The life of a reac-pw process (src/pipewire/src/main.c): the main       *)
(* thread, the RX feeder thread (rx_loop in reac_rx.c) and PipeWire's      *)
(* realtime thread, which calls on_process of the source and of the sink   *)
(* node while they are connected.  The question is who may still touch     *)
(* what: the ring, the capture, the TX socket.  What flows through the     *)
(* ring is ReacRing's subject.                                             *)
(*                                                                         *)
(* When main returns the process ends and its threads with it.  A signal   *)
(* before the handlers are installed kills the process and is left out.    *)
(***************************************************************************)
EXTENDS Naturals

VARIABLES
  kind,      \* rxcfg.kind: "live" or "pcap"
  tx,        \* --tx is given
  pc,        \* where main is
  code,      \* main's exit status
  ring,      \* the RX ring: "none", "alive" or "freed"
  txring,    \* the reserved TX ring
  source,    \* the capture node: "none", "connected" or "destroyed"
  sink,      \* the playback node
  sock,      \* the sink's TX socket is open
  running,   \* rx->running
  feeder,    \* where the feeder thread is
  wire,      \* the feeder's capture or file is open
  rt,        \* whose on_process the realtime thread is in, or "idle"
  signal,    \* a signal waits in the main loop's signalfd
  after      \* history: frames fed since running was cleared

config   == <<kind, tx>>
nodeVars == <<ring, txring, source, sink, sock>>
rxVars   == <<running, feeder, wire, after>>
vars     == <<config, pc, code, nodeVars, rxVars, rt, signal>>

Init ==
  /\ kind \in {"live", "pcap"} /\ tx \in BOOLEAN
  /\ pc = "open" /\ code = 0
  /\ ring = "none" /\ txring = "none" /\ source = "none" /\ sink = "none" /\ sock = FALSE
  /\ running = FALSE /\ feeder = "none" /\ wire = FALSE /\ after = 0
  /\ rt = "idle" /\ signal = FALSE

Exit(status) == pc' = "exit" /\ code' = status

-----------------------------------------------------------------------------
(* The main thread, up to the main loop.                                   *)

(* reac_rx_open opens a live source whose rate is not given, to detect it, *)
(* and closes it again; then it allocates the ring.  The sources the       *)
(* feeder will read are opened by the feeder.                              *)
Open ==
  /\ pc = "open"
  /\ ring' = "alive"
  /\ pc' = "source"
  /\ UNCHANGED <<config, code, txring, source, sink, sock, rxVars, rt, signal>>

OpenFails ==
  /\ pc = "open"
  /\ Exit(1)
  /\ UNCHANGED <<config, nodeVars, rxVars, rt, signal>>

(* reac_source_node_new: the node is connected, the callback may run.      *)
NewSource ==
  /\ pc = "source"
  /\ source' = "connected"
  /\ pc' = IF tx THEN "sink" ELSE "start"
  /\ UNCHANGED <<config, code, ring, txring, sink, sock, rxVars, rt, signal>>

NewSourceFails ==
  /\ pc = "source"
  /\ Exit(1)
  /\ UNCHANGED <<config, nodeVars, rxVars, rt, signal>>

(* reac_sink_node_new after the TX ring; without its socket, or when       *)
(* PipeWire refuses the node, main goes on without a sink.                 *)
NewSink ==
  /\ pc = "sink"
  /\ txring' = "alive"
  /\ \/ sink' = "connected" /\ sock' = TRUE
     \/ UNCHANGED <<sink, sock>>
  /\ pc' = "start"
  /\ UNCHANGED <<config, code, ring, source, rxVars, rt, signal>>

(* reac_rx_start: running is set before the thread exists.                 *)
Start ==
  /\ pc = "start"
  /\ running' = TRUE /\ feeder' = "open"
  /\ pc' = "loop"
  /\ UNCHANGED <<config, code, nodeVars, wire, after, rt, signal>>

StartFails ==
  /\ pc = "start"
  /\ running' = TRUE
  /\ Exit(1)
  /\ UNCHANGED <<config, nodeVars, feeder, wire, after, rt, signal>>

-----------------------------------------------------------------------------
(* The main loop and the way out.                                          *)

(* SIGINT or SIGTERM: pw_loop_add_signal has turned them into events of    *)
(* the main loop, so they interrupt no other thread, and one that comes    *)
(* before the loop runs is kept for it.                                    *)
Signal ==
  /\ pc \notin {"open", "exit"} /\ ~signal
  /\ signal' = TRUE
  /\ UNCHANGED <<config, pc, code, nodeVars, rxVars, rt>>

(* on_signal quits the loop.                                               *)
Quit ==
  /\ pc = "loop" /\ signal
  /\ pc' = "stop"
  /\ UNCHANGED <<config, code, nodeVars, rxVars, rt, signal>>

(* reac_rx_stop clears running ...                                         *)
Stop ==
  /\ pc = "stop"
  /\ running' = FALSE
  /\ pc' = "join"
  /\ UNCHANGED <<config, code, nodeVars, feeder, wire, after, rt, signal>>

(* Fault: the feeder is not waited for.                                    *)
JoinWithoutWaiting ==
  /\ pc = "join"
  /\ pc' = "unsource"
  /\ UNCHANGED <<config, code, nodeVars, rxVars, rt, signal>>

(* ... and waits for the feeder to end.                                    *)
Join ==
  /\ pc = "join" /\ feeder = "ended"
  /\ pc' = "unsource"
  /\ UNCHANGED <<config, code, nodeVars, rxVars, rt, signal>>

(* pw_filter_destroy returns when the callback has and will not be called  *)
(* again.                                                                  *)
DestroySource ==
  /\ pc = "unsource" /\ rt # "source"
  /\ source' = "destroyed"
  /\ pc' = "unsink"
  /\ UNCHANGED <<config, code, ring, txring, sink, sock, rxVars, rt, signal>>

DestroySink ==
  /\ pc = "unsink" /\ rt # "sink"
  /\ sink' = IF sink = "connected" THEN "destroyed" ELSE sink
  /\ sock' = FALSE
  /\ pc' = "free"
  /\ UNCHANGED <<config, code, ring, txring, source, rxVars, rt, signal>>

Free ==
  /\ pc = "free"
  /\ txring' = IF tx THEN "freed" ELSE txring
  /\ ring' = "freed"
  /\ pc' = "deinit"
  /\ UNCHANGED <<config, code, source, sink, sock, rxVars, rt, signal>>

(* The loop is destroyed, PipeWire shut down, and main returns.            *)
Deinit ==
  /\ pc = "deinit"
  /\ Exit(0)
  /\ UNCHANGED <<config, nodeVars, rxVars, rt, signal>>

-----------------------------------------------------------------------------
(* The feeder thread.  It lives as long as the process does.               *)
Feeding(at) == feeder = at /\ pc # "exit"
FeederLeaves == <<config, pc, code, nodeVars, running, rt, signal>>

(* rx_loop opens the source itself; when that fails the thread ends and    *)
(* nobody is told.                                                         *)
FeederOpen ==
  /\ Feeding("open")
  /\ \/ feeder' = "check" /\ wire' = TRUE
     \/ feeder' = "ended" /\ UNCHANGED wire
  /\ UNCHANGED <<FeederLeaves, after>>

(* Fault: the flag is only set, never looked at.                           *)
FeederCheckAlways ==
  /\ Feeding("check")
  /\ feeder' = "recv"
  /\ UNCHANGED <<FeederLeaves, wire, after>>

FeederCheck ==
  /\ Feeding("check")
  /\ feeder' = IF running THEN "recv" ELSE "close"
  /\ UNCHANGED <<FeederLeaves, wire, after>>

(* A frame arrives on the interface, or a record is read and slept for.    *)
(* A file that could not be reopened yields errors and no records.         *)
Frame ==
  /\ Feeding("recv") /\ wire
  /\ feeder' = "feed"
  /\ UNCHANGED <<FeederLeaves, wire, after>>

(* An error, or a frame that is not REAC: the loop goes round.             *)
NoFrame ==
  /\ Feeding("recv")
  /\ feeder' = "check"
  /\ UNCHANGED <<FeederLeaves, wire, after>>

(* The end of the file: it is closed and opened again, which may fail.     *)
Rewind ==
  /\ Feeding("recv") /\ kind = "pcap" /\ wire
  /\ wire' \in BOOLEAN
  /\ feeder' = "check"
  /\ UNCHANGED <<FeederLeaves, after>>

(* feed_frame: the frame is decoded and written into the ring.             *)
Feed ==
  /\ Feeding("feed")
  /\ feeder' = "check"
  /\ after' = IF running \/ after = 2 THEN after ELSE after + 1
  /\ UNCHANGED <<FeederLeaves, wire>>

(* Fault: only the file is closed.                                         *)
CloseFileOnly ==
  /\ Feeding("close")
  /\ wire' = (wire /\ kind = "live")
  /\ feeder' = "ended"
  /\ UNCHANGED <<FeederLeaves, after>>

FeederClose ==
  /\ Feeding("close")
  /\ wire' = FALSE
  /\ feeder' = "ended"
  /\ UNCHANGED <<FeederLeaves, after>>

-----------------------------------------------------------------------------
(* The realtime thread: the graph calls the nodes one after the other.     *)
Process ==
  /\ rt = "idle" /\ pc # "exit"
  /\ \/ source = "connected" /\ rt' = "source"
     \/ sink = "connected" /\ rt' = "sink"
  /\ UNCHANGED <<config, pc, code, nodeVars, rxVars, signal>>

ProcessDone ==
  /\ rt # "idle" /\ pc # "exit"
  /\ rt' = "idle"
  /\ UNCHANGED <<config, pc, code, nodeVars, rxVars, signal>>

Exited == pc = "exit" /\ UNCHANGED vars

-----------------------------------------------------------------------------
Main == \/ Open \/ OpenFails \/ NewSource \/ NewSourceFails \/ NewSink \/ Start
        \/ StartFails \/ Quit \/ Stop \/ Join \/ DestroySource \/ DestroySink \/ Free
        \/ Deinit

Next == \/ Main \/ Signal
        \/ FeederOpen \/ FeederCheck \/ Frame \/ NoFrame \/ Rewind \/ Feed \/ FeederClose
        \/ Process \/ ProcessDone \/ Exited

Spec == Init /\ [][Next]_vars

(* recv on a live interface returns when somebody sends; a file answers at *)
(* once, with a record, its end or an error.                               *)
FileAnswers == kind = "pcap" /\ (Frame \/ NoFrame \/ Rewind)

(* The scheduler runs every thread that can run; on_process returns.       *)
(* Nothing is asked of the wire.  pw_filter_destroy waits for on_process   *)
(* to return while the graph may call it again, so it needs more than its  *)
(* turn: the realtime thread stops calling as soon as it sees the request. *)
FairSpec ==
  /\ Spec
  /\ WF_vars(Main) /\ WF_vars(ProcessDone)
  /\ SF_vars(DestroySource) /\ SF_vars(DestroySink)
  /\ WF_vars(FeederOpen) /\ WF_vars(FeederCheck) /\ WF_vars(FileAnswers)
  /\ WF_vars(Feed) /\ WF_vars(FeederClose)

-----------------------------------------------------------------------------
TypeOK ==
  /\ kind \in {"live", "pcap"} /\ tx \in BOOLEAN
  /\ pc \in {"open", "source", "sink", "start", "loop", "stop", "join",
             "unsource", "unsink", "free", "deinit", "exit"}
  /\ code \in {0, 1}
  /\ ring \in {"none", "alive", "freed"} /\ txring \in {"none", "alive", "freed"}
  /\ source \in {"none", "connected", "destroyed"} /\ sink \in {"none", "connected", "destroyed"}
  /\ sock \in BOOLEAN /\ running \in BOOLEAN /\ wire \in BOOLEAN
  /\ signal \in BOOLEAN
  /\ feeder \in {"none", "open", "check", "recv", "feed", "close", "ended"}
  /\ rt \in {"idle", "source", "sink"}
  /\ after \in 0 .. 2

(* Neither the feeder nor the realtime callback ever uses the ring before  *)
(* it is allocated or after it is freed, and the sink never sends on a     *)
(* closed socket: main takes its parts down in the right order.            *)
NothingFreedInUse ==
  pc # "exit" =>
    /\ feeder = "feed" \/ rt = "source" => ring = "alive"
    /\ rt = "sink" => sock

(* A signal leads to an exit that leaves nothing behind: the feeder has    *)
(* ended and closed its source, nodes and rings and the socket are gone.   *)
CleanExit ==
  pc = "exit" /\ code = 0 =>
    /\ feeder = "ended" /\ ~wire /\ rt = "idle" /\ ~sock
    /\ source # "connected" /\ sink # "connected" /\ ring # "alive" /\ txring # "alive"

(* Once running is cleared at most the frame in hand still enters the      *)
(* ring.                                                                   *)
OneFrameAfterStop == after <= 1

(* A signal ends a process that replays a file, however often the file is  *)
(* wound back, as long as the feeder's waits for the time of a frame end   *)
(* (Replay says when one does not).                                        *)
FileReplayStops == (kind = "pcap" /\ signal) ~> pc = "exit"

(* reac_rx.c:99, about the live capture: "blocking; EINTR/stop-flag        *)
(* exits".  A signal ends a process that listens.                          *)
LiveStops == (kind = "live" /\ signal) ~> pc = "exit"
=============================================================================
