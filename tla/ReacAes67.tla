----------------------------- MODULE ReacAes67 -----------------------------
(***************************************************************************)
(* The program reac-aes67 (src/src/main.c) from its command line to its    *)
(* exit: which mode runs, what is opened, announced and closed in it, and  *)
(* what becomes of an open that fails.  The streams themselves are the     *)
(* subject of Dante, Listen, GenTone and PcapSource; here a turn of any of *)
(* their loops sends a packet to every open sender.                        *)
(*                                                                         *)
(* The process has one thread.  A signal whose handler is not installed,   *)
(* and one before it is, ends it without more ado.                         *)
(***************************************************************************)
EXTENDS Integers

CONSTANTS
  MaxOctet,    \* the largest octet (255)
  BaseOctets,  \* last octets of --aes67-base; above MaxOctet: no address
  NumFlows     \* results of dante_build_flows: -1 or a number of flows

ASSUME ReacAes67Assumption ==
  /\ MaxOctet \in Nat /\ BaseOctets \subseteq Nat
  /\ NumFlows \subseteq Nat \cup {-1}

VARIABLES
  o,       \* the command line
  pc,      \* where the program is
  fd,      \* the descriptors, by the variable that holds them
  active,  \* sap.active or sap_ok
  us,      \* whether run_listen has a ubus handle
  opened,  \* run_dante's count of open flows
  g_stop,
  rc,      \* the exit code
  told,    \* history: the addresses announced
  sent,    \* history: the addresses packets were sent to
  unfit,   \* history: flows whose announcement could not be built
  wild     \* history: a descriptor was used that is not the program's

vars == <<o, pc, fd, active, us, opened, g_stop, rc, told, sent, unfit, wild>>

Snd     == <<"snd", 0>>
Sap     == <<"sap", 0>>
Src     == <<"src", 0>>     \* the capture socket or file
Flow(i) == <<"flow", i>>
Flows   == IF o.n_flows > 0 THEN 0 .. o.n_flows - 1 ELSE {}
Udp     == -1               \* the address of --udp; a flow's is its octet

(* A descriptor is "own" when open, -1 when it is "closed" or could not be *)
(* opened ("none"); one "unset" or zeroed ("zero") is somebody else's.     *)
Wild == {"unset", "zero"}

(* main begins with any choice of the options that select a mode.          *)
Init ==
  /\ o \in [profile_dante : BOOLEAN, do_sdp : BOOLEAN, do_dump : BOOLEAN,
            do_count : BOOLEAN, pcap : BOOLEAN, iface : BOOLEAN,
            udp : {"none", "bad", "good"}, gen_tone : BOOLEAN, do_sap : BOOLEAN,
            base : BaseOctets, n_flows : NumFlows]
  /\ pc = "main" /\ rc = 0
  /\ fd = [s \in {Snd, Sap, Src} \cup {Flow(i) : i \in Flows} |-> "unset"]
  /\ active = FALSE /\ us = FALSE /\ opened = 0 /\ g_stop = FALSE
  /\ told = {} /\ sent = {} /\ unfit = {} /\ wild = FALSE

-----------------------------------------------------------------------------
(* aes67_send.c, reac_capture.c and pcap_source.c: what opening leaves in  *)
(* a variable, and closing some of them.                                   *)
Open(s, ok) == [fd EXCEPT ![s] = IF ok THEN "own" ELSE "none"]

Close(slots) ==
  /\ fd' = [s \in DOMAIN fd |-> IF s \in slots THEN "closed" ELSE fd[s]]
  /\ wild' = (wild \/ \E s \in slots : fd[s] \in Wild)

(* The address of flow i, and whether there is one: no carry.              *)
ipv4_add_octet(i) == o.base + i
HasAddress(i)     == o.base <= MaxOctet /\ o.base + i <= MaxOctet

Exit(code) == pc' = "exit" /\ rc' = code
Goto(l)    == pc' = l /\ UNCHANGED rc

count_only == o.do_count
Dante      == o.profile_dante /\ ~o.do_sdp /\ ~o.do_dump
Counting   == o.do_dump \/ o.do_count
FromFile   == IF Dante \/ Counting THEN o.pcap ELSE ~o.gen_tone /\ ~o.iface
FromTone   == ~Dante /\ ~Counting /\ o.gen_tone
Listening  == ~Dante /\ ~Counting /\ ~o.gen_tone /\ o.iface

(* --print-sdp: flow by flow, until one has no address (2) or its SDP does  *)
(* not fit (1).                                                            *)
PrintSdp ==
  LET stops == IF o.profile_dante THEN o.n_flows < 0 \/ \E i \in Flows : ~HasAddress(i)
               ELSE o.udp # "good"
      prints == IF o.profile_dante THEN o.n_flows > 0 /\ HasAddress(0) ELSE ~stops
  IN  \/ ~stops /\ Exit(0)
      \/ stops  /\ Exit(2)
      \/ prints /\ Exit(1)

(* The command lines that are refused for want of a source or an address.  *)
Refused ==
  \/ Counting /\ ~o.pcap
  \/ ~Counting /\ o.profile_dante /\ ~o.pcap /\ ~o.iface
  \/ ~Counting /\ ~o.profile_dante /\ o.udp # "good"
  \/ Dante /\ o.n_flows < 0

main ==
  /\ pc = "main"
  /\ IF o.do_sdp THEN PrintSdp
     ELSE IF Refused THEN Exit(2)
     ELSE Goto(IF Dante THEN "flows" ELSE IF Counting THEN "source" ELSE "sender")
  /\ UNCHANGED <<o, fd, active, us, opened, g_stop, told, sent, unfit, wild>>

-----------------------------------------------------------------------------
(* One stream to --udp: the sender first; without a source it is closed.   *)
OpenSender ==
  /\ pc = "sender"
  /\ \E ok \in BOOLEAN :
       LET source == o.gen_tone \/ o.iface \/ o.pcap
       IN  /\ fd' = IF ok /\ ~source THEN [fd EXCEPT ![Snd] = "closed"] ELSE Open(Snd, ok)
           /\ IF ~ok THEN Exit(1)
              ELSE IF ~source THEN Exit(2)
              ELSE IF FromTone THEN Goto("announcer") ELSE Goto("source")
  /\ UNCHANGED <<o, active, us, opened, g_stop, told, sent, unfit, wild>>

(* sap_announcer_start on a zeroed announcer, and the first announcement:  *)
(* the packet cannot be built, the socket not be opened, or both can.      *)
StartAnnouncer ==
  /\ pc = "announcer"
  /\ \/ fd' = [fd EXCEPT ![Sap] = "zero"] /\ UNCHANGED <<active, told>>
     \/ o.do_sap /\ fd' = Open(Sap, FALSE) /\ UNCHANGED <<active, told>>
     \/ o.do_sap /\ fd' = Open(Sap, TRUE) /\ active' = TRUE /\ told' = {Udp}
  /\ Goto("run")
  /\ UNCHANGED <<o, us, opened, g_stop, sent, unfit, wild>>

-----------------------------------------------------------------------------
OpenFlows == {Flow(j) : j \in 0 .. opened - 1}

(* run_dante opens a sender for every flow.  One that has no address or    *)
(* cannot be opened ends the program, which leaves its variable as it is   *)
(* or at -1; those open already are closed.                                *)
OpenFlow ==
  /\ pc = "flows" /\ ~count_only /\ opened < o.n_flows
  /\ \/ /\ HasAddress(opened)
        /\ fd' = Open(Flow(opened), TRUE)
        /\ opened' = opened + 1
        /\ UNCHANGED <<pc, rc, wild>>
     \/ /\ Close(OpenFlows)
        /\ Exit(1)
        /\ UNCHANGED opened
  /\ UNCHANGED <<o, active, us, g_stop, told, sent, unfit>>

(* Fault: sessions are announced by the number in their names.             *)
SapAddressByName(i) == ipv4_add_octet(i + 1)

SapAddress(i) == ipv4_add_octet(i)

(* The announcements of the flows are built and sent once.  Some may not   *)
(* fit; without a socket, or with --no-sap, there are none.                *)
OpenSap ==
  /\ pc = "flows" /\ (count_only \/ opened = o.n_flows)
  /\ \/ UNCHANGED <<fd, active, told, unfit>> /\ (count_only \/ ~o.do_sap)
     \/ /\ ~count_only /\ o.do_sap /\ fd' = Open(Sap, FALSE)
        /\ UNCHANGED <<active, told, unfit>>
     \/ /\ ~count_only /\ o.do_sap /\ fd' = Open(Sap, TRUE) /\ active' = TRUE
        /\ unfit' \in SUBSET Flows
        /\ told' = {SapAddress(i) : i \in Flows \ unfit'}
  /\ Goto("source")
  /\ UNCHANGED <<o, us, opened, g_stop, sent, wild>>

-----------------------------------------------------------------------------
(* A handle, or none: no memory, no ubus, or the name is taken.            *)
ubus_stats_start == BOOLEAN

(* The file or the capture is opened.  run_listen then tries ubus and      *)
(* starts the announcer; a source that fails leads to what must be closed. *)
OpenSource ==
  /\ pc = "source"
  /\ \E ok \in BOOLEAN :
       /\ fd' = Open(Src, ok)
       /\ pc' = IF ~ok THEN "close" ELSE IF Listening THEN "announcer" ELSE "run"
       /\ rc' = IF ok THEN 0 ELSE 1
       /\ us' \in IF ok /\ Listening THEN ubus_stats_start ELSE {FALSE}
  /\ UNCHANGED <<o, active, opened, g_stop, told, sent, unfit, wild>>

(* The senders a packet, or one of every flow, goes out through.           *)
Senders ==
  IF Dante THEN {Flow(i) : i \in IF count_only THEN {} ELSE Flows}
  ELSE IF Counting THEN {} ELSE {Snd}
Address(s) == IF s = Snd THEN Udp ELSE ipv4_add_octet(s[2])

(* A turn of the loop that sends.                                          *)
Send ==
  /\ pc = "run" /\ (us \/ ~g_stop)
  /\ sent' = sent \cup {Address(s) : s \in {t \in Senders : fd[t] = "own"}}
  /\ wild' = (wild \/ \E s \in Senders : fd[s] = "unset")
  /\ UNCHANGED <<o, pc, fd, active, us, opened, g_stop, rc, told, unfit>>

on_sigint ==
  /\ pc = "run" /\ ~FromFile
  /\ g_stop' = TRUE
  /\ UNCHANGED <<o, pc, fd, active, us, opened, rc, told, sent, unfit, wild>>

(* The loop ends: with the file, when asked to, when the capture fails or, *)
(* with uloop, when ubusd is lost.                                         *)
Leave ==
  /\ pc = "run" /\ (g_stop \/ ~FromTone)
  /\ Goto("close")
  /\ UNCHANGED <<o, fd, active, us, opened, g_stop, told, sent, unfit, wild>>

(* Fault: the announcer is stopped whether it was started or not.          *)
AlwaysStopped == {Sap}

sap_announcer_stop == {s \in {Sap} : active}

(* What is closed at the end: a source that was opened, the announcer if   *)
(* it is active, the senders of the mode.                                  *)
Closing ==
  {s \in {Src} : rc = 0 /\ ~FromTone} \cup sap_announcer_stop \cup
  (IF Dante THEN OpenFlows ELSE {s \in {Snd} : ~Counting})

Teardown ==
  /\ pc = "close"
  /\ Close(Closing)
  /\ us' = FALSE /\ active' = FALSE
  /\ Exit(rc)
  /\ UNCHANGED <<o, opened, g_stop, told, sent, unfit>>

Finished == pc = "exit" /\ UNCHANGED vars

Next ==
  \/ main \/ OpenSender \/ StartAnnouncer \/ OpenFlow \/ OpenSap \/ OpenSource
  \/ Send \/ on_sigint \/ Leave \/ Teardown \/ Finished

Spec == Init /\ [][Next]_vars

-----------------------------------------------------------------------------
(* Whatever could not be opened, the program closes all that it opened,    *)
(* and never a descriptor it does not own: a zeroed announcer holds 0, and *)
(* closing that would close the standard input.  It reports success only   *)
(* if its source and all its senders could be opened.                      *)
SocketsOwned ==
  /\ ~wild
  /\ pc = "exit" => /\ \A s \in DOMAIN fd : fd[s] # "own"
                    /\ ~us /\ ~active
                    /\ rc = 0 /\ ~o.do_sdp =>
                         /\ \A s \in Senders : fd[s] = "closed"
                         /\ FromTone \/ fd[Src] = "closed"

(* Receivers find the stream where it is sent: while the loop runs, what   *)
(* is announced is what the senders send to, apart from flows whose        *)
(* announcement could not be built; packets go nowhere else, and nowhere   *)
(* when they are only counted.                                             *)
AnnouncedMatchesSent ==
  /\ Counting => told = {} /\ sent = {}
  /\ pc = "run" =>
       LET to == {Address(s) : s \in Senders}
       IN  /\ sent \subseteq to
           /\ active => told = to \ {ipv4_add_octet(i) : i \in unfit}
           /\ ~active => told = {}
=============================================================================
