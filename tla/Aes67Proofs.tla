---------------------------- MODULE Aes67Proofs -----------------------------
(***************************************************************************)
(* Proofs about ReacAes67, for every command line, every base address and  *)
(* any number of flows.                                                    *)
(***************************************************************************)
EXTENDS ReacAes67, TLAPS

(* The variables that hold a descriptor.                                   *)
Slots == {Snd, Sap, Src} \cup {Flow(i) : i \in Flows}

-----------------------------------------------------------------------------
(* The inductive invariant: which descriptors are open at every point of   *)
(* the program, told from the command line and from how far it has come.   *)

Options ==
  [profile_dante : BOOLEAN, do_sdp : BOOLEAN, do_dump : BOOLEAN,
   do_count : BOOLEAN, pcap : BOOLEAN, iface : BOOLEAN,
   udp : {"none", "bad", "good"}, gen_tone : BOOLEAN, do_sap : BOOLEAN,
   base : BaseOctets, n_flows : NumFlows]

ProgramType ==
  /\ o \in Options
  /\ pc \in {"main", "sender", "announcer", "flows", "source", "run", "close", "exit"}
  /\ fd \in [Slots -> {"unset", "zero", "own", "none", "closed"}]
  /\ active \in BOOLEAN /\ us \in BOOLEAN /\ g_stop \in BOOLEAN
  /\ opened \in Nat /\ rc \in Nat
  /\ unfit \subseteq Flows
  /\ ~wild

(* Which points a mode passes, and the exit code on the way.               *)
PathTaken ==
  /\ pc \notin {"main", "exit"} => ~o.do_sdp /\ ~Refused
  /\ pc = "flows" => Dante
  /\ pc = "sender" => ~Dante /\ ~Counting
  /\ pc = "announcer" => FromTone \/ Listening
  /\ pc = "source" => ~FromTone
  /\ pc \notin {"close", "exit"} => rc = 0
  /\ pc = "close" /\ rc # 0 => ~FromTone
  /\ us => pc \in {"announcer", "run", "close"}

(* The sender of the one stream is open from OpenSender to Teardown.       *)
SenderHeld ==
  /\ pc \in {"main", "sender", "flows"} => fd[Snd] = "unset"
  /\ pc \in {"source", "announcer", "run", "close"} =>
       fd[Snd] = IF Dante \/ Counting THEN "unset" ELSE "own"

(* The source is open from OpenSource on, unless it could not be opened or *)
(* there is none.                                                          *)
SourceHeld ==
  /\ pc \in {"main", "sender", "flows", "source"} => fd[Src] = "unset"
  /\ pc \in {"announcer", "run", "close"} =>
       fd[Src] = IF FromTone THEN "unset" ELSE IF rc = 0 THEN "own" ELSE "none"

(* The announcer is active exactly while its socket is open.               *)
AnnouncerHeld ==
  /\ active <=> fd[Sap] = "own"
  /\ active => pc \in {"source", "run", "close"}
  /\ active /\ pc = "source" => Dante

(* The senders of the flows below opened are open, the others untouched;   *)
(* past OpenSap all of them are, or none when packets are only counted.    *)
FlowsHeld ==
  /\ ~Dante \/ count_only => opened = 0
  /\ opened > 0 => opened <= o.n_flows /\ pc # "main"
  /\ pc # "exit" => \A i \in Flows : fd[Flow(i)] = IF i < opened THEN "own" ELSE "unset"
  /\ pc \in {"source", "run", "close"} /\ Dante /\ ~count_only => opened = o.n_flows

(* Where the program has announced and sent to so far.                     *)
Addresses ==
  LET to == {Address(s) : s \in Senders}
  IN  /\ sent \subseteq to
      /\ unfit # {} => Dante
      /\ active => ~Counting /\ told = to \ {ipv4_add_octet(i) : i \in unfit}
      /\ ~active /\ pc # "exit" => told = {}
      /\ Counting => told = {}

(* What is left at the end.                                                *)
ExitClean ==
  pc = "exit" =>
    /\ \A s \in Slots : fd[s] # "own"
    /\ rc = 0 /\ ~o.do_sdp => /\ \A s \in Senders : fd[s] = "closed"
                              /\ FromTone \/ fd[Src] = "closed"

AInv ==
  /\ ProgramType /\ PathTaken
  /\ SenderHeld /\ SourceHeld /\ AnnouncerHeld /\ FlowsHeld
  /\ Addresses /\ ExitClean

-----------------------------------------------------------------------------
(* The variables of descriptors are different variables.                   *)
LEMMA SlotsDiffer ==
  /\ Snd # Sap /\ Snd # Src /\ Sap # Src
  /\ \A i : Flow(i) # Snd /\ Flow(i) # Sap /\ Flow(i) # Src /\ Flow(i)[2] = i
  /\ \A i, j : Flow(i) = Flow(j) => i = j
  BY DEF Snd, Sap, Src, Flow

(* The command line never changes, nor does what is derived from it.       *)
LEMMA SameModes ==
  ASSUME o' = o
  PROVE  /\ Dante' <=> Dante
         /\ Counting' <=> Counting
         /\ FromTone' <=> FromTone
         /\ Listening' <=> Listening
         /\ Refused' <=> Refused
         /\ count_only' <=> count_only
         /\ Flows' = Flows
         /\ Slots' = Slots
         /\ Senders' = Senders
         /\ {Address(s) : s \in Senders}' = {Address(s) : s \in Senders}
         /\ \A i : ipv4_add_octet(i)' = ipv4_add_octet(i)
  BY DEF Dante, Counting, FromTone, Listening, Refused, count_only, Flows, Slots,
         Senders, Address, ipv4_add_octet

(* How the modes exclude each other.                                       *)
LEMMA Modes ==
  /\ FromTone => ~Dante /\ ~Counting
  /\ Listening => ~Dante /\ ~Counting /\ ~FromTone
  /\ Dante => (Counting <=> count_only)
  /\ Dante => Senders = {Flow(i) : i \in IF count_only THEN {} ELSE Flows}
  /\ ~Dante /\ Counting => Senders = {}
  /\ ~Dante /\ ~Counting => Senders = {Snd}
  BY DEF FromTone, Listening, Dante, Counting, count_only, Senders

(* The flows are numbered from zero.                                       *)
LEMMA FlowNumbers ==
  ASSUME ProgramType
  PROVE  /\ o.n_flows \in Int
         /\ o.n_flows > 0 => Flows = 0 .. o.n_flows - 1
         /\ ~(o.n_flows > 0) => Flows = {}
         /\ \A i : i \in Flows <=> i \in Nat /\ i < o.n_flows
<1>1. o.n_flows \in NumFlows
  BY DEF ProgramType, Options
<1>2. o.n_flows \in Int
  <2>1. o.n_flows \in Nat \cup {-1}
    BY <1>1, ReacAes67Assumption, Zenon
  <2> QED
    BY <2>1
<1> QED
  BY <1>2 DEF Flows

(* The senders of the flows opened so far.                                 *)
LEMMA OpenFlowsAre ==
  ASSUME ProgramType, FlowsHeld
  PROVE  OpenFlows = {Flow(i) : i \in {j \in Flows : j < opened}}
<1>1. opened \in Nat
  BY DEF ProgramType
<1>2. \A j : j \in 0 .. opened - 1 <=> j \in Flows /\ j < opened
  BY <1>1, FlowNumbers DEF FlowsHeld
<1> QED
  BY <1>2 DEF OpenFlows

(* The program starts with nothing open.                                   *)
LEMMA InitAInv == Init => AInv
<1> SUFFICES ASSUME Init PROVE AInv
  OBVIOUS
<1>1. fd = [s \in Slots |-> "unset"]
  BY DEF Init, Slots
<1>2. ProgramType
  BY <1>1 DEF Init, ProgramType, Options
<1>3. PathTaken /\ ExitClean
  BY DEF Init, PathTaken, ExitClean
<1>4. SenderHeld /\ SourceHeld /\ AnnouncerHeld
  BY <1>1 DEF Init, Slots, SenderHeld, SourceHeld, AnnouncerHeld
<1>5. FlowsHeld
  BY <1>1, FlowNumbers, <1>2 DEF Init, Slots, FlowsHeld
<1>6. Addresses
  BY DEF Init, Addresses
<1> QED
  BY <1>2, <1>3, <1>4, <1>5, <1>6 DEF AInv

(* main chooses a mode that fits the command line, or ends the program.    *)
LEMMA MainStep == ASSUME AInv, main PROVE AInv'
<1>1. /\ o' = o /\ fd' = fd /\ active' = active /\ us' = us /\ opened' = opened
      /\ g_stop' = g_stop /\ told' = told /\ sent' = sent /\ unfit' = unfit /\ wild' = wild
      /\ pc = "main"
  BY DEF main
<1>2. \/ pc' = "exit" /\ rc' = 2
      \/ pc' = "exit" /\ rc' \in {0, 1} /\ o.do_sdp
      \/ pc' = "flows" /\ Dante /\ rc' = rc /\ ~o.do_sdp /\ ~Refused
      \/ pc' = "source" /\ ~Dante /\ Counting /\ rc' = rc /\ ~o.do_sdp /\ ~Refused
      \/ pc' = "sender" /\ ~Dante /\ ~Counting /\ rc' = rc /\ ~o.do_sdp /\ ~Refused
  BY DEF main, PrintSdp, Exit, Goto
<1>3. ProgramType'
  BY <1>1, <1>2, SameModes DEF AInv, ProgramType
<1>4. PathTaken'
  BY <1>1, <1>2, SameModes, Modes DEF AInv, PathTaken
<1>5. SenderHeld' /\ SourceHeld'
  BY <1>1, <1>2, SameModes, Modes DEF AInv, SenderHeld, SourceHeld
<1>6. AnnouncerHeld'
  BY <1>1, <1>2 DEF AInv, AnnouncerHeld
<1>7. FlowsHeld'
  BY <1>1, <1>2, SameModes DEF AInv, FlowsHeld
<1>8. Addresses'
  BY <1>1, <1>2, SameModes DEF AInv, Addresses
<1>9. ExitClean'
  <2>1. \A s \in Slots : fd[s] # "own"
    <3>1. \A i \in Flows : fd[Flow(i)] # "own"
      BY <1>1, FlowNumbers DEF AInv, FlowsHeld, ProgramType
    <3> QED
      BY <1>1, <3>1 DEF AInv, SenderHeld, SourceHeld, AnnouncerHeld, Slots
  <2> QED
    BY <1>1, <1>2, <2>1, SameModes DEF ExitClean
<1> QED
  BY <1>3, <1>4, <1>5, <1>6, <1>7, <1>8, <1>9 DEF AInv

(* The sender of the one stream is opened, or the program ends.            *)
LEMMA SenderStep == ASSUME AInv, OpenSender PROVE AInv'
<1>1. /\ o' = o /\ active' = active /\ us' = us /\ opened' = opened
      /\ g_stop' = g_stop /\ told' = told /\ sent' = sent /\ unfit' = unfit /\ wild' = wild
      /\ pc = "sender" /\ ~o.do_sdp /\ ~Refused /\ ~Dante /\ ~Counting /\ rc = 0
  BY DEF OpenSender, AInv, PathTaken
<1>2. \/ fd' = [fd EXCEPT ![Snd] = "none"] /\ pc' = "exit" /\ rc' = 1
      \/ fd' = [fd EXCEPT ![Snd] = "closed"] /\ pc' = "exit" /\ rc' = 2
      \/ fd' = [fd EXCEPT ![Snd] = "own"] /\ pc' = "announcer" /\ FromTone /\ rc' = rc
      \/ fd' = [fd EXCEPT ![Snd] = "own"] /\ pc' = "source" /\ ~FromTone /\ rc' = rc
  BY DEF OpenSender, Open, Exit, Goto
<1>3. PICK st \in {"own", "none", "closed"} :
        /\ fd' = [fd EXCEPT ![Snd] = st]
        /\ \/ pc' = "exit" /\ rc' # 0 /\ rc' \in Nat /\ st # "own"
           \/ pc' = "announcer" /\ FromTone /\ rc' = rc /\ st = "own"
           \/ pc' = "source" /\ ~FromTone /\ rc' = rc /\ st = "own"
  <2>1. CASE fd' = [fd EXCEPT ![Snd] = "none"] /\ pc' = "exit" /\ rc' = 1
    BY <2>1
  <2>2. CASE fd' = [fd EXCEPT ![Snd] = "closed"] /\ pc' = "exit" /\ rc' = 2
    BY <2>2
  <2>3. CASE fd' = [fd EXCEPT ![Snd] = "own"] /\ rc' = rc
    BY <1>2, <2>3
  <2> QED
    BY <1>2, <2>1, <2>2, <2>3
<1>4. /\ fd \in [Slots -> {"unset", "zero", "own", "none", "closed"}]
      /\ Snd \in Slots /\ Sap \in Slots /\ Src \in Slots /\ \A i \in Flows : Flow(i) \in Slots
  BY DEF AInv, ProgramType, Slots
<1>5. /\ fd'[Snd] = st /\ fd'[Sap] = fd[Sap] /\ fd'[Src] = fd[Src]
      /\ \A i \in Flows : fd'[Flow(i)] = fd[Flow(i)]
  BY <1>3, <1>4, SlotsDiffer
<1>6. ProgramType'
  BY <1>1, <1>3, <1>4, SameModes DEF AInv, ProgramType
<1>7. PathTaken'
  BY <1>1, <1>3, SameModes, Modes DEF AInv, PathTaken
<1>8. SenderHeld' /\ SourceHeld'
  BY <1>1, <1>3, <1>5, SameModes, Modes DEF AInv, SenderHeld, SourceHeld
<1>9. AnnouncerHeld'
  BY <1>1, <1>3, <1>5 DEF AInv, AnnouncerHeld
<1>10. FlowsHeld'
  BY <1>1, <1>3, <1>5, SameModes DEF AInv, FlowsHeld
<1>11. Addresses'
  BY <1>1, <1>3, SameModes DEF AInv, Addresses
<1>12. ExitClean'
  <2>1. opened = 0
    BY <1>1 DEF AInv, FlowsHeld
  <2>2. \A i \in Flows : fd[Flow(i)] # "own"
    BY <1>1, <2>1, FlowNumbers DEF AInv, FlowsHeld
  <2>3. pc' = "exit" => \A s \in Slots : fd'[s] # "own"
    BY <1>1, <1>3, <1>5, <2>2 DEF AInv, SourceHeld, AnnouncerHeld, Slots
  <2> QED
    BY <1>1, <1>3, <2>3, SameModes DEF ExitClean
<1> QED
  BY <1>6, <1>7, <1>8, <1>9, <1>10, <1>11, <1>12 DEF AInv

(* The announcer starts, and is active exactly if it has its socket.       *)
LEMMA AnnouncerStep == ASSUME AInv, StartAnnouncer PROVE AInv'
<1>1. /\ o' = o /\ us' = us /\ opened' = opened /\ g_stop' = g_stop
      /\ sent' = sent /\ unfit' = unfit /\ wild' = wild /\ rc' = rc
      /\ pc = "announcer" /\ pc' = "run" /\ ~o.do_sdp /\ ~Refused
      /\ ~Dante /\ ~Counting /\ rc = 0 /\ ~active /\ told = {} /\ unfit = {}
  BY Modes DEF StartAnnouncer, Goto, AInv, PathTaken, AnnouncerHeld, Addresses
<1>2. PICK st \in {"zero", "none", "own"} :
        /\ fd' = [fd EXCEPT ![Sap] = st]
        /\ active' <=> st = "own"
        /\ active' \in BOOLEAN
        /\ told' = IF active' THEN {Udp} ELSE {}
  <2>1. CASE fd' = [fd EXCEPT ![Sap] = "zero"] /\ active' = active /\ told' = told
    BY <1>1, <2>1 DEF AInv, ProgramType
  <2>2. CASE fd' = [fd EXCEPT ![Sap] = "none"] /\ active' = active /\ told' = told
    BY <1>1, <2>2 DEF AInv, ProgramType
  <2>3. CASE fd' = [fd EXCEPT ![Sap] = "own"] /\ active' = TRUE /\ told' = {Udp}
    BY <2>3
  <2> QED
    BY <2>1, <2>2, <2>3 DEF StartAnnouncer, Open
<1>3. /\ fd \in [Slots -> {"unset", "zero", "own", "none", "closed"}]
      /\ Snd \in Slots /\ Sap \in Slots /\ Src \in Slots /\ \A i \in Flows : Flow(i) \in Slots
  BY DEF AInv, ProgramType, Slots
<1>4. /\ fd'[Sap] = st /\ fd'[Snd] = fd[Snd] /\ fd'[Src] = fd[Src]
      /\ \A i \in Flows : fd'[Flow(i)] = fd[Flow(i)]
  BY <1>2, <1>3, SlotsDiffer
<1>5. ProgramType'
  BY <1>1, <1>2, <1>3, SameModes DEF AInv, ProgramType
<1>6. PathTaken'
  BY <1>1, SameModes DEF AInv, PathTaken
<1>7. SenderHeld' /\ SourceHeld' /\ AnnouncerHeld'
  BY <1>1, <1>2, <1>4, SameModes DEF AInv, SenderHeld, SourceHeld, AnnouncerHeld
<1>8. FlowsHeld'
  BY <1>1, <1>4, SameModes DEF AInv, FlowsHeld
<1>9. Addresses'
  <2>1. {Address(s) : s \in Senders} = {Udp}
    BY <1>1, Modes DEF Address
  <2>2. {ipv4_add_octet(i) : i \in unfit}' = {}
    BY <1>1
  <2> QED
    BY <1>1, <1>2, <2>1, <2>2, SameModes DEF AInv, Addresses
<1>10. ExitClean'
  BY <1>1 DEF ExitClean
<1> QED
  BY <1>5, <1>6, <1>7, <1>8, <1>9, <1>10 DEF AInv

(* The sender of one more flow is opened, or those open are closed.        *)
LEMMA FlowStep == ASSUME AInv, OpenFlow PROVE AInv'
<1>1. /\ o' = o /\ active' = active /\ us' = us /\ g_stop' = g_stop
      /\ told' = told /\ sent' = sent /\ unfit' = unfit
      /\ pc = "flows" /\ Dante /\ ~count_only /\ ~Counting /\ opened < o.n_flows /\ ~o.do_sdp
      /\ ~Refused /\ rc = 0 /\ ~active /\ ~us
  BY Modes DEF OpenFlow, AInv, PathTaken, AnnouncerHeld
<1>2. /\ fd \in [Slots -> {"unset", "zero", "own", "none", "closed"}]
      /\ Snd \in Slots /\ Sap \in Slots /\ Src \in Slots /\ \A i \in Flows : Flow(i) \in Slots
  BY DEF AInv, ProgramType, Slots
<1>3. opened \in Nat /\ opened \in Flows /\ o.n_flows \in Int
  BY <1>1, FlowNumbers DEF AInv, ProgramType
<1>4. CASE /\ fd' = Open(Flow(opened), TRUE)
           /\ opened' = opened + 1
           /\ UNCHANGED <<pc, rc, wild>>
  <2>1. fd' = [fd EXCEPT ![Flow(opened)] = "own"] /\ Flow(opened) \in Slots
    BY <1>2, <1>3, <1>4 DEF Open
  <2>2. /\ fd'[Snd] = fd[Snd] /\ fd'[Sap] = fd[Sap] /\ fd'[Src] = fd[Src]
        /\ fd'[Flow(opened)] = "own"
        /\ \A i \in Flows \ {opened} : fd'[Flow(i)] = fd[Flow(i)]
    BY <1>2, <1>3, <2>1, SlotsDiffer
  <2>3. ProgramType'
    <3>1. fd' \in [Slots -> {"unset", "zero", "own", "none", "closed"}]
      BY <1>2, <2>1
    <3>2. opened' \in Nat
      BY <1>3, <1>4
    <3> QED
      BY <1>1, <1>4, <3>1, <3>2, SameModes DEF AInv, ProgramType
  <2>4. PathTaken'
    BY <1>1, <1>4, SameModes DEF AInv, PathTaken
  <2>5. SenderHeld' /\ SourceHeld' /\ AnnouncerHeld'
    BY <1>1, <1>4, <2>2, SameModes DEF AInv, SenderHeld, SourceHeld, AnnouncerHeld
  <2>6. FlowsHeld'
    <3>1. \A i \in Flows : fd'[Flow(i)] = IF i < opened + 1 THEN "own" ELSE "unset"
      <4>1. \A i \in Flows : fd[Flow(i)] = IF i < opened THEN "own" ELSE "unset"
        BY <1>1 DEF AInv, FlowsHeld
      <4>2. \A i \in Flows : i \in Nat
        BY FlowNumbers DEF AInv
      <4>3. \A i \in Flows : i # opened => (i < opened + 1 <=> i < opened)
        BY <1>3, <4>2
      <4>4. opened < opened + 1
        BY <1>3
      <4> QED
        BY <2>2, <4>1, <4>3, <4>4
    <3>2. opened' <= o.n_flows
      BY <1>1, <1>3, <1>4
    <3> QED
      BY <1>1, <1>4, <3>1, <3>2, SameModes DEF AInv, FlowsHeld
  <2>7. Addresses' /\ ExitClean'
    BY <1>1, <1>4, SameModes DEF AInv, Addresses, ExitClean
  <2> QED
    BY <2>3, <2>4, <2>5, <2>6, <2>7 DEF AInv
<1>5. CASE Close(OpenFlows) /\ Exit(1) /\ UNCHANGED opened
  <2>1. OpenFlows = {Flow(i) : i \in {j \in Flows : j < opened}}
    BY OpenFlowsAre DEF AInv
  <2>2. /\ fd' = [s \in Slots |-> IF s \in OpenFlows THEN "closed" ELSE fd[s]]
        /\ wild' <=> (wild \/ \E s \in OpenFlows : fd[s] \in Wild)
        /\ pc' = "exit" /\ rc' = 1 /\ opened' = opened
    BY <1>2, <1>5 DEF Close, Exit
  <2>3. ~wild'
    BY <2>1, <2>2, <1>1 DEF AInv, ProgramType, FlowsHeld, Wild
  <2>4. ProgramType'
    BY <1>1, <1>2, <2>2, <2>3, SameModes DEF AInv, ProgramType
  <2>5. PathTaken' /\ SenderHeld' /\ SourceHeld'
    BY <1>1, <2>2, SameModes DEF AInv, PathTaken, SenderHeld, SourceHeld
  <2>6. \A s \in Slots : fd'[s] # "own"
    <3>1. fd[Snd] # "own" /\ fd[Sap] # "own" /\ fd[Src] # "own"
      BY <1>1 DEF AInv, SenderHeld, SourceHeld, AnnouncerHeld
    <3>2. \A i \in Flows : fd'[Flow(i)] # "own"
      BY <1>1, <1>2, <2>1, <2>2 DEF AInv, FlowsHeld
    <3> QED
      BY <1>2, <2>2, <3>1, <3>2 DEF Slots
  <2>7. AnnouncerHeld'
    BY <1>1, <1>2, <2>6 DEF AnnouncerHeld
  <2>8. FlowsHeld' /\ Addresses' /\ ExitClean'
    BY <1>1, <2>2, <2>6, SameModes DEF AInv, FlowsHeld, Addresses, ExitClean
  <2> QED
    BY <2>4, <2>5, <2>7, <2>8 DEF AInv
<1> QED
  BY <1>4, <1>5 DEF OpenFlow

(* The flows are announced at the addresses they are sent to.              *)
LEMMA SapStep == ASSUME AInv, OpenSap PROVE AInv'
<1>1. /\ o' = o /\ us' = us /\ opened' = opened /\ g_stop' = g_stop
      /\ sent' = sent /\ wild' = wild /\ rc' = rc
      /\ pc = "flows" /\ pc' = "source" /\ Dante /\ ~o.do_sdp /\ ~FromTone
      /\ ~Refused /\ rc = 0 /\ ~active /\ ~us /\ told = {}
      /\ count_only \/ opened = o.n_flows
  BY Modes DEF OpenSap, Goto, AInv, PathTaken, AnnouncerHeld, Addresses
<1>2. /\ fd \in [Slots -> {"unset", "zero", "own", "none", "closed"}]
      /\ Snd \in Slots /\ Sap \in Slots /\ Src \in Slots /\ \A i \in Flows : Flow(i) \in Slots
  BY DEF AInv, ProgramType, Slots
<1>3. PathTaken' /\ ExitClean'
  BY <1>1, SameModes DEF AInv, PathTaken, ExitClean
<1>4. CASE UNCHANGED <<fd, active, told, unfit>>
  BY <1>1, <1>3, <1>4, SameModes DEF AInv, ProgramType, SenderHeld, SourceHeld,
     AnnouncerHeld, FlowsHeld, Addresses
<1>5. ASSUME NEW st \in {"none", "own"}, fd' = [fd EXCEPT ![Sap] = st],
             ~count_only, active' \in BOOLEAN, active' <=> st = "own",
             unfit' \subseteq Flows,
             told' = IF active' THEN {SapAddress(i) : i \in Flows \ unfit'} ELSE {}
      PROVE  AInv'
  <2>1. /\ fd'[Sap] = st /\ fd'[Snd] = fd[Snd] /\ fd'[Src] = fd[Src]
        /\ \A i \in Flows : fd'[Flow(i)] = fd[Flow(i)]
    BY <1>2, <1>5, SlotsDiffer
  <2>2. ProgramType'
    BY <1>1, <1>2, <1>5, SameModes DEF AInv, ProgramType
  <2>3. SenderHeld' /\ SourceHeld' /\ AnnouncerHeld'
    BY <1>1, <1>5, <2>1, SameModes DEF AInv, SenderHeld, SourceHeld, AnnouncerHeld
  <2>4. FlowsHeld'
    BY <1>1, <2>1, SameModes DEF AInv, FlowsHeld
  <2>5. Addresses'
    <3>1. {Address(s) : s \in Senders} = {ipv4_add_octet(i) : i \in Flows}
      BY <1>1, <1>5, Modes, SlotsDiffer DEF Address
    <3>2. \A i, j \in Flows : ipv4_add_octet(i) = ipv4_add_octet(j) => i = j
      <4>1. o.base \in BaseOctets
        BY DEF AInv, ProgramType, Options
      <4>2. o.base \in Nat
        BY <4>1, ReacAes67Assumption
      <4>3. \A i \in Flows : i \in Nat
        BY FlowNumbers DEF AInv
      <4> QED
        BY <4>2, <4>3 DEF ipv4_add_octet
    <3>3. {SapAddress(i) : i \in Flows \ unfit'} =
            {ipv4_add_octet(i) : i \in Flows} \ {ipv4_add_octet(i) : i \in unfit'}
      BY <1>5, <3>2 DEF SapAddress
    <3>4. {ipv4_add_octet(i) : i \in unfit}' = {ipv4_add_octet(i) : i \in unfit'}
      BY <1>1 DEF ipv4_add_octet
    <3>5. ~Counting
      BY <1>1, <1>5, Modes
    <3> QED
      BY <1>1, <1>5, <3>1, <3>3, <3>4, <3>5, SameModes DEF AInv, Addresses
  <2> QED
    BY <1>3, <2>2, <2>3, <2>4, <2>5 DEF AInv
<1>6. CASE ~count_only /\ fd' = Open(Sap, FALSE) /\ UNCHANGED <<active, told, unfit>>
  BY <1>1, <1>5, <1>6 DEF Open, AInv, ProgramType
<1>7. CASE /\ ~count_only /\ fd' = Open(Sap, TRUE) /\ active' = TRUE
           /\ unfit' \in SUBSET Flows
           /\ told' = {SapAddress(i) : i \in Flows \ unfit'}
  BY <1>5, <1>7 DEF Open
<1> QED
  BY <1>4, <1>6, <1>7 DEF OpenSap

(* The source is opened, or what is open is closed next.                   *)
LEMMA SourceStep == ASSUME AInv, OpenSource PROVE AInv'
<1>1. /\ o' = o /\ active' = active /\ opened' = opened /\ g_stop' = g_stop
      /\ told' = told /\ sent' = sent /\ unfit' = unfit /\ wild' = wild
      /\ pc = "source" /\ ~o.do_sdp /\ ~Refused /\ rc = 0 /\ ~FromTone
  BY DEF OpenSource, AInv, PathTaken
<1>2. /\ fd \in [Slots -> {"unset", "zero", "own", "none", "closed"}]
      /\ Snd \in Slots /\ Sap \in Slots /\ Src \in Slots /\ \A i \in Flows : Flow(i) \in Slots
  BY DEF AInv, ProgramType, Slots
<1>3. PICK ok \in BOOLEAN :
        /\ fd' = Open(Src, ok)
        /\ pc' = IF ~ok THEN "close" ELSE IF Listening THEN "announcer" ELSE "run"
        /\ rc' = IF ok THEN 0 ELSE 1
        /\ us' \in IF ok /\ Listening THEN ubus_stats_start ELSE {FALSE}
  BY DEF OpenSource
<1>4. /\ fd' \in [Slots -> {"unset", "zero", "own", "none", "closed"}]
      /\ fd'[Src] = (IF ok THEN "own" ELSE "none")
      /\ fd'[Snd] = fd[Snd] /\ fd'[Sap] = fd[Sap]
      /\ \A i \in Flows : fd'[Flow(i)] = fd[Flow(i)]
  BY <1>2, <1>3, SlotsDiffer DEF Open
<1>5. us' \in BOOLEAN /\ (us' => Listening /\ ok)
  BY <1>3 DEF ubus_stats_start
<1>6. ProgramType'
  BY <1>1, <1>3, <1>4, <1>5, SameModes DEF AInv, ProgramType
<1>7. PathTaken'
  BY <1>1, <1>3, <1>5, SameModes, Modes DEF AInv, PathTaken
<1>8. Listening => ~active
  BY <1>1, Modes DEF AInv, AnnouncerHeld
<1>9. SenderHeld'
  BY <1>1, <1>3, <1>4, SameModes DEF AInv, SenderHeld
<1>10. SourceHeld'
  BY <1>1, <1>3, <1>4, SameModes DEF AInv, SourceHeld
<1>11. AnnouncerHeld'
  BY <1>1, <1>3, <1>4, <1>8 DEF AInv, AnnouncerHeld
<1>12. FlowsHeld'
  BY <1>1, <1>3, <1>4, SameModes DEF AInv, FlowsHeld
<1>13. Addresses' /\ ExitClean'
  BY <1>1, <1>3, SameModes DEF AInv, Addresses, ExitClean
<1> QED
  BY <1>6, <1>7, <1>9, <1>10, <1>11, <1>12, <1>13 DEF AInv

(* While the loop runs, every sender it uses is open.                      *)
LEMMA SendersOpen ==
  ASSUME AInv, pc \in {"run", "close"}
  PROVE  \A s \in Senders : s \in Slots /\ fd[s] = "own"
<1>1. CASE Dante /\ ~count_only
  <2>1. opened = o.n_flows
    BY <1>1 DEF AInv, FlowsHeld
  <2>2. \A i \in Flows : fd[Flow(i)] = "own" /\ Flow(i) \in Slots
    BY <2>1, FlowNumbers DEF AInv, FlowsHeld, Slots
  <2> QED
    BY <1>1, <2>2, Modes
<1>2. CASE Dante /\ count_only
  BY <1>2, Modes
<1>3. CASE ~Dante
  BY <1>3, Modes DEF AInv, SenderHeld, Slots
<1> QED
  BY <1>1, <1>2, <1>3

(* A packet goes to the senders of the mode and nowhere else.              *)
LEMMA SendStep == ASSUME AInv, Send PROVE AInv'
<1>1. /\ UNCHANGED <<o, pc, fd, active, us, opened, g_stop, rc, told, unfit>>
      /\ pc = "run"
      /\ sent' = sent \cup {Address(s) : s \in {t \in Senders : fd[t] = "own"}}
      /\ wild' <=> (wild \/ \E s \in Senders : fd[s] = "unset")
  BY DEF Send
<1>2. ~wild'
  BY <1>1, SendersOpen DEF AInv, ProgramType
<1>3. ProgramType' /\ PathTaken'
  BY <1>1, <1>2, SameModes DEF AInv, ProgramType, PathTaken
<1>4. SenderHeld' /\ SourceHeld' /\ AnnouncerHeld' /\ FlowsHeld'
  BY <1>1, SameModes DEF AInv, SenderHeld, SourceHeld, AnnouncerHeld, FlowsHeld
<1>5. Addresses'
  BY <1>1, SameModes DEF AInv, Addresses
<1>6. ExitClean'
  BY <1>1 DEF ExitClean
<1> QED
  BY <1>3, <1>4, <1>5, <1>6 DEF AInv

(* A signal and the end of the loop open and close nothing.                *)
LEMMA StopStep == ASSUME AInv, on_sigint \/ Leave PROVE AInv'
<1>1. /\ UNCHANGED <<o, fd, active, us, opened, rc, told, sent, unfit, wild>>
      /\ pc = "run" /\ pc' \in {"run", "close"} /\ g_stop' \in BOOLEAN
  BY DEF on_sigint, Leave, Goto, AInv, ProgramType
<1>2. ProgramType' /\ PathTaken'
  BY <1>1, SameModes DEF AInv, ProgramType, PathTaken
<1>3. SenderHeld' /\ SourceHeld' /\ AnnouncerHeld' /\ FlowsHeld'
  BY <1>1, SameModes DEF AInv, SenderHeld, SourceHeld, AnnouncerHeld, FlowsHeld
<1>4. Addresses' /\ ExitClean'
  BY <1>1, SameModes DEF AInv, Addresses, ExitClean
<1> QED
  BY <1>2, <1>3, <1>4 DEF AInv

(* What Teardown closes is exactly what is open.                           *)
LEMMA ClosesWhatIsOpen ==
  ASSUME AInv, pc = "close"
  PROVE  Closing = {s \in Slots : fd[s] = "own"}
<1>1. OpenFlows = {Flow(i) : i \in {j \in Flows : j < opened}}
  BY OpenFlowsAre DEF AInv
<1>2. \A i \in Flows : fd[Flow(i)] = "own" <=> i < opened
  BY DEF AInv, FlowsHeld
<1>3. (fd[Src] = "own") <=> (rc = 0 /\ ~FromTone)
  BY DEF AInv, SourceHeld
<1>4. (fd[Sap] = "own") <=> active
  BY DEF AInv, AnnouncerHeld
<1>5. (fd[Snd] = "own") <=> (~Dante /\ ~Counting)
  BY DEF AInv, SenderHeld
<1>6. ~Dante => \A i \in Flows : ~(i < opened)
  BY FlowNumbers DEF AInv, FlowsHeld
<1>7. Closing = {s \in {Src} : fd[s] = "own"} \cup {s \in {Sap} : fd[s] = "own"}
                \cup {s \in {Snd} : fd[s] = "own"}
                \cup {Flow(i) : i \in {j \in Flows : fd[Flow(j)] = "own"}}
  <2>1. CASE Dante
    BY <1>1, <1>2, <1>3, <1>4, <1>5, <2>1 DEF Closing, sap_announcer_stop
  <2>2. CASE ~Dante
    BY <1>2, <1>3, <1>4, <1>5, <1>6, <2>2 DEF Closing, sap_announcer_stop
  <2> QED
    BY <2>1, <2>2
<1> QED
  BY <1>7 DEF Slots

(* Teardown leaves nothing open and closes nothing that was not.           *)
LEMMA TeardownStep == ASSUME AInv, Teardown PROVE AInv'
<1>1. /\ o' = o /\ opened' = opened /\ g_stop' = g_stop
      /\ told' = told /\ sent' = sent /\ unfit' = unfit
      /\ pc = "close" /\ pc' = "exit" /\ rc' = rc /\ ~us' /\ ~active'
      /\ us' \in BOOLEAN /\ active' \in BOOLEAN
  BY DEF Teardown, Exit
<1>2. fd \in [Slots -> {"unset", "zero", "own", "none", "closed"}] /\ Sap \in Slots /\ Src \in Slots
  BY DEF AInv, ProgramType, Slots
<1>3. Closing = {s \in Slots : fd[s] = "own"}
  BY <1>1, ClosesWhatIsOpen
<1>4. /\ fd' = [s \in Slots |-> IF fd[s] = "own" THEN "closed" ELSE fd[s]]
      /\ wild' <=> (wild \/ \E s \in Closing : fd[s] \in Wild)
  BY <1>2, <1>3 DEF Teardown, Close
<1>5. ~wild'
  BY <1>3, <1>4 DEF AInv, ProgramType, Wild
<1>6. fd' \in [Slots -> {"unset", "zero", "own", "none", "closed"}]
  BY <1>2, <1>4
<1>7. ProgramType' /\ PathTaken'
  BY <1>1, <1>5, <1>6, SameModes DEF AInv, ProgramType, PathTaken
<1>8. SenderHeld' /\ SourceHeld'
  BY <1>1 DEF SenderHeld, SourceHeld
<1>9. AnnouncerHeld'
  BY <1>1, <1>2, <1>4 DEF AnnouncerHeld
<1>10. FlowsHeld' /\ Addresses'
  BY <1>1, SameModes DEF AInv, FlowsHeld, Addresses
<1>11. ExitClean'
  <2>1. \A s \in Slots : fd'[s] # "own"
    BY <1>4
  <2>2. \A s \in Senders : fd'[s] = "closed"
    BY <1>1, <1>4, SendersOpen
  <2>3. rc = 0 => FromTone \/ fd'[Src] = "closed"
    BY <1>1, <1>2, <1>4 DEF AInv, SourceHeld
  <2> QED
    BY <1>1, <2>1, <2>2, <2>3, SameModes DEF ExitClean
<1> QED
  BY <1>7, <1>8, <1>9, <1>10, <1>11 DEF AInv

(* AInv is inductive: every step of the program keeps it.                  *)
LEMMA NextAInv == AInv /\ [Next]_vars => AInv'
<1> SUFFICES ASSUME AInv, [Next]_vars PROVE AInv'
  OBVIOUS
<1>1. CASE UNCHANGED vars
  <2>1. UNCHANGED <<o, pc, fd, active, us, opened, g_stop, rc, told, sent, unfit, wild>>
    BY <1>1 DEF vars
  <2>2. ProgramType' /\ PathTaken'
    BY <2>1, SameModes DEF AInv, ProgramType, PathTaken
  <2>3. SenderHeld' /\ SourceHeld' /\ AnnouncerHeld' /\ FlowsHeld'
    BY <2>1, SameModes DEF AInv, SenderHeld, SourceHeld, AnnouncerHeld, FlowsHeld
  <2>4. Addresses' /\ ExitClean'
    BY <2>1, SameModes DEF AInv, Addresses, ExitClean
  <2> QED
    BY <2>2, <2>3, <2>4 DEF AInv
<1> QED
  BY <1>1, MainStep, SenderStep, AnnouncerStep, FlowStep, SapStep, SourceStep,
     SendStep, StopStep, TeardownStep DEF Next, Finished

(* AInv holds in every state of every run of the program.                  *)
THEOREM ProgramInvariant == Spec => []AInv
  BY InitAInv, NextAInv, PTL DEF Spec

-----------------------------------------------------------------------------
(* reac-aes67 closes every descriptor that main.c opened, whatever fails   *)
(* and however many flows dante_build_flows makes, and never one it does   *)
(* not own.                                                                *)
THEOREM SocketsAlwaysOwned == Spec => []SocketsOwned
<1>1. AInv => SocketsOwned
  <2> SUFFICES ASSUME AInv PROVE SocketsOwned
    OBVIOUS
  <2>1. DOMAIN fd = Slots /\ ~wild
    BY DEF AInv, ProgramType
  <2>2. pc = "exit" => ~us /\ ~active
    BY DEF AInv, PathTaken, AnnouncerHeld
  <2> QED
    BY <2>1, <2>2 DEF AInv, ExitClean, SocketsOwned
<1> QED
  BY <1>1, ProgramInvariant, PTL

(* What is announced by SAP is where main.c sends, for any base address    *)
(* and any number of flows, some of which may not be announced.            *)
THEOREM AlwaysAnnouncedWhereSent == Spec => []AnnouncedMatchesSent
<1>1. AInv => AnnouncedMatchesSent
  <2> SUFFICES ASSUME AInv PROVE AnnouncedMatchesSent
    OBVIOUS
  <2>1. Counting => Senders = {}
    BY Modes
  <2>2. Counting => told = {} /\ sent = {}
    BY <2>1 DEF AInv, Addresses
  <2> QED
    BY <2>2 DEF AInv, Addresses, AnnouncedMatchesSent
<1> QED
  BY <1>1, ProgramInvariant, PTL
=============================================================================
