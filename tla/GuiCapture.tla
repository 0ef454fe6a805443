------------------------------- MODULE GuiCapture -------------------------------
(***************************************************************************)
(* The GUI of src/gui.rs with the threads it starts: the capture thread    *)
(* (start_capture of src/capture/mod.rs) sends packets through a channel   *)
(* to the processor thread (src/session/processor.rs), which appends them  *)
(* to the list and the counts it shares with the GUI thread.               *)
(*                                                                         *)
(* A step of the GUI thread is a stretch of a frame that takes each lock   *)
(* at most once.  A frame handles at most one control and then draws the   *)
(* packet table.  Indices into the list start at 1.                        *)
(***************************************************************************)
EXTENDS Naturals, Sequences, FiniteSets

CONSTANTS
  Kinds,        \* kinds of packets
  ProtocolsOf,  \* ProtocolsOf[kind]: get_protocols of such a packet
  Filters,      \* PacketFilters, each as the set of kinds it matches
  Devices,
  NoFilter, NoDevice, NoIndex,   \* the Options that are None
  HistoryLen,   \* samples kept per protocol: 100
  MaxRuns,      \* bound: number of captures started
  MaxPackets    \* bound: number of packets captured

Runs == 1 .. MaxRuns
Protocols == UNION {ProtocolsOf[kind] : kind \in Kinds}

ASSUME FiltersAssumption == Filters \subseteq SUBSET Kinds
ASSUME NoneAssumption == NoFilter \notin Filters /\ NoDevice \notin Devices
                         /\ NoIndex \notin Nat
ASSUME BoundsAssumption ==
  HistoryLen \in Nat /\ MaxRuns \in Nat /\ MaxPackets \in Nat

VARIABLES
  gui,              \* where the GUI thread is: see GuiAt
  device,           \* selected_device_index
  is_capturing,
  is_running,       \* AtomicBool, shared
  packets,          \* Mutex<VecDeque<ParsedPacket>>, shared
  protocol_counts,  \* Mutex<HashMap<String, u64>>, shared
  active_filter,
  filtered_packets, \* indices into packets: ascending, so a set says it all
  selected,         \* selected_packet_index
  time_series,
  run,              \* the last capture started
  interface,        \* interface[g]: device that capture g opened
  capture,          \* capture[g], processor[g]: where the threads of capture g are
  processor,
  channel,          \* channel[g]: the packets between them
  held,             \* held[g]: the packet processor g took last, until it is listed
  captured,         \* number of packets captured
  switched          \* history: was the device changed under a capture or a filter?

guiVars == <<device, is_capturing, active_filter, filtered_packets, selected,
             time_series, run, interface, switched>>
threadVars == <<capture, processor, channel, held, captured>>
sharedVars == <<is_running, packets, protocol_counts>>
vars == <<gui, guiVars, threadVars, sharedVars>>

GuiAt == {"controls", "table", "clearing", "joinCapture", "joinProcessor",
          "panicked"}

\* Packets are numbered in the order they are captured.
Packet == [id : 1 .. MaxPackets, kind : Kinds, device : Devices]
Nothing == [id |-> 0]

\* A thread that has ended has dropped its end of the channel.
Ended == {"done", "panicked"}

Init ==
  /\ gui = "controls"
  /\ device = NoDevice
  /\ is_capturing = FALSE /\ is_running = FALSE
  /\ packets = << >>
  /\ protocol_counts = [p \in Protocols |-> 0]
  /\ active_filter = NoFilter /\ filtered_packets = {}
  /\ selected = NoIndex
  /\ time_series = [p \in Protocols |-> << >>]
  /\ run = 0
  /\ interface = [g \in Runs |-> NoDevice]
  /\ capture = [g \in Runs |-> "none"] /\ processor = [g \in Runs |-> "none"]
  /\ channel = [g \in Runs |-> << >>] /\ held = [g \in Runs |-> Nothing]
  /\ captured = 0
  /\ switched = FALSE

--------------------------------------------------------------------------------
(***************************************************************************)
(* The capture tab.  (Mutants, named <definition>_<slip>, stand before the *)
(* definition they alter.)                                                 *)
(***************************************************************************)

ChangeDevice_KeepsList(d) ==
  /\ gui = "controls"
  /\ d # device
  /\ device' = d
  /\ switched' = (switched \/ is_capturing \/ active_filter # NoFilter)
  /\ selected' = NoIndex
  /\ gui' = "table"
  /\ UNCHANGED <<is_capturing, is_running, packets, protocol_counts, active_filter,
                 filtered_packets, time_series, run, interface, threadVars>>

ChangeDevice_KeepsSelection(d) ==
  /\ gui = "controls"
  /\ d # device
  /\ device' = d
  /\ switched' = (switched \/ is_capturing \/ active_filter # NoFilter)
  /\ packets' = << >>
  /\ gui' = "table"
  /\ UNCHANGED <<is_capturing, is_running, protocol_counts, active_filter, selected,
                 filtered_packets, time_series, run, interface, threadVars>>

\* Choosing another device empties the list; a capture goes on on the old one,
\* and filtered_packets keeps its indices.
ChangeDevice(d) ==
  /\ gui = "controls"
  /\ d # device
  /\ device' = d
  /\ switched' = (switched \/ is_capturing \/ active_filter # NoFilter)
  /\ packets' = << >>
  /\ selected' = NoIndex
  /\ gui' = "table"
  /\ UNCHANGED <<is_capturing, is_running, protocol_counts, active_filter,
                 filtered_packets, time_series, run, interface, threadVars>>

StartCapture_NoDevice ==   \* the capture thread is not told its device
  /\ gui = "controls"
  /\ ~ is_capturing
  /\ device # NoDevice
  /\ run < MaxRuns
  /\ is_capturing' = TRUE /\ is_running' = TRUE
  /\ run' = run + 1
  /\ capture' = [capture EXCEPT ![run + 1] = "init"]
  /\ processor' = [processor EXCEPT ![run + 1] = "loop"]
  /\ gui' = "table"
  /\ UNCHANGED <<switched, device, packets, protocol_counts, active_filter, filtered_packets,
                 selected, time_series, interface, channel, held, captured>>

StartCapture ==
  /\ gui = "controls"
  /\ ~ is_capturing
  /\ device # NoDevice
  /\ run < MaxRuns
  /\ is_capturing' = TRUE /\ is_running' = TRUE
  /\ run' = run + 1
  /\ interface' = [interface EXCEPT ![run + 1] = device]
  /\ capture' = [capture EXCEPT ![run + 1] = "init"]
  /\ processor' = [processor EXCEPT ![run + 1] = "loop"]
  /\ gui' = "table"
  /\ UNCHANGED <<switched, device, packets, protocol_counts, active_filter, filtered_packets,
                 selected, time_series, channel, held, captured>>

\* Stop joins the two threads within the frame: the window is not drawn, and
\* takes no input, until both have ended.
StopCapture ==
  /\ gui = "controls"
  /\ is_capturing
  /\ is_capturing' = FALSE /\ is_running' = FALSE
  /\ gui' = "joinCapture"
  /\ UNCHANGED <<switched, device, packets, protocol_counts, active_filter, filtered_packets,
                 selected, time_series, run, interface, threadVars>>

JoinCapture_Detached ==   \* the handle is dropped, not joined
  /\ gui = "joinCapture"
  /\ gui' = "joinProcessor"
  /\ UNCHANGED <<guiVars, threadVars, sharedVars>>

JoinCapture ==
  /\ gui = "joinCapture"
  /\ capture[run] = "done"
  /\ gui' = "joinProcessor"
  /\ UNCHANGED <<guiVars, threadVars, sharedVars>>

JoinProcessor_Detached ==
  /\ gui = "joinProcessor"
  /\ gui' = "table"
  /\ UNCHANGED <<guiVars, threadVars, sharedVars>>

\* join returns the panic of the thread, and unwrap passes it on.
JoinProcessor ==
  /\ gui = "joinProcessor"
  /\ processor[run] \in Ended
  /\ gui' = IF processor[run] = "panicked" THEN "panicked" ELSE "table"
  /\ UNCHANGED <<guiVars, threadVars, sharedVars>>

\* The Clear button takes one lock after the other.
ClearPackets ==
  /\ gui = "controls"
  /\ packets' = << >>
  /\ gui' = "clearing"
  /\ UNCHANGED <<is_running, protocol_counts, guiVars, threadVars>>

ClearCounts_KeepsRows ==
  /\ gui = "clearing"
  /\ selected' = NoIndex
  /\ protocol_counts' = [p \in Protocols |-> 0]
  /\ time_series' = [p \in Protocols |-> << >>]
  /\ gui' = "table"
  /\ UNCHANGED <<switched, device, is_capturing, is_running, packets, active_filter, run,
                 filtered_packets, interface, threadVars>>

ClearCounts_KeepsSeries ==
  /\ gui = "clearing"
  /\ filtered_packets' = {}
  /\ selected' = NoIndex
  /\ protocol_counts' = [p \in Protocols |-> 0]
  /\ gui' = "table"
  /\ UNCHANGED <<switched, device, is_capturing, is_running, packets, active_filter, run,
                 time_series, interface, threadVars>>

ClearCounts ==
  /\ gui = "clearing"
  /\ filtered_packets' = {}
  /\ selected' = NoIndex
  /\ protocol_counts' = [p \in Protocols |-> 0]
  /\ time_series' = [p \in Protocols |-> << >>]
  /\ gui' = "table"
  /\ UNCHANGED <<switched, device, is_capturing, is_running, packets, active_filter, run,
                 interface, threadVars>>

\* apply_filter.
Matching(filter) == {i \in DOMAIN packets : packets[i].kind \in filter}

ApplyFilter(filter) ==
  /\ gui = "controls"
  /\ active_filter' = filter
  /\ filtered_packets' = Matching(filter)
  /\ selected' = NoIndex
  /\ gui' = "table"
  /\ UNCHANGED <<switched, device, is_capturing, time_series, run, interface,
                 threadVars, sharedVars>>

ClearFilter ==
  /\ gui = "controls"
  /\ active_filter' = NoFilter
  /\ filtered_packets' = {}
  /\ selected' = NoIndex
  /\ gui' = "table"
  /\ UNCHANGED <<switched, device, is_capturing, time_series, run, interface,
                 threadVars, sharedVars>>

\* A frame of the capture tab without a click on a control.
Repaint ==
  /\ gui = "controls"
  /\ gui' = "table"
  /\ UNCHANGED <<guiVars, threadVars, sharedVars>>

\* The rows of the table, as indices into packets.
Rows == IF active_filter # NoFilter THEN filtered_packets ELSE DOMAIN packets

\* The table only draws, and indexes, the rows scrolled into view.
DrawTable ==
  /\ gui = "table"
  /\ Rows = {} \/ Rows \cap DOMAIN packets # {}
  /\ gui' = "controls"
  /\ UNCHANGED <<guiVars, threadVars, sharedVars>>

\* A click on a row selects its packet, or deselects it.
ClickRow ==
  /\ gui = "table"
  /\ \E i \in Rows \cap DOMAIN packets :
       selected' = IF i = selected THEN NoIndex ELSE i
  /\ gui' = "controls"
  /\ UNCHANGED <<switched, device, is_capturing, active_filter, filtered_packets,
                 time_series, run, interface, threadVars, sharedVars>>

\* packets[i] for a row i past the end of the list: the process ends.
Panic ==
  /\ gui = "table"
  /\ ~ Rows \subseteq DOMAIN packets
  /\ gui' = "panicked"
  /\ UNCHANGED <<guiVars, threadVars, sharedVars>>

(***************************************************************************)
(* A frame of the statistics tab that samples the counts.  A protocol has  *)
(* an entry in protocol_counts once it has been counted.                   *)
(***************************************************************************)
Kept(series) == IF Len(series) > HistoryLen THEN Tail(series) ELSE series

Sample ==
  /\ gui = "controls"
  /\ time_series' = [p \in Protocols |->
       IF protocol_counts[p] > 0 THEN Kept(Append(time_series[p], protocol_counts[p]))
       ELSE time_series[p]]
  /\ UNCHANGED <<switched, gui, device, is_capturing, active_filter, filtered_packets, selected,
                 run, interface, threadVars, sharedVars>>

--------------------------------------------------------------------------------
(***************************************************************************)
(* The capture thread of capture g.  A timeout of pcap sends it round its  *)
(* loop again; it notices the end of the processor when a packet arrives.  *)
(***************************************************************************)
InitCapture(g) ==
  /\ capture[g] = "init"
  /\ \E at \in {"running", "done"} : capture' = [capture EXCEPT ![g] = at]
  /\ UNCHANGED <<gui, guiVars, sharedVars, processor, channel, held, captured>>

SendPacket(g, kind) ==
  /\ capture[g] = "running"
  /\ processor[g] \notin Ended
  /\ captured < MaxPackets
  /\ captured' = captured + 1
  /\ channel' = [channel EXCEPT ![g] =
       Append(@, [id |-> captured + 1, kind |-> kind, device |-> interface[g]])]
  /\ UNCHANGED <<gui, guiVars, sharedVars, capture, processor, held>>

SendFails(g) ==
  /\ capture[g] = "running"
  /\ processor[g] \in Ended
  /\ capture' = [capture EXCEPT ![g] = "done"]
  /\ UNCHANGED <<gui, guiVars, sharedVars, processor, channel, held, captured>>

CaptureError(g) ==
  /\ capture[g] = "running"
  /\ capture' = [capture EXCEPT ![g] = "done"]
  /\ UNCHANGED <<gui, guiVars, sharedVars, processor, channel, held, captured>>

\* No thread outlives a panic of the GUI thread, which is the main thread.
Alive == gui # "panicked"

Capture(g) ==
  /\ Alive
  /\ \/ InitCapture(g)
     \/ \E kind \in Kinds : SendPacket(g, kind)
     \/ SendFails(g)
     \/ CaptureError(g)

(***************************************************************************)
(* The processor thread of capture g: PacketProcessor::run.  Its end drops *)
(* the receiver, and with it what is left in the channel.                  *)
(***************************************************************************)
CheckRunning_Never(g) ==   \* the flag is not read
  /\ processor[g] = "loop"
  /\ processor' = [processor EXCEPT ![g] = "recv"]
  /\ UNCHANGED <<gui, guiVars, sharedVars, capture, channel, held, captured>>

CheckRunning(g) ==
  /\ processor[g] = "loop"
  /\ IF is_running
     THEN /\ processor' = [processor EXCEPT ![g] = "recv"]
          /\ UNCHANGED channel
     ELSE /\ processor' = [processor EXCEPT ![g] = "done"]
          /\ channel' = [channel EXCEPT ![g] = << >>]
  /\ UNCHANGED <<gui, guiVars, sharedVars, capture, held, captured>>

Receive_EndsOnError(g) ==   \* the loop is left when a packet does not parse
  /\ processor[g] = "recv"
  /\ IF channel[g] = << >>
     THEN /\ processor' = [processor EXCEPT ![g] = "loop"]
          /\ UNCHANGED <<channel, held>>
     ELSE /\ held' = [held EXCEPT ![g] = Head(channel[g])]
          /\ \/ /\ processor' = [processor EXCEPT ![g] = "parsed"]
                /\ channel' = [channel EXCEPT ![g] = Tail(@)]
             \/ /\ \E at \in Ended : processor' = [processor EXCEPT ![g] = at]
                /\ channel' = [channel EXCEPT ![g] = << >>]
  /\ UNCHANGED <<gui, guiVars, sharedVars, capture, captured>>

\* try_recv: with nothing to receive the thread sleeps and checks again.  A
\* packet is parsed, or parse_packet returns an error and the loop goes on, or it
\* panics.
Receive(g) ==
  /\ processor[g] = "recv"
  /\ IF channel[g] = << >>
     THEN /\ processor' = [processor EXCEPT ![g] = "loop"]
          /\ UNCHANGED <<channel, held>>
     ELSE /\ held' = [held EXCEPT ![g] = Head(channel[g])]
          /\ \/ /\ \E at \in {"parsed", "loop"} : processor' = [processor EXCEPT ![g] = at]
                /\ channel' = [channel EXCEPT ![g] = Tail(@)]
             \/ /\ processor' = [processor EXCEPT ![g] = "panicked"]
                /\ channel' = [channel EXCEPT ![g] = << >>]
  /\ UNCHANGED <<gui, guiVars, sharedVars, capture, captured>>

Count_Once(g) ==   \* one protocol of the packet only
  /\ processor[g] = "parsed"
  /\ \E p \in ProtocolsOf[held[g].kind] :
       protocol_counts' = [protocol_counts EXCEPT ![p] = @ + 1]
  /\ processor' = [processor EXCEPT ![g] = "counted"]
  /\ UNCHANGED <<gui, guiVars, is_running, packets, capture, channel, held, captured>>

Count(g) ==
  /\ processor[g] = "parsed"
  /\ protocol_counts' = [p \in Protocols |->
       protocol_counts[p] + (IF p \in ProtocolsOf[held[g].kind] THEN 1 ELSE 0)]
  /\ processor' = [processor EXCEPT ![g] = "counted"]
  /\ UNCHANGED <<gui, guiVars, is_running, packets, capture, channel, held, captured>>

Push(g) ==
  /\ processor[g] = "counted"
  /\ packets' = Append(packets, held[g])
  /\ processor' = [processor EXCEPT ![g] = "loop"]
  /\ held' = [held EXCEPT ![g] = Nothing]
  /\ UNCHANGED <<gui, guiVars, is_running, protocol_counts, capture, channel, captured>>

Process(g) ==
  /\ Alive
  /\ CheckRunning(g) \/ Receive(g) \/ Count(g) \/ Push(g)

--------------------------------------------------------------------------------
ClickControl ==
  \/ \E d \in Devices : ChangeDevice(d)
  \/ StartCapture
  \/ StopCapture
  \/ ClearPackets
  \/ \E filter \in Filters : ApplyFilter(filter)
  \/ ClearFilter

\* What the GUI thread does by itself once it handles a frame.
FinishFrame ==
  \/ JoinCapture \/ JoinProcessor
  \/ ClearCounts
  \/ DrawTable \/ ClickRow \/ Panic

Next ==
  \/ ClickControl
  \/ Repaint
  \/ FinishFrame
  \/ Sample
  \/ \E g \in Runs : Capture(g) \/ Process(g)

Spec == Init /\ [][Next]_vars

\* The threads are scheduled.  Nothing makes the user click, packets arrive or
\* pcap fail.
FairSpec ==
  /\ Spec
  /\ WF_vars(FinishFrame)
  /\ \A g \in Runs : WF_vars(Process(g)) /\ WF_vars(Alive /\ InitCapture(g))

\* Packets keep arriving on every interface.
TrafficSpec ==
  FairSpec /\ \A g \in Runs : WF_vars(Alive /\ SendFails(g))

--------------------------------------------------------------------------------
TypeOK ==
  /\ gui \in GuiAt
  /\ device \in Devices \cup {NoDevice}
  /\ is_capturing \in BOOLEAN /\ is_running \in BOOLEAN
  /\ packets \in Seq(Packet)
  /\ protocol_counts \in [Protocols -> Nat]
  /\ active_filter \in Filters \cup {NoFilter}
  /\ filtered_packets \subseteq Nat
  /\ selected \in Nat \cup {NoIndex}
  /\ time_series \in [Protocols -> Seq(Nat)]
  /\ run \in 0 .. MaxRuns
  /\ interface \in [Runs -> Devices \cup {NoDevice}]
  /\ capture \in [Runs -> {"none", "init", "running", "done"}]
  /\ processor \in [Runs -> {"none", "loop", "recv", "parsed", "counted"} \cup Ended]
  /\ channel \in [Runs -> Seq(Packet)]
  /\ held \in [Runs -> Packet \cup {Nothing}]
  /\ captured \in 0 .. MaxPackets
  /\ switched \in BOOLEAN

\* Between captures no thread of an earlier one is left that could still append
\* to the list or read the flag the next Start sets again.
StopEndsThreads ==
  ~ is_capturing /\ gui \notin {"joinCapture", "joinProcessor"} =>
    \A g \in Runs : {capture[g], processor[g]} \subseteq {"none"} \cup Ended

\* The list is in the order of capture, across captures, failed parses and
\* clears.
ListInCaptureOrder ==
  \A i, j \in DOMAIN packets : i < j => packets[i].id < packets[j].id

\* README 4.2.2: the list shows packets of the device chosen in the Interface box.
ListedFromSelectedDevice ==
  \A i \in DOMAIN packets : packets[i].device = device

\* README 4.2.4: once a filter is applied "the list shows only packets that
\* match".  While Clear is between its two locks nothing is drawn.
ShowsOnlyMatching ==
  active_filter # NoFilter /\ gui # "clearing" =>
    \A i \in Rows \cap DOMAIN packets : packets[i].kind \in active_filter

\* As long as the device is never changed under a capture or a filter: the list
\* is from the selected device, across captures and clears;
ListedFromDeviceUnlessSwitched == switched \/ ListedFromSelectedDevice

\* the rows match the filter, though they are indices computed when it was
\* applied into a list that is cleared and refilled;
MatchingUnlessSwitched == switched \/ ShowsOnlyMatching

\* and no row is past the end of the list when the table is drawn: the program
\* ends only with a Stop, for a packet that made the processor panic.
NoPanicUnlessSwitched ==
  \/ switched \/ Alive
  \/ ~ is_capturing /\ run > 0 /\ processor[run] = "panicked"

\* So the list is in order, and it and its rows are right, or the user has changed
\* the device.
ListRightUnlessSwitched ==
  /\ ListInCaptureOrder
  /\ ListedFromDeviceUnlessSwitched
  /\ MatchingUnlessSwitched
  /\ NoPanicUnlessSwitched

\* The details shown are those of the packet that was clicked, as long as its
\* row stays selected, whatever the processor appends.
SelectionStable ==
  [][selected' = selected /\ selected # NoIndex /\ gui' # "clearing" =>
       /\ selected \in DOMAIN packets /\ selected \in DOMAIN packets'
       /\ packets'[selected] = packets[selected]]_vars

\* For protocol p: the packets in the list, and those counted but not yet there.
Listed(p) == {i \in DOMAIN packets : p \in ProtocolsOf[packets[i].kind]}
Arriving(p) == {g \in Runs : processor[g] = "counted" /\ p \in ProtocolsOf[held[g].kind]}
Covered ==
  \A p \in Protocols :
    Cardinality(Listed(p)) + Cardinality(Arriving(p)) <= protocol_counts[p]

\* The statistics count every packet in the list: only Clear, between its two
\* locks or with a packet in the processor's hands, can leave them behind.
CountsCoverList == [][gui # "clearing" /\ Covered => Covered']_vars

\* The curve of a protocol never falls and never passes its count.
CurvesRise ==
  \A p \in Protocols : LET s == time_series[p] \o <<protocol_counts[p]>> IN
    \A i \in 1 .. Len(s) - 1 : s[i] <= s[i + 1]

\* The GUI "stays fluid and responsive" (README 2.3): Stop gets the two threads
\* to end, and the window is drawn again, unless the processor had panicked.
StopReturns == gui = "joinCapture" ~> gui \in {"table", "panicked"}

\* Every packet in a channel reaches the list, or turns out not to parse.  It is
\* dropped only with the channel: when the user stops, when the process ends, or
\* when the processor panics on it or on one before it.
Received(g, id) == \E i \in DOMAIN channel[g] : channel[g][i].id = id
InList(id) == \E i \in DOMAIN packets : packets[i].id = id
ParseFailed(g, id) == processor[g] = "loop" /\ held[g].id = id
Panicked(g, id) == processor[g] = "panicked" /\ held[g].id <= id

CapturedIsProcessed ==
  \A g \in Runs, id \in 1 .. MaxPackets :
    Received(g, id) ~> \/ InList(id) \/ ParseFailed(g, id) \/ Panicked(g, id)
                       \/ ~ is_capturing \/ ~ Alive
================================================================================
