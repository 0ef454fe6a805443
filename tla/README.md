# WireCrab in TLA+

WireCrab is a packet sniffer: it captures packets with pcap, parses them, follows
TCP/UDP/ICMP conversations and shows the packets on the command line (`main.rs`)
or in a GUI (`gui.rs`).  This directory holds TLA+ models of the parts whose
correctness depends on order, on several threads, on long sequences of calls or on
where a message was cut; TLC configurations that check them on small instances; and
TLAPS proofs of their theorems.  Every definition was translated from the Rust
source; `PROJECT.json` names, for each definition, the lines it stands for.  Paths
below are relative to `src/`, the root of the repository (so `gui.rs` is
`src/gui.rs` of its crate).

## 1. Inventory

| Component | Source | Modules | Status |
|---|---|---|---|
| TCP state machine | `src/session/flow.rs` | `TcpStates`, `FlowSummary`, `TcpTap` | modelled, proved |
| TCP stream reassembly | `src/session/flow.rs` | `TcpFlow` | modelled, proved |
| Session tracker | `src/session/tracker.rs`, `mod.rs` | `SessionTracker` | modelled, proved |
| Packet processor thread | `src/session/processor.rs` | `GuiCapture` | modelled, proved |
| Packet capture | `src/capture/mod.rs` | `GuiCapture`, `CliPipeline` | modelled, proved |
| GUI | `src/gui.rs` | `GuiCapture` | partly, proved |
| Command line pipeline | `src/main.rs` | `CliPipeline` | partly, proved |
| Packet parser | `src/parser/*.rs` | `PacketParser` | partly, proved |
| Packet filter | `src/filter/mod.rs` | `PacketFilter` | modelled, proved |
| Application parsers | `src/parser/application/` | `ApplicationParsers` and the four below it | modelled, proved |
| Filter rules | `src/filter/rules.rs` | | not modelled (unused) |
| Device list, output | `src/capture/device.rs`, `src/output/` | | not modelled |

"Proved" is said of the component's safety and action properties; liveness is
model-checked (section 4).

**TCP state machine** (`TcpFlow::update_state`).  State: one of eleven states.
Operation: one step per observed segment, from its direction and flags.  Hard:
a sniffer sees segments it did not ask for, in any order, and some not at all.
Correct when it never goes backwards, agrees with the streams about who has sent a
SYN, and says of a connection what the two endpoints would say of it.

**TCP stream** (`TcpStream`).  State: per direction an initial sequence number,
the next one expected, a `BTreeMap` of segments waiting, and the reassembled
bytes.  Operations: `add_segment` (which can fail after the state machine has
moved) and `has_new_data`, whose loop drains the map.  Hard: reordering,
duplication, retransmission with other boundaries, wrapping sequence numbers.
Correct when what is delivered is a prefix of what was sent, and nothing is lost.

**Session tracker**.  State: a map from `SessionKey` to `Session` (state, last
activity, flow), a counter.  Operation: `process_packet`, which looks a session
up under the key and its reverse, creates or updates it, and cleans up.  Hard:
`?` in the middle of an update; eviction before an insertion that may then fail;
ids used after a cleanup; a clock that is not monotonic; first packets from
either side.  Correct when each conversation has one session, whose state and
directions follow its TCP connection, that goes only for a reason, in a map of
bounded size.

**Capture thread.**  State: the open device and the sender.  It loops on
`next_packet`; a pcap timeout continues, an error or a failed send ends it.  It
is started by `main.rs` and by the GUI and notices that nobody listens only when
it next sends.

**Processor thread** (GUI only).  Polls the flag `is_running` and the channel,
parses, counts protocols under one lock and appends to the list under another.  A
panic of the parser ends it.

**GUI thread.**  State: selected device, list and counts shared with the
processor, active filter and the indices it selected, selected row, statistics.
Operations: the controls of the capture tab, the table, the statistics tab.
Start spawns the two threads, Stop joins them within a frame.  Hard: indices into
a list that other code clears and grows, two locks taken one after the other,
joins on the thread that draws.

**Command line.**  The main loop receives, parses, filters, tracks and prints one
packet after the other, breaks at `--count`, then joins the capture thread.  Hard:
the filter decides what the tracker sees, a session may be gone when it is printed,
packets may be waiting when the capture ends.

**Parser.**  State: a frame counter.  Operation: `parse_packet`, which fails on a
malformed lower layer, does without a malformed application layer, and panics on a
few.  Hard: what counts as payload, and protocols guessed from ports.

**Application parsers** (DNS, TLS ClientHello, HTTP, FTP).  No state: each call
gets the payload of one segment.  Hard: compressed names, lengths and offsets taken
from the message, and payloads that are the first part of a message, or a later
one.  Correct when a whole message is read as it was written and no part of one is
shown as a message nobody wrote.

**Filter.**  No state.  `matches` tests protocol, addresses and ports with many
early returns.  Correct when it is the conjunction of the options given.

**Interactions.**  Capture → channel → (processor → shared list → GUI) or (main
loop → parser → filter → tracker → stdout).  The tracker calls `add_segment` of
the flow in a session.  Nothing calls `has_new_data`, and the GUI does not use the
tracker.

The hazards of these components, each at its line, are listed in `PROJECT.json`.

## 2. Modules

```
TcpStates            operators: update_state, and when add_segment fails
  ├─ FlowSummary     abstract specification of a flow: state + two bits
  ├─ TcpFlow         detailed flow; implements FlowSummary
  │    └─ TcpTap     two endpoints, a lossy wire, and a TcpFlow that watches them
  │         └─ TcpFlowProofs (of TcpFlow and of TcpTap)
  └─ SessionTracker  stores FlowSummary's state in its sessions
       └─ SessionTrackerProofs
PacketParser         frames to packets
  └─ PacketFilter    packets to matches
       └─ PacketFilterProofs
CliPipeline          capture thread + main loop, with an instance of PacketFilter
  └─ CliPipelineProofs                       and one of SessionTracker
GuiCapture           GUI thread, capture threads, processor threads
  └─ GuiCaptureProofs
Octets, Text         cuts of a message; what is valid UTF-8 of one
  └─ DnsMessage, TlsHello, HttpMessage, FtpLine
       └─ ApplicationParsers   one conversation of any of the four
            └─ ApplicationWritersProofs          types, and what the writers write
                 ├─ ApplicationParsersProofs     what the DNS, TLS and FTP parsers read
                 └─ ApplicationHttpProofs        what the HTTP parser reads
MC*                  instances for TLC
```

A definition named `<definition>_<slip>`, just before `<definition>`, is a mutant: the
definition with a slip someone could make in the code.  Nothing uses it; each
property is known to fail when the mutant stands in for the definition
(`mutants` in `PROJECT.json`).

**TcpStates.**  `UpdateState` has the arms of the `match` in their order, the RST
test first.  `FlowSummaries` is what the rest of the program can tell apart of a
flow; `Rejects` and `AfterSegment` are `add_segment` seen through it.

**TcpFlow.**  Variables are the fields of `TcpFlow` and its two `TcpStream`s, plus
`pc` for the running loop of `reassemble`.  `AddSyn`, `AddData`, `RejectData` and
`AddBare` are the paths through `add_segment`: a segment with SYN, with data for a
stream that has its initial sequence number, with data for one that has not (the
`Err`), and with neither.  `TakeExpected`, `DropRetransmitted`, `StopReassembly`
are the three arms of the loop on the smallest buffered sequence number.  The byte
at stream position *p* is *p* itself, so that "reassembled data is right" reads
"it is 0, 1, 2, …".  Sequence numbers wrap at `SeqMod` (2³² in the code); the
`BTreeMap` compares them raw, as the model does.  The wire may deliver any segment
of `Segments` at any time, any number of times.

**TcpTap.**  The flow where WireCrab runs it: on a host that has the connection.
What an endpoint sends are items: its SYN is item 0, its data segments are items
1, 2, …, its FIN is the last; `Ack` and `Reset` carry none.  `Send`, `Receive` and
`Lose` are the endpoints and the wire (external code: RFC 9293 as far as a sniffer
sees it — retransmission until acknowledged, aborts, acknowledgements carried by
any packet, no SYN-ACK before the SYN).  The flow gets each packet as the host
sends it or as the host receives it (`See`), so a packet lost on its way to the
host is never seen, and one lost behind the host is seen once and again when it is
retransmitted.  `opened`, `fins` and `answered` are history.

**SessionTracker.**  `CreateTcpSession`, `FailCreate`, `UpdateTcpSession`,
`FailUpdate` and the datagram actions are the outcomes of `process_packet`, each
with the force-cleanup before and the expiry after it where the code runs them.
The clock is read at the start and again by the cleanup (`Return`).  Sessions with
equal `last_activity` are evicted in any order, as a `HashMap` yields them.  A
session keeps `senders` and `syn_first` as history, for properties only.  A UDP or
ICMP session holds an unused `NewFlow` where the code has `None`.

**GuiCapture.**  One action per stretch of a GUI frame that takes each lock at
most once; one per lock or channel operation of the other threads.  Each press of
Start has its own pair of threads and its own channel, while `is_running`, the list
and the counts are shared by all of them, as in the code.  A parser that panics
ends its processor, and the `unwrap` of the join passes the panic on to the GUI
thread.  `switched` is history: was the device changed while capturing or filtering?

**PacketParser.**  A frame is what its headers say, the application data sent behind
them (who wrote it, and whether its parser reads it as a message, rejects it as the
rest of one, or panics on it), whether the frame is padded, and at most one defect:
the header that is too short or malformed.  `Fails` are the `?`s of `parse_packet`;
`GuessProtocol` has the arms of `guess_protocol_by_port` in their order; `Panics`
says when the process or thread that parses ends.

**PacketFilter.**  `Matches` and its parts follow `filter/mod.rs`.  The reference,
`Offers`, says option by option what a packet has; `FilterIsConjunction` compares.

**CliPipeline.**  The main loop shares only the channel with the capture thread,
so its body for one packet is one action.  Which one depends on the frame: `Skip`
(it does not parse, or the filter does not match), `ParserPanics` (the process
ends), `FormatFails`, or `PrintPacket`, which includes a whole step of
`SessionTracker`.  What is in a packet is chosen when it is received, where it first
matters.  `FiledAs` is the direction the tracker gave a segment, to compare with the
one `main.rs` works out again for printing.

**DnsMessage, TlsHello, HttpMessage, FtpLine.**  Each has a writer (external: the
program that sent the message) whose actions append one element of a message, and
the functions of the parser, which read the octets written.  A message is a sequence
of fields that know how many octets they have (`Octets`), so that a message can be
cut at any octet, and lengths and offsets are arithmetic over octets as in the code.
The properties quantify over the message as far as it is written and over its cuts.
A result is a message, an error or a panic.

**ApplicationParsers.**  One conversation of any of the four protocols, and the
assumptions on their constants.

## 3. Runs

Passing runs (all explore the whole state space of their instance):

| Run | Shows | Bounds, and why they are enough |
|---|---|---|
| `flow_wrap` | `ReassembledIsPrefix`, `StateNeverRegresses`, `ImplementsSummary`, `NothingUnreadDiscarded`, `CallDeliversHeldData` | The client's 3 bytes are numbered 4, 5, 0 modulo 6, in 4 overlapping segments; the server's keep their boundaries and do not wrap, so that a gap, an in-order prefix and stale copies occur together. Every set of flags, both directions. |
| `tap_host` | `EstablishedIsShared`, `HoldsAllReceived`, `ClosedIsClosed`, `RestsWhereItCloses` | The host is the client or the server; one data segment in each direction, the client's at the end of the sequence space, two packets under way: every item can be lost, overtaken and retransmitted, data and FIN can complete the handshake, and both ends can close at once. |
| `tracker_mixed` | `MapIsRight`, `SessionStateMatchesFlow`, `DirectionsApartAfterSyn`, `SessionNeverReopens`, `RemovedForCause`, `ReturnedIdNamesSession` | A TCP, a UDP and an ICMP conversation, seen from either side, compete for `MaxSessions = 2`; timeouts of 0 and 1 on a clock of 0 and 1 that may step back; 3 creations, one more than the map holds, so that a session is pushed out, comes back (from the other side, or after a timeout), or makes room for one that is then refused. |
| `gui_all` | `StopEndsThreads`, `ListRightUnlessSwitched`, `CurvesRise`, `SelectionStable`, `CountsCoverList`, `StopReturns`, `CapturedIsProcessed` | Two captures (the second can meet leftovers of the first), two devices, two kinds of packet, two packets. |
| `cli_all` | `InfoIsRight`, `TrackedIsShown`, `LoopEndsOnTime`, `PipelineEnds` | `--count` of 0, 1 and (never reached) 4 of 3 packets: the loop can end by count or by the end of the capture; a map full with one session; no filter, one for a protocol and one for a port; a TCP and a UDP conversation, a DNS answer that makes the parser panic, a truncated segment, an ARP frame. |
| `filter_frames` | `FilterIsRight`, `RepliesPassAlike` | Every ethertype, transport and defect; every kind of application data, with and without padding; ports with every arm of the guess but SSH and Telnet, and pairs of two well-known ports; every option absent, met and missed. Two frames show the counter. |
| `application_payloads` | `DnsReadsWhatIsWritten`, `ServerNameIsFound`, `HttpReadsWhatIsWritten`, `FtpLineIsRead`, `FtpRestIsMisread` | DNS: names of one and two labels, so that a pointer may replace a whole name or its tail, in messages of up to 49 octets (questions and records of every type and section). TLS: session ids of 0 and 2 octets, up to 3 extensions, two hosts. HTTP: two header lines out of three (repeated, folded, with colons), a body of 3 pieces past a preview of 2; `GET`, space and version, or version, space and number, make it look like a message of its own. FTP: 5 characters (letters, digits, spaces, two octets), so that three digits or a character across the third octet can stand at, and behind, the beginning of a segment. Each cut at every octet. |

Each run also checks its module's type invariant.  Properties whose name is in a
proof but not here are conjuncts of one that is: `MapIsRight`, `ListRightUnlessSwitched`,
`InfoIsRight`, `TrackedIsShown`, `LoopEndsOnTime` and `FilterIsRight` put together
what belongs together, and each conjunct has a theorem of its own.

Runs that find a disagreement between the code and what the repository says of it
(`findings` in `PROJECT.json`):

| Run | Counterexample |
|---|---|
| `flow_wraparound` | New data numbered past the wrap compares below `next_seq` and is dropped as "already processed" (`flow.rs:225`). The same line also drops a retransmission with other boundaries whole, together with the bytes it has past `next_seq`. |
| `flow_latesyn` | A duplicate SYN after data rewinds `next_seq`; retransmitted data is then delivered twice (`flow.rs:100`). |
| `gui_quiet` | Stop joins, on the GUI thread, a capture thread that waits for a packet (`gui.rs:165`): on a quiet link the window freezes. |
| `gui_stale` | Choosing another device clears the list but not the filter's indices (`gui.rs:151`): rows that do not match, or a panic. `MatchingUnlessSwitched` and `NoPanicUnlessSwitched` state that nothing else does this. |
| `parser_padding` | The slices handed on by the header parsers reach to the end of the frame (`ipv4.rs:71`), so that the padding of a bare ACK becomes "application data" (`parser/mod.rs:181`) and is filed in the TCP stream. |

### What the properties' wording says of the code

- *State machine.* After an orderly close a flow is `Closed` if the client closed first
  and its FIN was answered by a packet without one.  A close in three segments, or by
  both ends at once, leaves it in `FinWait2`, a server that closes first in `CloseWait`,
  for good.  A FIN that is seen twice counts twice: the server's, retransmitted, is
  taken for the client's and takes the flow from `CloseWait` to `Closed`
  (`RestsWhereItCloses`).
- *Tracker.* `force_cleanup` removes a tenth rounded down, so a map with fewer than ten
  sessions grows past a smaller `max_sessions` (`BoundedSessions` says how far).  It
  runs before the first segment of the new session is looked at, so that sessions are
  lost to a packet that is then refused; `RemovedForCause` says how many a packet can
  push out, which ones, and of which map, and that no packet of a tracked session does.  A
  capture begun in mid-connection files the first segment under the opposite direction
  to the later ones of the same sender (`tracker.rs:169`); `DirectionsApartAfterSyn` is
  what holds.  The repository's README marks session tracking as unfinished.
- *Command line.* `--count 0` prints one packet (`PrintsAtMostCount`).  After the last
  packet of `--count` the program waits in `join` until one more packet arrives
  (`main.rs:189`), so that "stops after capturing 100 packets" (README 4.1.3) is up to
  the traffic, and so is the comment before the join, by which the capture thread runs
  all the time.  `gui_quiet` shows the same wait in the same capture loop; of the command
  line `PipelineEnds` claims only that it ends when the capture does.  A filter stands before the
  tracker: one for a side of the traffic lets no connection be established, one for an
  application protocol hides the handshake (`TrackedIsShown`).
- *GUI.* Changing the device during a capture empties the list and refills it from the
  old device (`ListedFromDeviceUnlessSwitched`).  Under a filter, packets captured
  later never get a row until the filter is applied again (`gui.rs:307`).  Clear takes
  two locks, and a packet counted before and listed after it stays in the list without
  being counted (`CountsCoverList` excludes exactly that).
- *Panics of the parser.* A DNS message cut between the two octets of a pointer
  (`dns.rs:108`), a ClientHello whose record ends inside one of two lengths
  (`tls.rs:55`), an HTTP body or FTP line with a character across the place where it is
  sliced (`http.rs:156`, `ftp.rs:16`).  On the command line that ends the process; in
  the GUI it ends the processor, unnoticed until Stop, whose join passes it on; the
  packets that waited behind the fatal one are lost with the channel, and
  `CapturedIsProcessed` excepts exactly those.
- *Parsing per segment.* `session/mod.rs:3` means the reassembled streams for the
  application parsers, but they are called with each payload.  A status line cut after
  two digits reads as status 20 (`CutShowsNoOther`), a folded header line with a colon as
  a header (`Misread`).  A later segment of an HTTP message is an error, unless it begins
  inside the body with `HTTP/` or a method: then it can be shown as a message nobody sent
  (`RestIsMessageOnlyInBody`).  A later segment of an FTP line is read as a command, or,
  if it begins with three digits (a 227 reply cut before its numbers), as a reply
  (`RestIsMisread`).
- *Parser.* It never builds an ICMP layer, so that the `icmp` filter matches nothing and
  the ICMP sessions of `SessionTracker` exist only for other callers of the library.

### Settings

`CHECK_DEADLOCK FALSE` appears where the system really stops: the GUI after a panic,
the command line after its exit, the parser when its `MaxFrames` are spent or it
panicked, a connection of `TcpTap` when both ends are done, a message of
`ApplicationParsers` when it is written.  `TcpFlow` and `SessionTracker` check for
deadlock.

**Fairness.**
- `TcpFlow`: weak fairness of the loop of `reassemble`, which runs on the caller's
  thread until it breaks.  Nothing is assumed of the wire.
- `GuiCapture!FairSpec`: the GUI thread finishes a frame it has begun, processor
  threads are scheduled (they never block: `try_recv`, sleep), and pcap answers an
  attempt to open a device.  Not assumed: that a user clicks, a packet arrives or
  pcap fails.  `TrafficSpec` adds that packets keep arriving, so that a capture
  thread without a receiver gets to a failing send.  `StopReturns` needs it,
  which `gui_quiet` shows.
- `CliPipeline`: the main loop is scheduled, and pcap answers the attempt to open the
  device.

`TcpTap`, `SessionTracker`, `PacketFilter` and `ApplicationParsers` assume none.

**Modelling bounds.**  `MaxPackets`, `MaxRuns`, `MaxCreated`, `MaxTime`, `MaxFrames`,
`MaxInFlight`, `MaxOctets`, `MaxExtensions`, `MaxLines`, `MaxPieces` and `MaxText` appear
in guards only to keep TLC's instances finite; the theorems hold for every value of
them.  `Divisor` (10 in the code), `HistoryLen` (100) and `PreviewLength` (1024) are
parameters.

## 4. Proofs

All proofs hold for every value of the constants under the modules' `ASSUME`s.

**TcpFlowProofs.**
- `TypeCorrect` is not inductive alone: that `next_seq` stays a sequence number
  depends on what is in the buffer.  `TypeInv` adds `BufferOK`: every entry is a
  segment of the sender, filed under the number of its first byte.
- `ReassemblyCorrect` (`~LateSyn => (Spec => []ReassembledIsPrefix)`) adds
  `PositionOK`: `next_seq` is the number of the position right after the
  reassembled data.  It holds for overlapping retransmissions and wrapping
  numbers alike, because distinct positions of a stream shorter than the sequence
  space have distinct numbers (`SeqOfPosition`).
- `NoLoss` proves `NothingUnreadDiscarded` under `~LateSyn`; the property speaks of
  regular directions, whose segments do not overlap and whose numbers do not wrap.  The
  findings above show that both are needed.  `BoundaryOK`, the extra part of the
  invariant, says that `next_seq` is never inside a segment.
- `StateProgress`, `HandshakeCorrect` (`HandshakeSynced`: a flow past `SynReceived`
  has both initial sequence numbers, so that `add_segment` fails no more),
  `FlowImplementsSummary`: each step of a flow is a `Segment` step of `FlowSummary` or
  leaves it alone (`StepIsSegmentOrStutter`), so that the first two are proved once
  about the operators.

The same module, of `TcpTap`:
- `TapIsFlow`: what the tap does to the flow are steps of `TcpFlow`, which makes that
  module's theorems available for a flow on a host.
- `TapTypeCorrect`: `EndpointsInv` adds to the types that a packet carries only what its
  sender has sent, that data and FIN go out only after the handshake, and that a SYN-ACK
  follows a SYN (`PacketsOK`, `HandshakeOK`).
- `EstablishedShared` is not inductive: when the client is the host, its ACK counts in
  the flow before the server has it.  `HandshakeSeen` follows the handshake by what the
  flow has seen, and by the packets on their way.
- `AllReceivedHeld`: `HeldOK` says for every item seen that its bytes are in the buffer
  under their key, and no two segments of a sender share a key (`KeysDiffer`).
- `ClosedClosed`: `FinsOK` bounds the FINs counted from below by the state.
- `RestsRight`: while nobody aborts, the state is a function of the FINs seen, the
  repeated ones included, and of whether the first was answered (`StateByFins`); a FIN of the server's cannot escape
  the count, and the client's acknowledgement of it is what takes the flow to `Closed`
  (`CountOK`).

**SessionTrackerProofs.**
- `TrackerInv` says of every session that it is well typed (`s \in Session`), that its
  flow is in sync with its handshake (`SyncOK`), that its state agrees with the
  flow's (`StateAgrees`) and that its directions are apart if it began with a SYN
  (`SendersOK`).  The parts need each other: `StateAgrees` survives a rejected
  segment, which moves the flow but not the session, only because `SyncOK` limits
  rejections to flows that have not finished their handshake.
- `TypeCorrect`, `SessionStateCorrect`, `DirectionsCorrect` follow.
- `OneSessionPerConversation` and `SessionsBounded` need only how the domain of the
  map can change (`DomainStep`) and how much `force_cleanup` removes (`RoomMade`);
  together `MapRight`.
- `NeverReopens`, `RemovalsCaused` and `ReturnedIdCorrect` are action properties.  Every
  call ends in one of five ways (`Outcome`, `StepOutcome`: records nothing, only evicts,
  refuses, creates, updates), from which each follows; the second needs that a UDP or
  ICMP session stays `New` (`DatagramInv`).

**PacketFilterProofs.**
- `PacketInv`: the packet is what `parse_packet` makes of the last frame.  From it
  follow `TypeCorrect` and, option by option (`ProtocolOffered`, `AddressesOffered`,
  `PortsOffered`), `FilterCorrect`: the filter is right on packets the parser can
  produce, which have ports iff they have a transport layer (`ParsedFields`).
- `CountedNamesCorrect`, with it `FilterRight`; and `RepliesCorrect`, which rests on
  `GuessIsSymmetric`.

**GuiCaptureProofs.**
- `TypeCorrect` adds what a processor holds (`HeldOK`) and that a started capture has a
  device (`InterfaceOK`).
- `ThreadsEnd` from `ThreadsOK`: only the last capture can have threads, and it has them
  only while it runs or is being joined.  A processor that has ended leaves no channel.
- `ListInOrder` from `OrderOK`: packets are numbered upwards from the list over the
  processor's hands to the end of the channel; `ThreadsOK` says that there is only one
  such line at a time.
- `ListedFromDevice`, `RowsMatch`, `NoPanic` (`DeviceOK`, `RowsOK`); together `ListRight`.
- `SelectionCorrect` (`SelectedOK`), `CurvesCorrect` (`SeriesOK`: the last sample is not
  above the count) and `CountsCover` (`CoverStep`), which is about cardinalities: one
  packet more in the list is one less in the processor's hands.

**CliPipelineProofs.**
- `CountRespected` and `ChannelDrained` from `CountsInv` and `Printing`; together
  `EndsOnTime`.
- `InfoCorrect`, `DirectionsAgree` (together `InfoRight`): which of the two keys a packet
  is filed under after a step of the tracker (`Tracks`, `TookSegment`), and that a
  session keeps the direction its SYN gave it.
- `BothSidesNeeded` from `AllSidesSeen` (a flow past `Init` was fed by the client, past
  `SynSent` by the server too) and `SynNeeded`; together `TrackedShown`.
- `TypeCorrect` carries the tracker's type over its step (`TrackerTyped`).
- `PipelineIsTracker`: each step is a call of `process_packet`, a step of the clock, or
  leaves the tracker alone (`TrackIsCall`, `StepIsCallOrStutter`).  So the theorems of
  `SessionTrackerProofs` hold of the tracker in the pipeline.

**ApplicationWritersProofs.**
- The lemmas that everything about payloads rests on.  Induction is over the set of the
  numbers a statement is true of (`LeastNumber`, `Induction`, `StrongInduction`).  A
  recursive function has a value at every argument because each call moves on
  (`RankedRecursion`: a string is split from its end backwards) or because what comes of
  an error is an error (`StrictRecursion`: in an arbitrary payload the pointers of DNS
  names may go round in circles).  A message is the join of its pieces (`FlattenPieces`,
  `PiecesInOrder`, `PiecesDetermine`).  Strings are characterised by the places of marks in
  them: `Split` (`SplitSolved`, `SplitParted`), trimming (`TrimKeeps`) and `str::lines`
  (`LinesAre`).
- `TypeCorrect`: each program only writes messages of its protocol, within the bounds.
  For DNS that needs what is in the octets, `DnsInv`: the body is the writing of the
  questions and records one after the other, and every suffix that a later name may
  point at is the writing of a name at that offset (`NameWritten`, `DataWritten`).

**ApplicationParsersProofs.**
- `DnsRead`: names are read back through any chain of pointers, by induction on the
  number of labels (`NameReads`); then fields, records and sections one by one, over UDP
  and over TCP.  A cut message runs into its end in the field that was cut, and nothing
  before that field looks past it.
- `ServerNameFound`: the loop over the extensions finds the first that is a server name.
  `HelloParses` and `HelloParsed` say where in a ClientHello, whole or cut, the parser
  reads each length, and `TlsRecordReads`, `CutRecordReads` what it answers.
- `FtpRead`: the octets of a line are those of its characters (`CharactersWritten`); a
  cut shows the beginning of them (`LineOctets`, `FirstLineRead`).  `trim` is
  characterised by the span that it keeps (`SpanTrimmed`, `TrimTwice`), and keeps of a
  beginning of a text a beginning of what it keeps of the text (`TrimBeginning`).

**ApplicationHttpProofs.**
- `HttpRead` follows from the types of what is written (`Inv`) and `HttpAssumption`: start
  lines and header lines are of their types, the bounds numbers.  A message is rows, each
  ended by CR LF, and a tail (`MessageInRows`): the start line, the rows of the headers (a
  folded header has two, `LineInRows`), the empty row, and the rows of the body, which may
  have line breaks of its own (`BodyInRows`).
- A first segment of it is its first k rows and the beginning of the next (`LinedCut`), so
  that `str::lines` makes of it those rows and at most one part of a row, which may keep
  the CR of a line break cut in two (`BegunCut`).  The start line is read by the places of
  its spaces (`RequestParts`, `ResponseParts`).
- Of one header row the parser shows the name, lower-cased, up to the first colon and the
  value, trimmed (`MainRead`); of the second row of a folded header the name in `Misread`
  if it has a colon, otherwise nothing (`FoldRead`).  A cut of the row shows the same name
  with a beginning of the value, or nothing.  That the last header of a name wins is
  `HeadersRight`.
- The body it previews is the rows behind the empty one joined again by LF (`JoinSplit`,
  `BodyJoined`); `CutOverlong` and `Previewed` compare the preview of a cut with that of
  the whole, and say when its end is inside a character (the panic).
- `RestNoMessage`: before the body no further segment begins with a method or with
  `HTTP/` (`GreetingAt`), except one that begins with the version of a request, which is
  no status line because nothing follows it (`SecondHalf`).  Inside the body, what is not
  an error begins with one of them (`OpensAsMessage`).

**Model-checked only.**  Liveness (`CallDeliversHeldData`, `StopReturns`,
`CapturedIsProcessed`, `PipelineEnds`), which is out of the prover's reach, and
`FtpRestIsMisread`, what the later segments of an FTP line show.  Every other invariant
and every action property of a passing run is a theorem.

## 5. Not modelled

- The fields of the link, network and transport headers (`parser/*.rs`): conversions of
  a few octets without state.  IP fragments are not told apart, by the code either: it
  reads a transport header behind every IP header.
- Of the application parsers: how a record or a field is worded (records of other types
  are shown in hex), DNS flags and classes, the table of HTTP status descriptions.  That
  parsing a DNS name ends rests on pointers that point backwards, as RFC 1035 has them
  and the model's writers write them; the code does not test it.
- Of what is written: names of other types than host names in a ClientHello (the parser's
  branch for them is in `ParseServerName`, but no writer takes it), HTTP header values of
  several words (a segment that begins inside one could be taken for a message as one
  that begins in a body can), and chunked bodies.
- `TcpFlow!AddBare` takes a segment without data to carry none; under the padding of
  `parser_padding` such a segment arrives as one with data.  What the application parsers
  make of padding is in `PacketParser!IsMessage`: FTP takes it for a line, DNS takes the
  18 zero octets behind an empty datagram for an empty message.
- `GuiCapture` takes a filter as the set of packet kinds it matches; `PacketFilter` says
  which.  `filter/rules.rs` is used by nothing.
- Text fields, hex and JSON views, layout, themes; option parsing and
  `--list-interfaces`; JSON output and the list of devices (pure I/O).
- `packet_cache_limit`, which the GUI stores (`gui.rs:59`) and nothing reads, so that the
  list grows for as long as a capture runs; the counters `packet_count` and
  `total_bytes` of a session, which nothing in the tracker reads.

## 6. Plan

Done, in this order: `TcpStates`, `FlowSummary`, `TcpFlow` and their proofs;
`SessionTracker`; `GuiCapture`; `CliPipeline`; `PacketParser` and `PacketFilter`;
`TcpTap` and its proofs; `CliPipeline` over real packets, parser and filter; the
application parsers; proofs of `GuiCapture`, `CliPipeline`, of the tracker's action
properties and of what the application parsers read.

Next:
1. A tracker whose sessions hold real `TcpFlow`s, to connect eviction with the
   streams it cuts short.
2. `GuiCapture` over packets of `PacketParser` with `PacketFilter`, in place of kinds.
3. The extraction of header fields, with their lengths, as far as they decide what the
   next layer is given.
