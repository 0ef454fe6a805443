---------------------------- MODULE GuiCaptureProofs ----------------------------
(***************************************************************************)
(* Proofs about the GUI and its threads, for every number of captures and  *)
(* packets, every set of filters, devices and kinds of packets.            *)
(***************************************************************************)
EXTENDS GuiCapture, SequenceTheorems, FiniteSetTheorems, TLAPS

\* A processor holds a packet while it works on one, and a capture that was
\* started knows its device.
HeldOK ==
  \A g \in Runs :
    /\ processor[g] \in {"parsed", "counted"} => held[g] \in Packet
    /\ g > run => processor[g] = "none"
InterfaceOK == \A g \in Runs : capture[g] # "none" => interface[g] \in Devices

TypeInv == TypeOK /\ HeldOK /\ InterfaceOK

USE FiltersAssumption, NoneAssumption, BoundsAssumption

LEMMA TypeInit == Init => TypeInv
<1> SUFFICES ASSUME Init PROVE TypeInv
  OBVIOUS
<1>1. TypeOK
  <2>1. packets \in Seq(Packet) /\ channel \in [Runs -> Seq(Packet)]
    BY DEF Init
  <2>2. protocol_counts \in [Protocols -> Nat] /\ time_series \in [Protocols -> Seq(Nat)]
    BY DEF Init
  <2>3. /\ interface \in [Runs -> Devices \cup {NoDevice}]
        /\ capture \in [Runs -> {"none", "init", "running", "done"}]
        /\ processor \in [Runs -> {"none", "loop", "recv", "parsed", "counted"} \cup Ended]
        /\ held \in [Runs -> Packet \cup {Nothing}]
    BY DEF Init
  <2>4. run \in 0 .. MaxRuns /\ captured \in 0 .. MaxPackets /\ selected \in Nat \cup {NoIndex}
    BY DEF Init
  <2> QED
    BY <2>1, <2>2, <2>3, <2>4 DEF Init, TypeOK, GuiAt
<1>2. HeldOK /\ InterfaceOK
  BY DEF Init, HeldOK, InterfaceOK
<1> QED
  BY <1>1, <1>2 DEF TypeInv

LEMMA TypeStep == TypeInv /\ [Next]_vars => TypeOK'
<1> USE DEF TypeOK, GuiAt, Ended
<1> SUFFICES ASSUME TypeOK, HeldOK, InterfaceOK, [Next]_vars PROVE TypeOK'
  BY DEF TypeInv
<1>1. ASSUME NEW d \in Devices, ChangeDevice(d) PROVE TypeOK'
  BY <1>1 DEF ChangeDevice, threadVars
<1>2. CASE StartCapture
  <2>1. run + 1 \in Runs /\ run' \in 0 .. MaxRuns /\ device \in Devices
    BY <1>2 DEF StartCapture, Runs
  <2>2. /\ interface' \in [Runs -> Devices \cup {NoDevice}]
        /\ capture' \in [Runs -> {"none", "init", "running", "done"}]
        /\ processor' \in [Runs -> {"none", "loop", "recv", "parsed", "counted"} \cup Ended]
    BY <1>2, <2>1 DEF StartCapture
  <2> QED
    BY <1>2, <2>1, <2>2 DEF StartCapture
<1>3. CASE StopCapture
  BY <1>3 DEF StopCapture, threadVars
<1>4. CASE ClearPackets
  BY <1>4 DEF ClearPackets, guiVars, threadVars
<1>5. ASSUME NEW filter \in Filters, ApplyFilter(filter) PROVE TypeOK'
  BY <1>5 DEF ApplyFilter, Matching, threadVars, sharedVars
<1>6. CASE ClearFilter
  BY <1>6 DEF ClearFilter, threadVars, sharedVars
<1>7. CASE Repaint \/ JoinCapture \/ JoinProcessor \/ DrawTable \/ Panic
  BY <1>7 DEF Repaint, JoinCapture, JoinProcessor, DrawTable, Panic,
              guiVars, threadVars, sharedVars
<1>8. CASE ClearCounts
  BY <1>8 DEF ClearCounts, threadVars
<1>9. CASE ClickRow
  BY <1>9 DEF ClickRow, threadVars, sharedVars
<1>10. CASE Sample
  <2>1. ASSUME NEW p \in Protocols
        PROVE Kept(Append(time_series[p], protocol_counts[p])) \in Seq(Nat)
    <3> DEFINE s == Append(time_series[p], protocol_counts[p])
    <3>0. time_series[p] \in Seq(Nat) /\ protocol_counts[p] \in Nat
      OBVIOUS
    <3>1. s \in Seq(Nat) /\ s # << >>
      BY ONLY <3>0
    <3>2. Tail(s) \in Seq(Nat)
      BY <3>1
    <3> QED
      BY <3>1, <3>2 DEF Kept
  <2>2. time_series' \in [Protocols -> Seq(Nat)]
    BY <1>10, <2>1 DEF Sample
  <2> QED
    BY <1>10, <2>2 DEF Sample, threadVars, sharedVars
<1>11. ASSUME NEW g \in Runs, InitCapture(g) \/ SendFails(g) \/ CaptureError(g)
       PROVE TypeOK'
  <2>1. \E c \in {"running", "done"} : capture' = [capture EXCEPT ![g] = c]
    BY <1>11 DEF InitCapture, SendFails, CaptureError
  <2>2. capture' \in [Runs -> {"none", "init", "running", "done"}]
    BY <2>1
  <2>3. UNCHANGED <<gui, guiVars, sharedVars, processor, channel, held, captured>>
    BY <1>11 DEF InitCapture, SendFails, CaptureError
  <2> QED
    BY <2>2, <2>3 DEF guiVars, sharedVars
<1>12. ASSUME NEW g \in Runs, NEW kind \in Kinds, SendPacket(g, kind) PROVE TypeOK'
  <2>1. [id |-> captured + 1, kind |-> kind, device |-> interface[g]] \in Packet
    <3>1. interface[g] \in Devices
      BY <1>12 DEF SendPacket, InterfaceOK
    <3> QED
      BY <1>12, <3>1 DEF SendPacket, Packet
  <2>2. channel' \in [Runs -> Seq(Packet)] /\ captured' \in 0 .. MaxPackets
    BY <1>12, <2>1 DEF SendPacket
  <2> QED
    BY <1>12, <2>2 DEF SendPacket, guiVars, sharedVars
<1>13. ASSUME NEW g \in Runs, CheckRunning(g) \/ Receive(g) PROVE TypeOK'
  <2>1. channel[g] # << >> => Head(channel[g]) \in Packet /\ Tail(channel[g]) \in Seq(Packet)
    OBVIOUS
  <2>2. channel' \in [Runs -> Seq(Packet)]
    <3>1. \/ channel' = [channel EXCEPT ![g] = << >>]
          \/ channel[g] # << >> /\ channel' = [channel EXCEPT ![g] = Tail(@)]
          \/ UNCHANGED channel
      BY <1>13 DEF CheckRunning, Receive
    <3>2. channel \in [Runs -> Seq(Packet)] /\ g \in Runs
      OBVIOUS
    <3>3. << >> \in Seq(Packet)
      OBVIOUS
    <3>4. \/ \E s \in Seq(Packet) : channel' = [channel EXCEPT ![g] = s]
          \/ channel' = channel
      BY ONLY <2>1, <3>1, <3>2, <3>3
    <3> QED
      BY ONLY <3>2, <3>4
  <2>3. processor' \in [Runs -> {"none", "loop", "recv", "parsed", "counted"} \cup Ended]
    <3>1. \E p \in {"loop", "recv", "parsed"} \cup Ended :
            processor' = [processor EXCEPT ![g] = p]
      BY <1>13 DEF CheckRunning, Receive, Ended
    <3>2. processor \in [Runs -> {"none", "loop", "recv", "parsed", "counted"} \cup Ended]
      OBVIOUS
    <3> QED
      BY ONLY <3>1, <3>2
  <2>4. held' \in [Runs -> Packet \cup {Nothing}]
    BY <1>13, <2>1 DEF CheckRunning, Receive
  <2>5. UNCHANGED <<gui, guiVars, sharedVars, capture, captured>>
    BY <1>13 DEF CheckRunning, Receive
  <2> QED
    BY <2>2, <2>3, <2>4, <2>5 DEF guiVars, sharedVars
<1>14. ASSUME NEW g \in Runs, Count(g) PROVE TypeOK'
  BY <1>14 DEF Count, guiVars
<1>15. ASSUME NEW g \in Runs, Push(g) PROVE TypeOK'
  <2>1. held[g] \in Packet
    BY <1>15 DEF Push, HeldOK
  <2>2. packets' \in Seq(Packet)
    BY <1>15, <2>1 DEF Push
  <2> QED
    BY <1>15, <2>2 DEF Push, guiVars
<1>16. CASE UNCHANGED vars
  BY <1>16 DEF vars, guiVars, threadVars, sharedVars
<1> QED
  BY <1>1, <1>2, <1>3, <1>4, <1>5, <1>6, <1>7, <1>8, <1>9, <1>10, <1>11, <1>12, <1>13,
     <1>14, <1>15, <1>16 DEF Next, ClickControl, FinishFrame, Capture, Process

\* The controls of the GUI other than Start and Stop do not touch the threads.
Elsewhere == UNCHANGED <<run, interface, threadVars>>

LEMMA StepOfThreads ==
  [Next]_vars =>
    \/ Elsewhere /\ is_running' = is_running
    \/ StopCapture
    \/ StartCapture
    \/ \E g \in Runs : Capture(g)
    \/ \E g \in Runs : CheckRunning(g) \/ Receive(g) \/ Count(g) \/ Push(g)
<1> SUFFICES ASSUME [Next]_vars PROVE
      \/ Elsewhere /\ is_running' = is_running
      \/ StopCapture \/ StartCapture
      \/ \E g \in Runs : Capture(g)
      \/ \E g \in Runs : CheckRunning(g) \/ Receive(g) \/ Count(g) \/ Push(g)
  OBVIOUS
<1>1. CASE (\E d \in Devices : ChangeDevice(d)) \/ ClearPackets \/ ClearFilter
           \/ \E filter \in Filters : ApplyFilter(filter)
  BY <1>1 DEF ChangeDevice, ClearPackets, ClearFilter, ApplyFilter, Elsewhere,
              guiVars, sharedVars
<1>2. CASE FinishFrame \/ Repaint \/ Sample \/ UNCHANGED vars
  BY <1>2 DEF FinishFrame, Repaint, Sample, JoinCapture, JoinProcessor, ClearCounts,
              DrawTable, ClickRow, Panic, Elsewhere, vars, guiVars, sharedVars
<1> QED
  BY <1>1, <1>2 DEF Next, ClickControl, Process

LEMMA HeldStep == TypeInv /\ [Next]_vars => HeldOK' /\ InterfaceOK'
<1> USE DEF HeldOK, InterfaceOK
<1> SUFFICES ASSUME TypeInv, [Next]_vars PROVE HeldOK' /\ InterfaceOK'
  OBVIOUS
<1>0. /\ HeldOK /\ InterfaceOK
      /\ run \in Nat /\ Runs \subseteq Nat /\ device \in Devices \cup {NoDevice}
      /\ DOMAIN processor = Runs /\ DOMAIN held = Runs
      /\ DOMAIN capture = Runs /\ DOMAIN interface = Runs
      /\ channel \in [Runs -> Seq(Packet)]
  BY DEF TypeInv, TypeOK, Runs
<1>1. CASE Elsewhere \/ StopCapture
  BY <1>0, <1>1 DEF Elsewhere, StopCapture, threadVars
<1>2. CASE StartCapture
  BY <1>0, <1>2 DEF StartCapture
<1>3. ASSUME NEW g \in Runs, Capture(g) PROVE HeldOK' /\ InterfaceOK'
  BY <1>0, <1>3 DEF Capture, InitCapture, SendPacket, SendFails, CaptureError, guiVars
<1>4. ASSUME NEW g \in Runs, CheckRunning(g) PROVE HeldOK' /\ InterfaceOK'
  BY <1>0, <1>4 DEF CheckRunning, guiVars
<1>5. ASSUME NEW g \in Runs, Receive(g) PROVE HeldOK' /\ InterfaceOK'
  <2>1. channel[g] # << >> => Head(channel[g]) \in Packet
    BY <1>0
  <2> QED
    BY <1>0, <1>5, <2>1 DEF Receive, guiVars
<1>6. ASSUME NEW g \in Runs, Count(g) \/ Push(g) PROVE HeldOK' /\ InterfaceOK'
  BY <1>0, <1>6 DEF Count, Push, guiVars
<1> QED
  BY <1>1, <1>2, <1>3, <1>4, <1>5, <1>6, StepOfThreads

LEMMA InvStep == TypeInv /\ [Next]_vars => TypeInv'
  BY TypeStep, HeldStep DEF TypeInv

\* The program is well typed for every set of devices, filters and packets.
THEOREM TypeCorrect == Spec => []TypeOK
<1>1. Spec => []TypeInv
  BY TypeInit, InvStep, PTL DEF Spec
<1> QED
  BY <1>1, PTL DEF TypeInv

--------------------------------------------------------------------------------
(***************************************************************************)
(* The threads of a capture live from its Start to its Stop.               *)
(***************************************************************************)
IsOver(g) == capture[g] \in {"none", "done"} /\ processor[g] \in {"none"} \cup Ended

ThreadsOK ==
  /\ is_capturing => run > 0 /\ gui \notin {"joinCapture", "joinProcessor"}
  /\ gui \in {"joinCapture", "joinProcessor"} => run > 0
  /\ gui = "joinProcessor" => capture[run] = "done"
  /\ \A g \in Runs : g # run => IsOver(g)
  /\ ~ is_capturing /\ gui \notin {"joinCapture", "joinProcessor"} =>
       \A g \in Runs : IsOver(g)
  /\ \A g \in Runs : processor[g] = "none" => capture[g] = "none"
  \* What a processor that has ended left in its channel is dropped.
  /\ \A g \in Runs : processor[g] \in {"none"} \cup Ended => channel[g] = << >>

LEMMA ThreadsInit == Init => ThreadsOK
  BY DEF Init, ThreadsOK, IsOver, Ended, Runs

LEMMA ThreadsStep == TypeInv /\ ThreadsOK /\ [Next]_vars => ThreadsOK'
<1> USE DEF ThreadsOK, IsOver, Ended
<1> SUFFICES ASSUME TypeInv, ThreadsOK, [Next]_vars PROVE ThreadsOK'
  OBVIOUS
<1>0. /\ run \in 0 .. MaxRuns /\ is_capturing \in BOOLEAN
      /\ capture \in [Runs -> {"none", "init", "running", "done"}]
      /\ processor \in [Runs -> {"none", "loop", "recv", "parsed", "counted", "done", "panicked"}]
      /\ channel \in [Runs -> Seq(Packet)]
  BY DEF TypeInv, TypeOK
<1>1. ASSUME NEW d \in Devices, ChangeDevice(d) PROVE ThreadsOK'
  BY <1>0, <1>1 DEF ChangeDevice, threadVars
<1>2. CASE StartCapture
  BY <1>0, <1>2 DEF StartCapture, Runs
<1>3. CASE StopCapture
  BY <1>0, <1>3 DEF StopCapture, threadVars
<1>4. CASE ClearPackets \/ ClearFilter \/ \E filter \in Filters : ApplyFilter(filter)
  BY <1>0, <1>4 DEF ClearPackets, ClearFilter, ApplyFilter, guiVars, threadVars, sharedVars
<1>5. CASE Repaint \/ DrawTable \/ Panic \/ ClearCounts \/ ClickRow \/ Sample
  BY <1>0, <1>5 DEF Repaint, DrawTable, Panic, ClearCounts, ClickRow, Sample,
                    guiVars, threadVars, sharedVars
<1>6. CASE JoinCapture
  BY <1>0, <1>6 DEF JoinCapture, guiVars, threadVars, sharedVars
<1>7. CASE JoinProcessor
  BY <1>0, <1>7 DEF JoinProcessor, guiVars, threadVars, sharedVars, Runs
<1>8. ASSUME NEW g \in Runs, Capture(g) PROVE ThreadsOK'
  <2>1. CASE InitCapture(g)
    BY <1>0, <2>1 DEF InitCapture, guiVars, sharedVars
  <2>2. CASE SendFails(g) \/ CaptureError(g)
    BY <1>0, <2>2 DEF SendFails, CaptureError, guiVars, sharedVars
  <2>3. ASSUME NEW kind \in Kinds, SendPacket(g, kind) PROVE ThreadsOK'
    BY <1>0, <2>3 DEF SendPacket, guiVars, sharedVars
  <2> QED
    BY <1>8, <2>1, <2>2, <2>3 DEF Capture
<1>9. ASSUME NEW g \in Runs, CheckRunning(g) PROVE ThreadsOK'
  BY <1>0, <1>9 DEF CheckRunning, guiVars, sharedVars
<1>10. ASSUME NEW g \in Runs, Receive(g) PROVE ThreadsOK'
  BY <1>0, <1>10 DEF Receive, guiVars, sharedVars
<1>11. ASSUME NEW g \in Runs, Count(g) \/ Push(g) PROVE ThreadsOK'
  BY <1>0, <1>11 DEF Count, Push, guiVars
<1>12. CASE UNCHANGED vars
  BY <1>12 DEF vars, guiVars, threadVars, sharedVars
<1> QED
  BY <1>1, <1>2, <1>3, <1>4, <1>5, <1>6, <1>7, <1>8, <1>9, <1>10, <1>11, <1>12
     DEF Next, ClickControl, FinishFrame, Process

\* Between Stop and the next Start no thread of an earlier capture is left, however
\* many captures there are.
THEOREM ThreadsEnd == Spec => []StopEndsThreads
<1>1. TypeInv /\ ThreadsOK => StopEndsThreads
  BY DEF TypeInv, TypeOK, ThreadsOK, IsOver, StopEndsThreads, Ended
<1>2. Init => TypeInv /\ ThreadsOK
  BY TypeInit, ThreadsInit
<1>3. TypeInv /\ ThreadsOK /\ [Next]_vars => (TypeInv /\ ThreadsOK)'
  BY InvStep, ThreadsStep
<1> QED
  BY <1>1, <1>2, <1>3, PTL DEF Spec

--------------------------------------------------------------------------------
(***************************************************************************)
(* The list.                                                               *)
(***************************************************************************)
Holds(g) == processor[g] \in {"parsed", "counted"}

\* What is on its way to the list comes from the capture started last.
LEMMA OnlyTheLast ==
  ASSUME TypeInv, ThreadsOK, NEW g \in Runs,
         g # run \/ (~ is_capturing /\ gui \notin {"joinCapture", "joinProcessor"})
  PROVE  channel[g] = << >> /\ ~ Holds(g) /\ capture[g] \in {"none", "done"}
  BY DEF TypeInv, TypeOK, ThreadsOK, IsOver, Holds, Ended

\* Packets are numbered upwards from the list over the processor's hands to the
\* end of the channel.
OrderOK ==
  /\ ListInCaptureOrder
  /\ \A i \in DOMAIN packets : packets[i].id <= captured
  /\ \A g \in Runs : \A i \in DOMAIN channel[g] :
       /\ channel[g][i].id <= captured
       /\ \A j \in DOMAIN packets : packets[j].id < channel[g][i].id
       /\ \A j \in DOMAIN channel[g] : i < j => channel[g][i].id < channel[g][j].id
  /\ \A g \in Runs : Holds(g) =>
       /\ held[g].id <= captured
       /\ \A j \in DOMAIN packets : packets[j].id < held[g].id
       /\ \A i \in DOMAIN channel[g] : held[g].id < channel[g][i].id

\* Of the steps of the GUI only two concern the list, and they empty it.
LEMMA GuiStepOfList ==
  ASSUME [Next]_vars,
         ~ \E g \in Runs : Capture(g) \/ Process(g)
  PROVE  /\ UNCHANGED <<channel, held, captured>>
         /\ packets' = packets \/ packets' = << >>
         /\ UNCHANGED processor \/ processor' = [processor EXCEPT ![run + 1] = "loop"]
<1>1. CASE ClickControl
  BY <1>1 DEF ClickControl, ChangeDevice, StartCapture, StopCapture, ClearPackets,
              ApplyFilter, ClearFilter, guiVars, threadVars, sharedVars
<1>2. CASE FinishFrame \/ Repaint \/ Sample \/ UNCHANGED vars
  BY <1>2 DEF FinishFrame, Repaint, Sample, JoinCapture, JoinProcessor, ClearCounts,
              DrawTable, ClickRow, Panic, vars, guiVars, threadVars, sharedVars
<1> QED
  BY <1>1, <1>2 DEF Next

LEMMA OrderStep == TypeInv /\ ThreadsOK /\ OrderOK /\ [Next]_vars => OrderOK'
<1> USE DEF OrderOK, Holds, ListInCaptureOrder
<1> SUFFICES ASSUME TypeInv, ThreadsOK, OrderOK, [Next]_vars PROVE OrderOK'
  OBVIOUS
<1>0. /\ packets \in Seq(Packet) /\ channel \in [Runs -> Seq(Packet)]
      /\ DOMAIN processor = Runs /\ DOMAIN held = Runs /\ captured \in Nat
      /\ \A g \in Runs : Holds(g) => held[g] \in Packet
      /\ \A q \in Packet : q.id \in Nat
  <2>1. /\ packets \in Seq(Packet) /\ channel \in [Runs -> Seq(Packet)]
        /\ DOMAIN processor = Runs /\ DOMAIN held = Runs /\ captured \in Nat
    BY DEF TypeInv, TypeOK
  <2>2. \A g \in Runs : Holds(g) => held[g] \in Packet
    BY DEF TypeInv, HeldOK
  <2>3. \A q \in Packet : q.id \in Nat
    BY DEF Packet
  <2> QED
    BY <2>1, <2>2, <2>3
<1>1. CASE ~ \E g \in Runs : Capture(g) \/ Process(g)
  <2>1. \A g \in Runs : Holds(g)' => Holds(g)
    <3>1. DOMAIN processor = Runs
      BY <1>0
    <3>2. UNCHANGED processor \/ processor' = [processor EXCEPT ![run + 1] = "loop"]
      BY <1>1, GuiStepOfList
    <3> QED
      BY ONLY <3>1, <3>2 DEF Holds
  <2>2. /\ UNCHANGED <<channel, held, captured>>
        /\ packets' = packets \/ packets' = << >>
    BY <1>1, GuiStepOfList
  <2>3. CASE packets' = packets
    BY <2>1, <2>2, <2>3
  <2>4. CASE packets' = << >>
    <3>1. DOMAIN packets' = {}
      BY <2>4
    <3> QED
      BY <2>1, <2>2, <3>1
  <2> QED
    BY <2>2, <2>3, <2>4
<1>2. ASSUME NEW g \in Runs, InitCapture(g) \/ SendFails(g) \/ CaptureError(g)
      PROVE OrderOK'
  BY <1>0, <1>2 DEF InitCapture, SendFails, CaptureError, guiVars, sharedVars
<1>3. ASSUME NEW g \in Runs, NEW kind \in Kinds, SendPacket(g, kind) PROVE OrderOK'
  <2> DEFINE new == [id |-> captured + 1, kind |-> kind, device |-> interface[g]]
  <2>1. /\ channel' = [channel EXCEPT ![g] = Append(channel[g], new)]
        /\ captured' = captured + 1
        /\ UNCHANGED <<packets, processor, held>>
    BY <1>3 DEF SendPacket, guiVars, sharedVars
  <2>2. new.id = captured + 1
    OBVIOUS
  <2> HIDE DEF new
  <2>3. /\ Len(channel'[g]) = Len(channel[g]) + 1
        /\ \A i \in DOMAIN channel[g] : channel'[g][i] = channel[g][i]
        /\ channel'[g][Len(channel[g]) + 1] = new
        /\ DOMAIN channel'[g] = DOMAIN channel[g] \cup {Len(channel[g]) + 1}
        /\ \A i \in DOMAIN channel[g] : i < Len(channel[g]) + 1 /\ i \in Nat
    BY <1>0, <2>1
  <2>4. \A h \in Runs : h # g => channel'[h] = channel[h]
    BY <1>0, <2>1
  <2>5. \A i \in DOMAIN packets : packets[i].id \in Nat
    BY <1>0
  <2>6. \A h \in Runs : Holds(h) => held[h].id \in Nat
    BY <1>0
  <2>7. \A i \in DOMAIN channel[g] : channel[g][i].id \in Nat
    BY <1>0
  <2> QED
    BY <1>0, <2>1, <2>2, <2>3, <2>4, <2>5, <2>6, <2>7, SMTT(30)
<1>4. ASSUME NEW g \in Runs, CheckRunning(g) \/ Count(g) PROVE OrderOK'
  <2>1. \A h \in Runs : Holds(h)' => Holds(h)
    BY <1>0, <1>4 DEF CheckRunning, Count
  <2>2. /\ UNCHANGED <<held, captured, packets>>
        /\ channel' = channel \/ channel' = [channel EXCEPT ![g] = << >>]
    BY <1>4 DEF CheckRunning, Count, sharedVars
  <2>3. \A h \in Runs : channel'[h] = channel[h] \/ DOMAIN channel'[h] = {}
    BY <1>0, <2>2
  <2> QED
    BY <2>1, <2>2, <2>3
<1>5. ASSUME NEW g \in Runs, Receive(g) PROVE OrderOK'
  <2>1. CASE UNCHANGED channel
    BY <1>0, <1>5, <2>1 DEF Receive, guiVars, sharedVars
  <2>2. CASE channel[g] # << >> /\ ~ UNCHANGED channel
    <3>1. /\ Head(channel[g]) = channel[g][1] /\ 1 \in DOMAIN channel[g]
          /\ DOMAIN Tail(channel[g]) = 1 .. Len(channel[g]) - 1
          /\ \A i \in DOMAIN Tail(channel[g]) :
               Tail(channel[g])[i] = channel[g][i + 1] /\ i + 1 \in DOMAIN channel[g] /\ 1 < i + 1
      BY <1>0, <2>2
    <3>2. /\ channel'[g] = Tail(channel[g]) \/ channel'[g] = << >>
          /\ \A h \in Runs : h # g => channel'[h] = channel[h]
          /\ UNCHANGED <<packets, captured>>
      BY <1>0, <1>5, <2>2 DEF Receive, sharedVars
    <3>3. /\ \A h \in Runs : h # g => processor'[h] = processor[h] /\ held'[h] = held[h]
          /\ processor'[g] \in {"parsed", "counted"} =>
               held'[g] = Head(channel[g]) /\ channel'[g] = Tail(channel[g])
      BY <1>0, <1>5, <2>2 DEF Receive
    <3>4. ASSUME NEW h \in Runs, NEW i \in DOMAIN channel'[h]
          PROVE  \E k \in DOMAIN channel[h] :
                   /\ channel'[h][i] = channel[h][k]
                   /\ h = g => k = i + 1 /\ channel'[g] = Tail(channel[g])
                   /\ h # g => k = i
      <4>1. channel'[g] = << >> => DOMAIN channel'[g] = {}
        OBVIOUS
      <4>2. CASE h = g
        BY <3>1, <3>2, <4>1, <4>2
      <4>3. CASE h # g
        BY <3>2, <4>3
      <4> QED
        BY <4>2, <4>3
    <3>5. ASSUME NEW h \in Runs, NEW i \in DOMAIN channel'[h]
          PROVE  /\ channel'[h][i].id <= captured'
                 /\ \A j \in DOMAIN packets' : packets'[j].id < channel'[h][i].id
      BY <3>2, <3>4
    <3>6. ASSUME NEW h \in Runs, NEW i \in DOMAIN channel'[h], NEW j \in DOMAIN channel'[h], i < j
          PROVE  channel'[h][i].id < channel'[h][j].id
      <4>1. CASE h # g
        BY <3>2, <3>6, <4>1
      <4>2. CASE h = g
        <5>1. channel'[g] = Tail(channel[g])
          BY <3>4, <3>6, <4>2
        <5>2. i + 1 < j + 1
          BY <3>1, <3>6, <4>2, <5>1
        <5> QED
          BY <3>1, <4>2, <5>1, <5>2
      <4> QED
        BY <4>1, <4>2
    <3>7. ASSUME NEW h \in Runs, Holds(h)', h # g
          PROVE  /\ held'[h].id <= captured'
                 /\ \A j \in DOMAIN packets' : packets'[j].id < held'[h].id
                 /\ \A i \in DOMAIN channel'[h] : held'[h].id < channel'[h][i].id
      BY <3>2, <3>3, <3>7
    <3>8. ASSUME Holds(g)'
          PROVE  /\ held'[g].id <= captured'
                 /\ \A j \in DOMAIN packets' : packets'[j].id < held'[g].id
                 /\ \A i \in DOMAIN channel'[g] : held'[g].id < channel'[g][i].id
      <4>1. held'[g] = channel[g][1] /\ channel'[g] = Tail(channel[g])
        BY <3>1, <3>3, <3>8
      <4>2. ASSUME NEW i \in DOMAIN channel'[g] PROVE held'[g].id < channel'[g][i].id
        BY <3>1, <4>1
      <4> QED
        BY <3>1, <3>2, <4>1, <4>2
    <3> QED
      BY <3>2, <3>5, <3>6, <3>7, <3>8
  <2> QED
    BY <1>5, <2>1, <2>2 DEF Receive
<1>6. ASSUME NEW g \in Runs, Push(g) PROVE OrderOK'
  <2>1. g = run /\ Holds(g) /\ \A h \in Runs : h # g => channel[h] = << >> /\ ~ Holds(h)
    BY <1>6, OnlyTheLast DEF Push
  <2>2. /\ packets' = Append(packets, held[g]) /\ UNCHANGED <<channel, captured>>
        /\ processor' = [processor EXCEPT ![g] = "loop"]
    BY <1>6 DEF Push
  <2>3. /\ \A i \in DOMAIN packets : packets'[i] = packets[i]
        /\ packets'[Len(packets) + 1] = held[g]
        /\ DOMAIN packets' = DOMAIN packets \cup {Len(packets) + 1}
        /\ \A i \in DOMAIN packets : i < Len(packets) + 1 /\ i \in Nat
    BY <1>0, <2>1, <2>2
  <2> QED
    BY <1>0, <2>1, <2>2, <2>3
<1> QED
  BY <1>1, <1>2, <1>3, <1>4, <1>5, <1>6 DEF Capture, Process

\* The list is in the order of capture, however captures, clears and failed parses
\* alternate.
THEOREM ListInOrder == Spec => []ListInCaptureOrder
<1>1. Init => TypeInv /\ ThreadsOK /\ OrderOK
  BY TypeInit, ThreadsInit DEF Init, OrderOK, ListInCaptureOrder, Holds
<1>2. TypeInv /\ ThreadsOK /\ OrderOK /\ [Next]_vars => (TypeInv /\ ThreadsOK /\ OrderOK)'
  BY InvStep, ThreadsStep, OrderStep
<1> QED
  BY <1>1, <1>2, PTL DEF Spec, OrderOK

--------------------------------------------------------------------------------
(***************************************************************************)
(* The list, the filter and the device, as long as the device is not       *)
(* changed under a capture or a filter.                                    *)
(***************************************************************************)
\* The packets on their way are from the selected device as well.
DeviceOK ==
  ~ switched =>
    /\ ListedFromSelectedDevice
    /\ \A g \in Runs :
         /\ capture[g] \in {"init", "running"} => interface[g] = device
         /\ Holds(g) => held[g].device = device
         /\ \A i \in DOMAIN channel[g] : channel[g][i].device = device

\* Between its two locks Clear leaves rows of an emptied list behind.
RowsOK ==
  ~ switched /\ active_filter # NoFilter /\ gui # "clearing" =>
    \A i \in filtered_packets : i \in DOMAIN packets /\ packets[i].kind \in active_filter

LEMMA DeviceStep == TypeInv /\ ThreadsOK /\ DeviceOK /\ [Next]_vars => DeviceOK'
<1> USE DEF DeviceOK, Holds, ListedFromSelectedDevice
<1> SUFFICES ASSUME TypeInv, ThreadsOK, DeviceOK, [Next]_vars, ~ switched' PROVE DeviceOK'
  OBVIOUS
<1>0. /\ packets \in Seq(Packet) /\ channel \in [Runs -> Seq(Packet)]
      /\ DOMAIN processor = Runs /\ DOMAIN held = Runs
      /\ DOMAIN capture = Runs /\ DOMAIN interface = Runs
  BY DEF TypeInv, TypeOK
<1>1. ASSUME NEW d \in Devices, ChangeDevice(d) PROVE DeviceOK'
  <2>1. /\ ~ is_capturing /\ gui = "controls" /\ packets' = << >>
        /\ UNCHANGED <<capture, processor, channel, held, interface>>
    BY <1>1 DEF ChangeDevice, threadVars
  <2>2. ASSUME NEW g \in Runs
        PROVE  channel[g] = << >> /\ ~ Holds(g) /\ capture[g] \in {"none", "done"}
    BY <2>1, OnlyTheLast
  <2>3. DOMAIN packets' = {} /\ \A g \in Runs : DOMAIN channel'[g] = {}
    BY <2>1, <2>2
  <2> QED
    BY <2>1, <2>2, <2>3
<1>2. CASE StartCapture
  BY <1>0, <1>2 DEF StartCapture
<1>3. CASE ClearPackets
  <2>1. DOMAIN packets' = {}
    BY <1>3 DEF ClearPackets
  <2> QED
    BY <1>3, <2>1 DEF ClearPackets, guiVars, threadVars
<1>4. CASE StopCapture \/ ClearFilter \/ \E filter \in Filters : ApplyFilter(filter)
  BY <1>4 DEF StopCapture, ClearFilter, ApplyFilter, threadVars, sharedVars
<1>5. CASE FinishFrame \/ Repaint \/ Sample \/ UNCHANGED vars
  BY <1>5 DEF FinishFrame, Repaint, Sample, JoinCapture, JoinProcessor, ClearCounts,
              DrawTable, ClickRow, Panic, vars, guiVars, threadVars, sharedVars
<1>6. ASSUME NEW g \in Runs, InitCapture(g) \/ SendFails(g) \/ CaptureError(g)
      PROVE DeviceOK'
  BY <1>0, <1>6 DEF InitCapture, SendFails, CaptureError, guiVars, sharedVars
<1>7. ASSUME NEW g \in Runs, NEW kind \in Kinds, SendPacket(g, kind) PROVE DeviceOK'
  <2> DEFINE new == [id |-> captured + 1, kind |-> kind, device |-> interface[g]]
  <2>1. /\ channel' = [channel EXCEPT ![g] = Append(channel[g], new)]
        /\ UNCHANGED <<packets, processor, held, capture, interface, device, switched>>
    BY <1>7 DEF SendPacket, guiVars, sharedVars
  <2>2. new.device = device
    BY <1>7, <2>1 DEF SendPacket
  <2> HIDE DEF new
  <2>3. ASSUME NEW h \in Runs, NEW i \in DOMAIN channel'[h]
        PROVE  channel'[h][i] = new \/ (i \in DOMAIN channel[h] /\ channel'[h][i] = channel[h][i])
    BY <1>0, <2>1
  <2> QED
    BY <2>1, <2>2, <2>3
<1>8. ASSUME NEW g \in Runs, CheckRunning(g) \/ Receive(g) PROVE DeviceOK'
  <2>1. /\ \/ channel' = channel
           \/ channel' = [channel EXCEPT ![g] = << >>]
           \/ channel[g] # << >> /\ channel' = [channel EXCEPT ![g] = Tail(channel[g])]
        /\ UNCHANGED <<packets, capture, interface, device, switched>>
    BY <1>8 DEF CheckRunning, Receive, guiVars, sharedVars
  <2>2. ASSUME NEW h \in Runs, NEW i \in DOMAIN channel'[h]
        PROVE  \E k \in DOMAIN channel[h] : channel'[h][i] = channel[h][k]
    <3>1. DOMAIN << >> = {}
      OBVIOUS
    <3>2. CASE channel'[h] = channel[h]
      BY <3>2
    <3>3. CASE channel'[h] = Tail(channel[h]) /\ channel[h] # << >>
      <4>1. i + 1 \in DOMAIN channel[h] /\ channel'[h][i] = channel[h][i + 1]
        BY <1>0, <3>3
      <4> QED
        BY <4>1
    <3> QED
      BY <1>0, <2>1, <3>1, <3>2, <3>3
  <2>3. ASSUME NEW h \in Runs, Holds(h)'
        PROVE  \/ Holds(h) /\ held'[h] = held[h]
               \/ \E k \in DOMAIN channel[h] : held'[h] = channel[h][k]
    <3>1. channel[g] # << >> => 1 \in DOMAIN channel[g] /\ Head(channel[g]) = channel[g][1]
      BY <1>0
    <3> QED
      BY <1>0, <1>8, <2>3, <3>1 DEF CheckRunning, Receive
  <2> QED
    BY <2>1, <2>2, <2>3
<1>9. ASSUME NEW g \in Runs, Count(g) PROVE DeviceOK'
  BY <1>0, <1>9 DEF Count, guiVars
<1>10. ASSUME NEW g \in Runs, Push(g) PROVE DeviceOK'
  <2>1. /\ packets' = Append(packets, held[g]) /\ Holds(g)
        /\ UNCHANGED <<channel, capture, interface, device, switched>>
        /\ \A h \in Runs : Holds(h)' => Holds(h) /\ held'[h] = held[h]
    BY <1>0, <1>10 DEF Push, guiVars
  <2>2. ASSUME NEW i \in DOMAIN packets'
        PROVE  packets'[i] = held[g] \/ (i \in DOMAIN packets /\ packets'[i] = packets[i])
    BY <1>0, <2>1
  <2> QED
    BY <2>1, <2>2
<1> QED
  BY <1>1, <1>2, <1>3, <1>4, <1>5, <1>6, <1>7, <1>8, <1>9, <1>10
     DEF Next, ClickControl, Capture, Process

LEMMA RowsStep == TypeInv /\ RowsOK /\ [Next]_vars => RowsOK'
<1> USE DEF RowsOK
<1> SUFFICES ASSUME TypeInv, RowsOK, [Next]_vars PROVE RowsOK'
  OBVIOUS
<1>0. packets \in Seq(Packet) /\ gui \in GuiAt
  BY DEF TypeInv, TypeOK
<1>1. ASSUME NEW d \in Devices, ChangeDevice(d) PROVE RowsOK'
  BY <1>1 DEF ChangeDevice
<1>2. CASE StartCapture \/ StopCapture \/ ClearPackets \/ ClearFilter
  BY <1>2 DEF StartCapture, StopCapture, ClearPackets, ClearFilter, guiVars, sharedVars
<1>3. ASSUME NEW filter \in Filters, ApplyFilter(filter) PROVE RowsOK'
  BY <1>3 DEF ApplyFilter, Matching, sharedVars
<1>4. CASE FinishFrame
  BY <1>4 DEF FinishFrame, JoinCapture, JoinProcessor, ClearCounts, DrawTable, ClickRow,
              Panic, guiVars, sharedVars
<1>5. CASE Repaint \/ Sample \/ UNCHANGED vars
  BY <1>5 DEF Repaint, Sample, vars, guiVars, sharedVars
<1>6. ASSUME NEW g \in Runs, Capture(g) PROVE RowsOK'
  <2>1. UNCHANGED <<gui, guiVars, sharedVars>>
    BY <1>6 DEF Capture, InitCapture, SendPacket, SendFails, CaptureError
  <2> QED
    BY <2>1 DEF guiVars, sharedVars
<1>7. ASSUME NEW g \in Runs, CheckRunning(g) \/ Receive(g) \/ Count(g) PROVE RowsOK'
  BY <1>7 DEF CheckRunning, Receive, Count, guiVars, sharedVars
<1>8. ASSUME NEW g \in Runs, Push(g) PROVE RowsOK'
  <2>1. packets' = Append(packets, held[g]) /\ UNCHANGED <<gui, guiVars>>
    BY <1>8 DEF Push
  <2>2. \A i \in DOMAIN packets : i \in DOMAIN packets' /\ packets'[i] = packets[i]
    BY <1>0, <2>1
  <2> QED
    BY <2>1, <2>2 DEF guiVars
<1> QED
  BY <1>1, <1>2, <1>3, <1>4, <1>5, <1>6, <1>7, <1>8 DEF Next, ClickControl, Process

\* With one device throughout, everything listed is from it, across captures.
THEOREM ListedFromDevice == Spec => []ListedFromDeviceUnlessSwitched
<1>1. Init => TypeInv /\ ThreadsOK /\ DeviceOK
  BY TypeInit, ThreadsInit DEF Init, DeviceOK, ListedFromSelectedDevice, Holds
<1>2. TypeInv /\ ThreadsOK /\ DeviceOK /\ [Next]_vars => (TypeInv /\ ThreadsOK /\ DeviceOK)'
  BY InvStep, ThreadsStep, DeviceStep
<1>3. DeviceOK => ListedFromDeviceUnlessSwitched
  BY DEF DeviceOK, ListedFromDeviceUnlessSwitched
<1> QED
  BY <1>1, <1>2, <1>3, PTL DEF Spec

LEMMA RowsAlways == Spec => [](TypeInv /\ RowsOK)
<1>1. Init => TypeInv /\ RowsOK
  BY TypeInit DEF Init, RowsOK
<1>2. TypeInv /\ RowsOK /\ [Next]_vars => (TypeInv /\ RowsOK)'
  BY InvStep, RowsStep
<1> QED
  BY <1>1, <1>2, PTL DEF Spec

\* The rows match the filter although they are indices computed when it was applied.
THEOREM RowsMatch == Spec => []MatchingUnlessSwitched
<1>1. RowsOK => MatchingUnlessSwitched
  BY DEF RowsOK, MatchingUnlessSwitched, ShowsOnlyMatching, Rows
<1> QED
  BY <1>1, RowsAlways, PTL

\* Nothing but a packet that makes the processor panic ends the program.
THEOREM NoPanic == Spec => []NoPanicUnlessSwitched
<1> USE DEF NoPanicUnlessSwitched, Alive
<1> DEFINE Inv == TypeInv /\ ThreadsOK /\ RowsOK /\ NoPanicUnlessSwitched
<1>1. Init => Inv
  BY TypeInit, ThreadsInit DEF Init, RowsOK
<1>2. Inv /\ [Next]_vars => Inv'
  <2> SUFFICES ASSUME Inv, [Next]_vars PROVE NoPanicUnlessSwitched'
    BY InvStep, ThreadsStep, RowsStep
  <2>1. CASE ClickControl \/ Repaint \/ Sample
    BY <2>1 DEF ClickControl, ChangeDevice, StartCapture, StopCapture, ClearPackets,
                ApplyFilter, ClearFilter, Repaint, Sample
  <2>2. CASE JoinCapture \/ ClearCounts \/ DrawTable \/ ClickRow
    BY <2>2 DEF JoinCapture, ClearCounts, DrawTable, ClickRow
  <2>3. CASE JoinProcessor
    BY <2>3 DEF JoinProcessor, ThreadsOK, guiVars, threadVars
  <2>4. CASE Panic
    BY <2>4 DEF Panic, Rows, RowsOK, guiVars
  <2>5. ASSUME NEW g \in Runs, Capture(g) PROVE NoPanicUnlessSwitched'
    BY <2>5 DEF Capture, InitCapture, SendPacket, SendFails, CaptureError
  <2>6. ASSUME NEW g \in Runs, Process(g) PROVE NoPanicUnlessSwitched'
    BY <2>6 DEF Process, CheckRunning, Receive, Count, Push
  <2>7. CASE UNCHANGED vars
    BY <2>7 DEF vars, guiVars, threadVars
  <2> QED
    BY <2>1, <2>2, <2>3, <2>4, <2>5, <2>6, <2>7 DEF Next, FinishFrame
<1> QED
  BY <1>1, <1>2, PTL DEF Spec

--------------------------------------------------------------------------------
(***************************************************************************)
(* The selected row and the statistics.                                    *)
(***************************************************************************)
SelectedOK == selected # NoIndex /\ gui # "clearing" => selected \in DOMAIN packets

\* A step keeps a selection and a prefix of the list, or drops the selection, or is
\* the first lock of Clear.
LEMMA SelectedStep ==
  ASSUME TypeInv, SelectedOK, [Next]_vars
  PROVE  /\ SelectedOK'
         /\ selected' = selected /\ selected # NoIndex /\ gui' # "clearing" =>
              /\ selected \in DOMAIN packets /\ selected \in DOMAIN packets'
              /\ packets'[selected] = packets[selected]
<1> USE DEF SelectedOK
<1> DEFINE Goal == /\ SelectedOK'
                   /\ selected' = selected /\ selected # NoIndex /\ gui' # "clearing" =>
                        /\ selected \in DOMAIN packets /\ selected \in DOMAIN packets'
                        /\ packets'[selected] = packets[selected]
<1>0. packets \in Seq(Packet)
  BY DEF TypeInv, TypeOK
<1>1. CASE ClickControl
  BY <1>1 DEF ClickControl, ChangeDevice, StartCapture, StopCapture, ClearPackets,
              ApplyFilter, ClearFilter, sharedVars
<1>2. CASE FinishFrame
  BY <1>2 DEF FinishFrame, JoinCapture, JoinProcessor, ClearCounts, DrawTable, ClickRow,
              Panic, guiVars, sharedVars
<1>3. CASE Repaint \/ Sample \/ UNCHANGED vars
  BY <1>3 DEF Repaint, Sample, vars, guiVars, sharedVars
<1>4. ASSUME NEW g \in Runs, Capture(g) \/ CheckRunning(g) \/ Receive(g) \/ Count(g)
      PROVE Goal
  <2>1. UNCHANGED <<gui, guiVars, packets>>
    BY <1>4 DEF Capture, InitCapture, SendPacket, SendFails, CaptureError, CheckRunning,
                Receive, Count, sharedVars
  <2> QED
    BY <2>1 DEF guiVars
<1>5. ASSUME NEW g \in Runs, Push(g) PROVE Goal
  <2>1. packets' = Append(packets, held[g]) /\ UNCHANGED <<gui, guiVars>>
    BY <1>5 DEF Push
  <2>2. \A i \in DOMAIN packets : i \in DOMAIN packets' /\ packets'[i] = packets[i]
    BY <1>0, <2>1
  <2> QED
    BY <2>1, <2>2 DEF guiVars
<1> QED
  BY <1>1, <1>2, <1>3, <1>4, <1>5 DEF Next, Process

\* The details shown stay those of the packet that was clicked.
THEOREM SelectionCorrect == Spec => SelectionStable
<1>1. Init => TypeInv /\ SelectedOK
  BY TypeInit DEF Init, SelectedOK
<1>2. TypeInv /\ SelectedOK /\ [Next]_vars => (TypeInv /\ SelectedOK)'
  BY InvStep, SelectedStep
<1>3. TypeInv /\ SelectedOK /\ [Next]_vars =>
        [selected' = selected /\ selected # NoIndex /\ gui' # "clearing" =>
           /\ selected \in DOMAIN packets /\ selected \in DOMAIN packets'
           /\ packets'[selected] = packets[selected]]_vars
  BY SelectedStep
<1> QED
  BY <1>1, <1>2, <1>3, PTL DEF Spec, SelectionStable

\* CurvesRise, of one series and its count.
Rises(s, count) ==
  /\ \A i \in 1 .. Len(s) - 1 : s[i] <= s[i + 1]
  /\ Len(s) > 0 => s[Len(s)] <= count

LEMMA RisesToCount ==
  ASSUME NEW s \in Seq(Nat), NEW count \in Nat
  PROVE  Rises(s, count) <=>
           \A i \in 1 .. Len(s \o <<count>>) - 1 : (s \o <<count>>)[i] <= (s \o <<count>>)[i + 1]
<1> DEFINE whole == s \o <<count>>
<1>1. /\ Len(whole) = Len(s) + 1 /\ Len(s) \in Nat
      /\ \A i \in 1 .. Len(s) : whole[i] = s[i]
      /\ whole[Len(s) + 1] = count
  OBVIOUS
<1> HIDE DEF whole
<1>2. ASSUME Rises(s, count), NEW i \in 1 .. Len(whole) - 1 PROVE whole[i] <= whole[i + 1]
  BY <1>1, <1>2 DEF Rises
<1>3. ASSUME \A i \in 1 .. Len(whole) - 1 : whole[i] <= whole[i + 1] PROVE Rises(s, count)
  <2>1. ASSUME NEW i \in 1 .. Len(s) - 1 PROVE s[i] <= s[i + 1]
    <3>1. i \in 1 .. Len(whole) - 1 /\ i \in 1 .. Len(s) /\ i + 1 \in 1 .. Len(s)
      BY <1>1
    <3> QED
      BY <1>1, <1>3, <3>1
  <2>2. ASSUME Len(s) > 0 PROVE s[Len(s)] <= count
    <3>1. Len(s) \in 1 .. Len(whole) - 1 /\ Len(s) \in 1 .. Len(s)
      BY <1>1, <2>2
    <3> QED
      BY <1>1, <1>3, <3>1
  <2> QED
    BY <2>1, <2>2 DEF Rises
<1> QED
  BY <1>2, <1>3 DEF whole

LEMMA SampleRises ==
  ASSUME NEW s \in Seq(Nat), NEW count \in Nat, Rises(s, count)
  PROVE  Rises(Kept(Append(s, count)), count)
<1> DEFINE t == Append(s, count)
<1>1. /\ t \in Seq(Nat) /\ Len(t) = Len(s) + 1 /\ Len(s) \in Nat
      /\ \A i \in 1 .. Len(s) : t[i] = s[i]
      /\ t[Len(t)] = count
  OBVIOUS
<1> HIDE DEF t
<1>2. Rises(t, count)
  <2>1. ASSUME NEW i \in 1 .. Len(t) - 1 PROVE t[i] <= t[i + 1]
    <3>1. CASE i = Len(s)
      <4>1. Len(s) \in 1 .. Len(s) /\ Len(s) > 0 /\ i + 1 = Len(t)
        BY <1>1, <3>1
      <4>2. t[i] = s[Len(s)]
        BY <1>1, <3>1, <4>1
      <4> QED
        BY <1>1, <4>1, <4>2 DEF Rises
    <3>2. CASE i # Len(s)
      <4>1. i \in 1 .. Len(s) - 1 /\ i \in 1 .. Len(s) /\ i + 1 \in 1 .. Len(s)
        BY <1>1, <3>2
      <4> QED
        BY <1>1, <4>1 DEF Rises
    <3> QED
      BY <3>1, <3>2
  <2> QED
    BY <1>1, <2>1 DEF Rises
<1>3. /\ Len(Tail(t)) = Len(t) - 1
      /\ \A i \in 1 .. Len(t) - 1 : Tail(t)[i] = t[i + 1]
  BY <1>1
<1>4. Rises(Tail(t), count)
  <2>1. ASSUME NEW i \in 1 .. Len(Tail(t)) - 1 PROVE Tail(t)[i] <= Tail(t)[i + 1]
    <3>1. i \in 1 .. Len(t) - 1 /\ i + 1 \in 1 .. Len(t) - 1
      BY <1>1, <1>3
    <3> QED
      BY <1>2, <1>3, <3>1 DEF Rises
  <2>2. ASSUME Len(Tail(t)) > 0 PROVE Tail(t)[Len(Tail(t))] <= count
    <3>1. Len(t) - 1 \in 1 .. Len(t) - 1 /\ Len(t) - 1 + 1 = Len(t)
      BY <1>1, <1>3, <2>2
    <3> QED
      BY <1>1, <1>3, <3>1
  <2> QED
    BY <2>1, <2>2 DEF Rises
<1> QED
  BY <1>2, <1>4 DEF Kept, t

SeriesOK == \A p \in Protocols : Rises(time_series[p], protocol_counts[p])

\* No curve of the statistics tab ever falls or passes its count.
THEOREM CurvesCorrect == Spec => []CurvesRise
<1>1. Init => TypeInv /\ SeriesOK
  BY TypeInit DEF Init, SeriesOK, Rises
<1>2. TypeInv /\ SeriesOK /\ [Next]_vars => (TypeInv /\ SeriesOK)'
  <2> SUFFICES ASSUME TypeInv, SeriesOK, [Next]_vars PROVE SeriesOK'
    BY InvStep
  <2>0. protocol_counts \in [Protocols -> Nat] /\ time_series \in [Protocols -> Seq(Nat)]
    BY DEF TypeInv, TypeOK
  <2>1. CASE UNCHANGED <<protocol_counts, time_series>>
    BY <2>1 DEF SeriesOK
  <2>2. CASE ClearCounts
    BY <2>2 DEF ClearCounts, SeriesOK, Rises
  <2>3. CASE Sample
    BY <2>0, <2>3, SampleRises DEF Sample, SeriesOK, sharedVars
  <2>4. ASSUME NEW g \in Runs, Count(g) PROVE SeriesOK'
    <3>1. \A p \in Protocols : /\ protocol_counts'[p] \in Nat
                               /\ protocol_counts[p] <= protocol_counts'[p]
      BY <2>0, <2>4 DEF Count
    <3>2. time_series' = time_series
      BY <2>4 DEF Count, guiVars
    <3>3. ASSUME NEW p \in Protocols PROVE Rises(time_series[p], protocol_counts'[p])
      <4>1. Rises(time_series[p], protocol_counts[p])
        BY DEF SeriesOK
      <4>2. Len(time_series[p]) > 0 => time_series[p][Len(time_series[p])] \in Nat
        BY <2>0
      <4> QED
        BY <2>0, <3>1, <4>1, <4>2 DEF Rises
    <3> QED
      BY <3>2, <3>3 DEF SeriesOK
  <2>5. CASE ClickControl \/ Repaint \/ UNCHANGED vars
    BY <2>1, <2>5 DEF ClickControl, ChangeDevice, StartCapture, StopCapture, ClearPackets,
                ApplyFilter, ClearFilter, Repaint, vars, guiVars, sharedVars
  <2>6. CASE JoinCapture \/ JoinProcessor \/ DrawTable \/ ClickRow \/ Panic
    BY <2>1, <2>6 DEF JoinCapture, JoinProcessor, DrawTable, ClickRow, Panic, guiVars, sharedVars
  <2>7. ASSUME NEW g \in Runs, Capture(g) \/ CheckRunning(g) \/ Receive(g) \/ Push(g)
        PROVE SeriesOK'
    <3>1. UNCHANGED <<protocol_counts, time_series>>
      BY <2>7 DEF Capture, InitCapture, SendPacket, SendFails, CaptureError, CheckRunning,
                  Receive, Push, guiVars, sharedVars
    <3> QED
      BY <2>1, <3>1
  <2> QED
    BY <2>2, <2>3, <2>4, <2>5, <2>6, <2>7 DEF Next, FinishFrame, Process
<1>3. TypeInv /\ SeriesOK => CurvesRise
  BY RisesToCount DEF TypeInv, TypeOK, SeriesOK, CurvesRise
<1> QED
  BY <1>1, <1>2, <1>3, PTL DEF Spec
--------------------------------------------------------------------------------
(***************************************************************************)
(* The counts cover the list: what Push adds to the list it takes from the *)
(* packets that have been counted.                                         *)
(***************************************************************************)
LEMMA CoverFinite ==
  ASSUME TypeOK, NEW p
  PROVE  /\ IsFiniteSet(Listed(p)) /\ Cardinality(Listed(p)) \in Nat
         /\ IsFiniteSet(Arriving(p)) /\ Cardinality(Arriving(p)) \in Nat
<1>1. packets \in Seq(Packet) /\ Listed(p) \subseteq 1 .. Len(packets) /\ Len(packets) \in Nat
  BY DEF TypeOK, Listed
<1>2. Arriving(p) \subseteq 1 .. MaxRuns
  BY DEF Arriving, Runs
<1>3. IsFiniteSet(1 .. Len(packets)) /\ IsFiniteSet(1 .. MaxRuns)
  BY <1>1, FS_Interval
<1>4. IsFiniteSet(Listed(p)) /\ IsFiniteSet(Arriving(p))
  BY <1>1, <1>2, <1>3, FS_Subset
<1> QED
  BY <1>4, FS_CardinalityType

\* Only Count and Push change which packets are counted and on their way.
LEMMA StepOfCover ==
  ASSUME TypeInv, Next, gui # "clearing"
  PROVE  \/ /\ packets' \in {packets, << >>} /\ protocol_counts' = protocol_counts
            /\ \A p \in Protocols : Arriving(p)' = Arriving(p)
         \/ \E g \in Runs : Count(g) \/ Push(g)
<1> DEFINE Still == \A p \in Protocols : Arriving(p)' = Arriving(p)
           Untouched == packets' \in {packets, << >>} /\ protocol_counts' = protocol_counts
<1>0. ASSUME UNCHANGED <<processor, held>> PROVE Still
  BY <1>0 DEF Arriving
<1>1. CASE ClickControl \/ Repaint \/ Sample
  <2>1. Untouched
    BY <1>1 DEF ClickControl, ChangeDevice, StartCapture, StopCapture, ClearPackets,
                ApplyFilter, ClearFilter, Repaint, Sample, sharedVars
  <2>2. CASE StartCapture
    <3>1. /\ run + 1 \in Runs /\ processor[run + 1] = "none" /\ held' = held
          /\ processor' = [processor EXCEPT ![run + 1] = "loop"]
          /\ processor \in [Runs -> {"none", "loop", "recv", "parsed", "counted"} \cup Ended]
      BY <2>2 DEF StartCapture, TypeInv, TypeOK, HeldOK, Runs
    <3>2. \A g \in Runs : processor'[g] = "counted" <=> processor[g] = "counted"
      BY <3>1
    <3>3. Still
      BY <3>1, <3>2 DEF Arriving
    <3> QED
      BY <2>1, <3>3
  <2>3. CASE ~ StartCapture
    <3>1. UNCHANGED <<processor, held>>
      BY <1>1, <2>3 DEF ClickControl, ChangeDevice, StopCapture, ClearPackets, ApplyFilter,
                  ClearFilter, Repaint, Sample, threadVars
    <3> QED
      BY <1>0, <2>1, <3>1
  <2> QED
    BY <2>2, <2>3
<1>2. CASE FinishFrame
  <2>1. UNCHANGED <<processor, held, packets, protocol_counts>>
    BY <1>2 DEF FinishFrame, JoinCapture, JoinProcessor, ClearCounts, DrawTable, ClickRow,
                Panic, threadVars, sharedVars
  <2> QED
    BY <1>0, <2>1
<1>3. ASSUME NEW g \in Runs, Capture(g) PROVE Untouched /\ Still
  <2>1. UNCHANGED <<processor, held, packets, protocol_counts>>
    BY <1>3 DEF Capture, InitCapture, SendPacket, SendFails, CaptureError, sharedVars
  <2> QED
    BY <1>0, <2>1
<1>4. ASSUME NEW g \in Runs, CheckRunning(g) \/ Receive(g) PROVE Untouched /\ Still
  <2>1. UNCHANGED <<packets, protocol_counts>>
    BY <1>4 DEF CheckRunning, Receive, sharedVars
  <2>2. /\ processor[g] # "counted"
        /\ \E at \in {"loop", "recv", "done", "parsed", "panicked"} :
             processor' = [processor EXCEPT ![g] = at]
        /\ held' = held \/ \E h : held' = [held EXCEPT ![g] = h]
    BY <1>4 DEF CheckRunning, Receive
  <2>3. processor \in [Runs -> {"none", "loop", "recv", "parsed", "counted"} \cup Ended]
        /\ held \in [Runs -> Packet \cup {Nothing}]
    BY DEF TypeInv, TypeOK
  <2>4. \A r \in Runs : r # g => processor'[r] = processor[r] /\ held'[r] = held[r]
    BY ONLY <2>2, <2>3
  <2>5. processor'[g] # "counted"
    BY ONLY <2>2, <2>3
  <2>6. ASSUME NEW p \in Protocols PROVE Arriving(p)' = Arriving(p)
    BY <2>2, <2>4, <2>5 DEF Arriving
  <2> QED
    BY <2>1, <2>6
<1> QED
  BY <1>1, <1>2, <1>3, <1>4 DEF Next, Process

LEMMA CoverStep ==
  ASSUME TypeInv, Next, gui # "clearing", Covered
  PROVE  Covered'
<1> USE DEF Covered
<1>0. TypeOK /\ TypeOK'
  BY InvStep DEF TypeInv
<1>1. CASE /\ packets' \in {packets, << >>} /\ protocol_counts' = protocol_counts
           /\ \A p \in Protocols : Arriving(p)' = Arriving(p)
  <2> SUFFICES ASSUME NEW p \in Protocols
               PROVE  Cardinality(Listed(p)') + Cardinality(Arriving(p)') <= protocol_counts'[p]
    OBVIOUS
  <2>0. Listed(p)' \subseteq Listed(p)
    BY <1>1 DEF Listed
  <2>1. IsFiniteSet(Listed(p)') /\ Cardinality(Listed(p)') <= Cardinality(Listed(p))
    BY <1>0, <2>0, CoverFinite, FS_Subset
  <2>2. Cardinality(Listed(p)') \in Nat
    BY <2>1, FS_CardinalityType
  <2>3. protocol_counts[p] \in Nat
    BY <1>0 DEF TypeOK
  <2> QED
    BY <1>0, <1>1, <2>1, <2>2, <2>3, CoverFinite
<1>2. ASSUME NEW g \in Runs, Count(g) PROVE Covered'
  <2> SUFFICES ASSUME NEW p \in Protocols
               PROVE  Cardinality(Listed(p)') + Cardinality(Arriving(p)') <= protocol_counts'[p]
    OBVIOUS
  <2>1. Listed(p)' = Listed(p)
    BY <1>2 DEF Count, Listed
  <2>2. /\ processor[g] = "parsed" /\ held' = held
        /\ processor' = [processor EXCEPT ![g] = "counted"]
        /\ processor \in [Runs -> {"none", "loop", "recv", "parsed", "counted"} \cup Ended]
    BY <1>0, <1>2 DEF Count, TypeOK
  <2>3. g \notin Arriving(p)
    BY <2>2 DEF Arriving
  <2>4. protocol_counts[p] \in Nat
    BY <1>0 DEF TypeOK
  <2>5. CASE p \in ProtocolsOf[held[g].kind]
    <3>1. Arriving(p)' = Arriving(p) \cup {g}
      BY <2>2, <2>5 DEF Arriving
    <3>2. protocol_counts'[p] = protocol_counts[p] + 1
      BY <1>2, <2>5 DEF Count
    <3>3. Cardinality(Arriving(p)') = Cardinality(Arriving(p)) + 1
      BY <1>0, <2>3, <3>1, CoverFinite, FS_AddElement
    <3> QED
      BY <1>0, <2>1, <2>4, <3>2, <3>3, CoverFinite
  <2>6. CASE p \notin ProtocolsOf[held[g].kind]
    <3>1. Arriving(p)' = Arriving(p)
      BY <2>2, <2>6 DEF Arriving
    <3>2. protocol_counts'[p] = protocol_counts[p]
      BY <1>2, <2>4, <2>6 DEF Count
    <3> QED
      BY <2>1, <3>1, <3>2
  <2> QED
    BY <2>5, <2>6
<1>3. ASSUME NEW g \in Runs, Push(g) PROVE Covered'
  <2> SUFFICES ASSUME NEW p \in Protocols
               PROVE  Cardinality(Listed(p)') + Cardinality(Arriving(p)') <= protocol_counts'[p]
    OBVIOUS
  <2>1. /\ processor[g] = "counted" /\ protocol_counts' = protocol_counts
        /\ packets' = Append(packets, held[g]) /\ packets \in Seq(Packet) /\ held[g] \in Packet
        /\ processor' = [processor EXCEPT ![g] = "loop"]
        /\ held' = [held EXCEPT ![g] = Nothing]
        /\ processor \in [Runs -> {"none", "loop", "recv", "parsed", "counted"} \cup Ended]
        /\ held \in [Runs -> Packet \cup {Nothing}]
    BY <1>0, <1>3 DEF Push, TypeOK, TypeInv, HeldOK
  <2>2. Arriving(p)' = Arriving(p) \ {g}
    BY <2>1 DEF Arriving
  <2>3. /\ DOMAIN packets' = DOMAIN packets \cup {Len(packets) + 1}
        /\ Len(packets) + 1 \notin DOMAIN packets
        /\ packets'[Len(packets) + 1] = held[g]
        /\ \A i \in DOMAIN packets : packets'[i] = packets[i]
    BY <2>1
  <2>4. CASE p \in ProtocolsOf[held[g].kind]
    <3>1. Listed(p)' = Listed(p) \cup {Len(packets) + 1} /\ Len(packets) + 1 \notin Listed(p)
      BY <2>3, <2>4 DEF Listed
    <3>2. g \in Arriving(p)
      BY <2>1, <2>4 DEF Arriving
    <3>3. Cardinality(Listed(p)') = Cardinality(Listed(p)) + 1
      BY <1>0, <3>1, CoverFinite, FS_AddElement
    <3>4. Cardinality(Arriving(p)') = Cardinality(Arriving(p)) - 1
      BY <1>0, <2>2, <3>2, CoverFinite, FS_RemoveElement
    <3> QED
      BY <1>0, <2>1, <3>3, <3>4, CoverFinite
  <2>5. CASE p \notin ProtocolsOf[held[g].kind]
    <3>1. Listed(p)' = Listed(p)
      BY <2>3, <2>5 DEF Listed
    <3>2. Arriving(p)' = Arriving(p)
      BY <2>2, <2>5 DEF Arriving
    <3> QED
      BY <2>1, <3>1, <3>2
  <2> QED
    BY <2>4, <2>5
<1> QED
  BY <1>1, <1>2, <1>3, StepOfCover

\* The statistics count every packet in the list, whatever the processor and the
\* controls do: only the second lock of Clear can leave them behind.
THEOREM CountsCover == Spec => CountsCoverList
<1>1. TypeInv /\ [Next]_vars => [gui # "clearing" /\ Covered => Covered']_vars
  BY CoverStep
<1> QED
  BY <1>1, TypeInit, InvStep, PTL DEF Spec, CountsCoverList

\* The list and its rows are right, unless the user changes the device.
THEOREM ListRight == Spec => []ListRightUnlessSwitched
  BY ListInOrder, ListedFromDevice, RowsMatch, NoPanic, PTL DEF ListRightUnlessSwitched
================================================================================
