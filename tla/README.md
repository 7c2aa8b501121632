# Verification of the MTU scheduling code

The repository is a copy of the network simulator ns-3 with one experiment built
into it: every flow gets a packet size (MTU) chosen from its size and its path,
and a priority chosen from its size; devices keep one queue per priority; flows
are started by a generator over a data centre, a wide area network, or a mixture
of the two. The experiment lives in `src/src/mtu` and `src/scratch` and changes a
few lines of the point-to-point device and of the TCP socket. This directory
holds TLA+ models of that code and of the parts of ns-3 it leans on, the TLC runs
that check them, and proofs for TLAPS.

Paths below are relative to the repository; `mtu/` stands for `src/src/mtu/`.
`PROJECT.json` maps every definition to the lines it stands for.

## 1. Inventory

| component | state | operations | talks to |
|---|---|---|---|
| **MultiQueue** `mtu/model/multi-queue.cc` | `m_queues`, `m_weight`, counters of the base class | `SetNumPriority`, `Enqueue`, `Dequeue`, `Peek`, `Remove` | owned by a device; reads the `PriorityTag` of a packet |
| **MtuNetDevice** `mtu/model/mtu-net-device.cc` over `PointToPointNetDevice` and `PointToPointChannel` | `m_txMachineState`, `m_currentPkt`, packets on the wire (scheduled `Receive` events) | `Send` (random loss), `TransmitStart`, `TransmitComplete`, `Receive` | its queue, the channel, the device at the other end, the node above |
| **MtuBulkSendApplication** `mtu/model/mtu-bulksend-application.cc` | `m_connected`, `m_totBytes`, `m_priority`, `m_segmentSize`, `m_socket` | `StartApplication`, `SendData`, the socket's callbacks, `StopApplication`, `updateMTUandPriInDc/Wan` | one TCP socket (calls and callbacks); MtuDecision; gen_priority |
| **TCP socket, sending half** `src/src/internet/model/tcp-socket-base.cc`, `tcp-tx-buffer.cc`, `tcp-cubic.cc` | `m_state`, `m_closeOnEmpty`, sequence numbers, window, segment size, retransmission timer; the scoreboard: items in flight with their marks, and the counters beside them | `Send`, `Close`, `SendPendingData`, `SendDataPacket` (with the repository's call of `FindBestMtu`), `ReceivedAck`, `ProcessAck`, `DupAck`, `EnterRecovery`, `NewAck`, `ReTxTimeout` | the application, the device below, MtuDecision |
| **TCP connection** `tcp-socket-base.cc`, `tcp-rx-buffer.cc`, `tcp-l4-protocol.cc` | `m_state` of both ends, their timers and retry counts, the receiving buffer, the end points | `DoConnect`, `ProcessListen`, `ProcessSynSent` ... `ProcessLastAck`, `PeerClose`, `DoPeerClose`, `TimeWait`, the timeouts | the two applications, the network |
| **MtuDecision** `mtu/utils/mtu-decision.cc` | `array_mtu` | `FindBestMtu`, `FindBestMtuInDC/WAN/Mix`, `ComputeFCT` | called by the socket, the application and the helper |
| **MtuNetHelper** `mtu/helper/mtu-net-helper.cc` | the loop's port, flow number and start time | `InstallAllApplicationsInDC/WAN/Mix`, `InstallMtuNetDevices`, ... | creates applications, devices, queues |
| **MtuUtility** `mtu/utils/mtu-utility.cc` | the CDF of flow sizes, `rand()` | `gen_priority`, `gen_random`, `gen_random_cdf`, `poission_gen_interval` | everybody |
| **PriorityTag** `mtu/model/priority-tag.cc` | one integer per packet | set by the application, read by the queue | |
| **PacketSink** `src/src/applications/model/packet-sink.cc` | the listening end point | start (bind, listen), stop | TcpL4Protocol |
| **Simulator** `src/src/core/model/default-simulator-impl.cc` | the event list | `ProcessOneEvent`, `Stop` | runs everybody |
| **FlowMonitor** `src/src/flow-monitor/model/flow-monitor.cc`, `ipv4-flow-probe.cc`, `ipv4-flow-classifier.cc` | statistics per flow, the tracked packets | `ReportFirstTx`, `ReportForwarding`, `ReportLastRx`, `ReportDrop`, `CheckForLostPackets` | the probes of every node; the file `xml_parser.py` reads |
| **Scenarios** `src/scratch/mtu_*.cc`, **scripts** `src/script` | none of their own | set up, run, write the file; average the completion times | everybody |
| traffic control, the rest of ns-3 | | | not modelled, see section 7 |

There are no threads: an event runs to its end before the next one. What makes
the code hard is that one logical operation is spread over many events, whose
order the code does not control:

- *Interleaving of events.* A device is driven by `Send` from above and by
  `TransmitComplete` from the event list; each of the two starts the next packet
  only in one state of the transmitter. Acknowledgements, a retransmission timer,
  the one-second update and `StopApplication` all reach one socket.
- *Order at equal times.* Starts, stops, SYNs and the end of the simulation fall
  on the same instants (a sender and its sink start together; applications stop
  when the simulation does), and the age of an event decides.
- *State that changes under a computation.* `SendDataPacket` replaces the segment
  size in the middle of the loop that fills the window; `Peek` and `Dequeue`
  choose by different rules; `Close` compares the buffer with a sequence number
  that a retransmission moves back.
- *Two ends.* Opening and closing are a conversation of two sockets, whose FIN,
  data and acknowledgements overtake one another (acknowledgements have a queue of
  their own), are repeated by timers that may run out too early, and arrive at a
  socket in a later state or at none.
- *Two things that happen to one packet.* The monitor takes a packet for lost when
  it has been silent for ten seconds, and it may still arrive, or be dropped.
- *Loss.* A device drops packets by chance and an error model drops them at the
  receiver; TCP retransmits, and gives up after a number of retries.
- *Limits.* 16-bit ports, `int` parameters fed with 64-bit differences, integer
  division where a fraction of a second is meant, a weight vector read past its
  end.

What makes each component correct:

- *MultiQueue*: FIFO per priority, every packet in the queue of its tag, queue 0
  first, a packet to return whenever it holds one, and (what its header promises)
  weighted service of the others.
- *Device*: no packet is stranded behind an idle transmitter, none is reordered
  within its priority, duplicated or lost except by chance or by the error model.
- *Bulk send*: never asleep while the buffer has room, nothing handed over after a
  close, the FIN behind the last byte, and every flow comes to an end.
- *TCP sender*: never silent with data left and no timer; the counters of the
  scoreboard are the sums over it; what counts as sacked has been received; what is
  sent again starts at the first byte that is missing; a segment size that changes
  on the way does not stop the flow.
- *TCP connection*: what a FIN promises has been delivered, a flow is one
  connection, nobody resets a connection that works, and neither end waits for ever.
- *MtuDecision*: the estimate is the time of the transmission it stands for, and
  the loop returns the best MTU, the first one of several.
- *MtuNetHelper*: ports are unique, no sink fails to bind, no SYN meets a closed
  port, and whether anybody is stopped is what the scenario means.
- *FlowMonitor*: every packet sent is accounted for once, silence is noticed in
  time, and the completion times the plots show cover the delays they are made of.

## 2. Modules

| module | models | variables and actions |
|---|---|---|
| `MultiQueueOps` | the queue discipline as operators on a vector of queues: `QueueOf` (Enqueue's choice), `Servable` (Dequeue), `Peeked` (Peek) | none |
| `MultiQueue` | one queue, any order of `Enqueue` and `Dequeue` | `queues` is `m_queues`; two history variables hold what went in and out |
| `PriorityLink` | abstract specification: what a link promises per direction and priority | `Accept`, `Refuse`, `Deliver`, `Corrupt` |
| `MtuNetDevice` | two devices, the queue of each (`MultiQueueOps`), and the channel | `SendLost`/`SendTaken` are the two ways through `Send`; `TransmitComplete`; `Receive`; `NextSecond` is the wall clock `Send` seeds from |
| `MtuBulkSend` | the application over buffer, close and FIN of its socket | `StartApplication`, `SynAck`, `SynFails`, `Transmit`, `Ack`, `Retransmit`, `GiveUp`, `StopApplication`, `UpdateMTUandPri` |
| `TcpTxBuffer` | the transmission buffer as a data structure: items with the marks of the scoreboard, counters, one operator per function; a failing assertion is noted and the counters go on | none |
| `TcpRecovery` | loss recovery: sender with `TcpTxBuffer`, window and segment size, the sink with its list of selective acknowledgements, and the network between | `snd`, `rcv`, `data` (a bag: segments overtake), `acks` (a sequence); `Send`, `AckArrives`, `Timeout`, `GiveUp`, `DataArrives`, `DelAckTimeout`, `Lose` |
| `TcpConnection` | both ends of a connection: one operator per function of the socket, from a socket and a segment to the socket after it | `sock`, `net`, `listening`, and the `scenario` of the run; `Deliver`, `Lose`, one action per timer, `SendPending`, `SinkStop` |
| `MtuDecision` | the estimate as operators, and the loop over `array_mtu` | `Start`, `Compare` |
| `FlowInstaller` | installation of the flows, then the events it leaves | `InstallFlow`, `NextServer`, `RunSimulator`, `ProcessOneEvent` with one case per event |
| `FlowMonitor` | the monitor, its probes, the network between them, the last check of the scenario and the completion time of the parser | `SendOutgoing`, `ReportForwarding`, `ReportLastRx`, `LastRxUnknown`, `ReportDrop`, `Lose`, `PeriodicCheckForLostPackets`, `Tick`, `SerializeToXmlFile` |
| `MC...` | values of constants for TLC | |
| `..._proofs` | theorems and lemmas | |

`MtuNetDevice` composes the queue with the transmitter and the channel by using
the operators of `MultiQueueOps`, as the device calls its queue. Its refinement
of `PriorityLink` takes as `pending` the packets of one class on the wire followed
by those in its queue: a step of the transmitter moves a packet from one to the
other and is a stutter of the link.

`MtuBulkSend` and `TcpRecovery` are two views of the same socket. The first keeps
the control of the connection and of the buffer and leaves the window a constant;
the second keeps the window, the segment size and the scoreboard, and starts with a
full buffer. They meet where the first says (`PumpNeverStalls`) that the buffer is
filled as far as it can be. `TcpRecovery` composes the socket with `TcpTxBuffer` as
the socket calls its buffer, and with the part of `TcpRxBuffer` that answers: the
acknowledgements a sender acts on are those a sink can have sent. `TcpConnection` is the third view and the only one with the states of
both ends: it keeps the state machine, the receiving buffer, every timer and both limits
of retries, and shrinks the flow to one or two segments. An operator of it has the
name of the function it stands for (`ProcessWait` is `Waited`, what the segment
does, then `FinComplete`, whether the FIN of the peer is complete); what it sends
is collected in `out` and put on the network by the action, `Becomes`.

A definition under a comment "Faulty form" is a plausible mistake in the one that
follows it. It is never part of `Next`; it exists so that each property can be
seen to fail when the code is wrong (the mutants of `PROJECT.json`).

### Abstractions

- **Floating point.** The weighted draw of `Dequeue` compares one random number
  with accumulated weights. The reading past the end of `m_weight` makes the last
  ones arbitrary, so every threshold is allowed: the model keeps which positions the loop
  can stop at, including that it tests `m_queues[position]` and that it falls
  through to the last position. `MtuDecision` counts time in bytes on the wire,
  which makes the estimate exact in integers.
- **Time** is not measured, except in `FlowInstaller`, where it orders events.
  In `MtuNetDevice` the wire is a queue, because transmissions of a device do not
  overlap and the delay of the channel is one constant.
- **Data.** A packet is a model value with a tag and a sender; bytes of a flow
  are numbers.
- **The network of a TCP flow** reorders segments with data, whose priorities change,
  and keeps acknowledgements in order, which carry no tag. What it may lose, and
  how many timeouts may come early, is the `scenario` of a run of `TcpRecovery`.
- **The network of the monitor** does to a packet what the four reports can tell,
  and one thing none of them tells: `MtuNetDevice::Send` loses it.
- **Time of the monitor** is counted in ticks, and the check that is due runs before
  time passes on.
- **A segment of data** has length 1 in `TcpConnection`. With at most two segments
  in a flow, fast retransmission (three duplicates) cannot begin, and a selective
  acknowledgement can only name the second segment, which the cumulative
  acknowledgement of the first then covers; so neither is in the model, and the
  assumption of the module says so.

## 3. Runs

| run | instance | what it shows |
|---|---|---|
| `multi_queue` | seven packets: no tag, each priority, a tag beyond the last queue | per-queue FIFO; a non-empty queue always returns a packet (`NeverStuck`) |
| `multi_queue_weights` | the same | **violation** of `EveryWeightCounts`, what the header says of the weights |
| `device` | device *a* loses by chance and sends four packets, device *b* sends one to a receiver with an error model | no lost wakeup; priorities hold on the wire; every accepted packet gets out; the pair implements `PriorityLink` |
| `bulk_send` | flows of 0 (without end), 4 (the buffer) and 7 units; buffer 4, chunks of 2, window 3, two retries | the pump, the FIN, the priorities of chunks, the update that comes too late, the end of every flow |
| `bulk_send_close` | a flow of 6 | **violation** of `CloseHappens` |
| `tcp_recovery` | five bytes, segment sizes 1 and 2 that change in the flow; a window of five with one loss or one early timeout and a change, or two losses; a window of one with two changes, or with four losses, more than there are retries | the counters of the scoreboard; what counts as sacked is there (`SackedIsReceived`); losses are marked from the head; no assertion fails but the one of `MergeItems`, and that only when the size changes; never silent; a reliable network never makes the sender give up; every flow ends |
| `tcp_recovery_merge` | a window of five, no loss, no early timeout, one change | **violation** of `MergesAgree` |
| `tcp_connection` | flows of one and of two segments; a patient network that loses two segments, fewer than there are retries, or three; one whose timers run out at any time; a sink that stops at any time, with one loss | a FIN or its acknowledgement means that everything was delivered (`FinishedMeansDelivered`); one connection, every byte at most once; a client can hang in FIN_WAIT_2 only; resets only after giving up; the flow is delivered or given up (`DeliveredOrGivenUp`), and delivered as long as fewer segments are lost than there are retries (`DeliveredInTheEnd`) |
| `mtu_decision` | the six MTUs of the constructor at 1 Gbps, flows on both sides of every boundary, four callers | the loop returns the first of the best; the closed formula is the transmission counted round by round (`MatchesRounds`) |
| `mtu_decision_dc` | the same | **violation** of `DcRttAsDocumented` |
| `flow_installer` | two servers, two destinations, three ports, times 0 to 3; a `Simulator::Stop` at the time of the applications' stop, as in the scenarios, or later; sinks that start with the simulation or with their flow | ports; no refused SYN; who is stopped (`StoppedByAge`): nobody when the Stop is older, everybody when it is later |
| `flow_monitor` | one connection: two packets of data and one answer; a loss after two ticks of silence, a check every two ticks, an end between two checks | every packet accounted for (`Conserved`), never twice in two ways (`NeverBoth`), silence noticed in time, completion times |

### Bounds and why they are enough

- *Queues*: three queues are the code's (`pri_number` 3). The two weighted queues
  are the smallest number at which position and index differ and at which one can
  starve the other. Two packets of each priority show order; the theorems below
  remove the bound.
- *Device*: a packet of each priority and two of the last give every state of the
  transmitter with something and with nothing behind it; two directions show that
  devices do not share state. `Draws = {0, 1}` is a draw below and one not below the
  loss rate.
- *Bulk send*: one chunk more than a buffer, and a chunk that is not full (7 = 3*2 + 1)
  are enough for the pump to stop and resume with room for less than a chunk; the
  thresholds 3 and 6 put the three priorities within one flow; `IntBits = 4` makes
  the wrap-around of a flow without end happen; `Horizon` bounds what such a flow
  sends and is not in the code.
- *Recovery*: five segments are one more than the three duplicates that start a fast
  retransmission need, with one to spare for a gap of two; sizes 1 and 2 make
  items that split and items that join; `DataRetries = 3`. `Unbounded` is the
  initial threshold, above every window of the run. The scenarios bound the losses, early
  timeouts and changes; each of the hazards needs one or two of them.
- *Connection*: `SynRetries = DataRetries = 3`: with two losses, which reach every
  combination of a segment and the answer to it, a retry is always left, and
  `DeliveredInTheEnd` promises delivery; with three the last one may be used up. `Capacity = 3` segments on the way to one end, the most a flow of two
  segments needs; what exceeds it is lost, which only repetitions by early timers
  cause. `DelAckMax = 2` is the code's. Early
  timers lose nothing by themselves but fill the network beyond `Capacity`, so that
  scenario needs no loss of its own.
- *Installer*: more flows are drawn than there are ports, so the loop ends by
  either of its conditions; times include intervals of 0 and starts at the last
  moment. `PortBits = 3` keeps the ports in sight of the wrap-around that the
  assumption excludes.
- *Monitor*: two packets of one flow are enough for one to be late while the other is
  not; delay and period are equal, so silence can last from one to two of them. The
  theorems remove the bounds.
- *MtuDecision*: the values of the code itself; only the flow sizes are a
  selection, one byte on either side of each place where a branch or a rounding of
  the estimate changes.

`CHECK_DEADLOCK FALSE` stands only where the program may stop: all packets sent,
the run over, the flow acknowledged, the call answered.

### Fairness

- `MtuNetDevice`: weak fairness of `TransmitComplete` and `Receive` per device:
  both are events in the simulator's list, which it executes as long as it runs.
  Nothing makes an application send, and the wall clock need not advance.
- `MtuBulkSend`: the SYN is answered or its timer ends; with nothing in flight
  the scheduled `SendPendingData` runs; the retransmission timer fires. There is no
  fairness on `Ack`: the network promises none, and `FlowEnds` allows the socket
  to give up instead.
- `TcpRecovery`: the scheduled `SendPendingData`, the timers and the delayed
  acknowledgement are events of the simulator's list, and what the network does not
  lose it delivers. `Lose` has no fairness. A timer that is not early waits until
  nothing is on its way.
- `TcpConnection`: every scheduled event of either end runs, and the network delivers
  what it does not lose. Nothing makes a segment be lost, nor the sink stop. In a
  `patient` scenario the long timers wait for an empty network and for the events of
  the current moment (`MayExpire`), which is what a timeout above the round trip time
  means, and the timer of a SYN or SYN|ACK (3 s, doubled each time) does not run out
  before that of data at the other end (some tens of milliseconds in the scenarios;
  `Soonest`). `DeliveredInTheEnd` needs all three: without the last, in a model where
  timers have no length, a SYN|ACK whose acknowledgement was lost could use up its
  retries before the data that would acknowledge it were sent again.
  `DeliveredOrGivenUp` is promised without any of them.
- `FlowInstaller` and `FlowMonitor` have no liveness property and need none.
- `PriorityLink`: a waiting packet comes out or dies.

## 4. Theorems

All hold for every value of the constants that satisfies the named assumptions of
the module, which TLC evaluates in the runs.

**The discipline** (`MultiQueueOps`) has its lemmas in `MultiQueue_proofs` and
`MtuNetDevice_proofs`, which both need them. `PickableNonempty`: while a weighted queue
holds a packet the loop ends at one (the largest backlogged queue is at the last
position; that there is a largest one is `LargestExists`). `FirstNotPickable`: the
first backlogged queue is at position 0, whose test looks at queue 0, which is
empty; and it is not at the last position, because the set has two elements.
`NoneServable`: `Dequeue` returns the null pointer only when every queue is empty.

**`MultiQueue_proofs`.** `TypeCorrect`, `FifoCorrect` (what a queue took is what it
gave followed by what it holds: inductive together with the types),
`InOwnQueueCorrect`, `AckFirstCorrect`, `NeverStuckCorrect`,
`PeekMissesCorrect`. The last three follow from the lemmas above and need no
history.

**`MtuNetDevice_proofs`.** The inductive invariant is `TypeOK /\ NoLostWakeup /\
OwnClass`. The idle case of `NoLostWakeup` needs `NoneServable`: `TransmitComplete` goes
idle when nothing can be served, and this must mean that nothing is queued. `OwnClass` (a packet is in the queue of
its class) is needed for the two properties of the wire: `AckNotOvertakenCorrect`
(what leaves queue 0 is of class 0) and `FirstWaitsForLastCorrect` (the packets
named are in the queues `FirstNotPickable` speaks about, and the device is BUSY
because something is queued). `LinkSafety` is the safety part
of the refinement of `PriorityLink`: each step of the devices is a step of the link or
leaves `pending` as it is. It rests on what `SelectSeq` does to a sequence that gains its last element or loses its
first (`OfClassAppend`, `OfClassTail` and the lemmas before them), and on `OwnClass`: what
leaves queue *c* joins the packets of class *c* on the wire, and no others.

**`MtuDecision_proofs`.** `TypeCorrect`, and `FirstOfTheBestCorrect`: the loop's
invariant is that `bestMTU` is the first minimum among the MTUs compared so far.
Nothing about the estimate is used except that it is a function of call and MTU.
`MatchesRoundsCorrect` compares the closed formula of `ComputeFCT` with the transmission
counted round by round. The two branches with `Log2` find the first round that stops,
because the flow ends in it or the window fills the round trip (`Log2Fact`,
`QuotientFact`, `RoundsFact`). The recursion of the reference has a solution
(`RoundsExist`), and every solution adds up the rounds before that one (`RoundsSum`).
It holds for flows of 0 to `MaxInt - 1` bytes, which the assumption of the module
asks of a call. The inductions over rounds and over powers of two are cases of
`Induction`, which is derived from the least element of a set of numbers.

**`FlowInstaller_proofs`.** The invariant ties the number of a flow to its port
(`flows[k].port = PortStart + k - 1`), says which events are still in the list, and, when
`stopAt = SimEnd`, that every flow's sink is listening or its start is still to
come. The last is the argument of `NoSynRefusedCorrect`: a SYN is younger than every
start of its time. `NoSynRefused` has the premise `stopAt = SimEnd`; all three scenarios
satisfy it (`src/scratch/mtu_datacenter.cc:314`, `mtu_wan.cc:165`, `mtu_mix.cc:415`).
`StoppedByAgeCorrect` needs a second invariant, `Winding`: while the Stop is later than
the applications' stops, these are in the list or have run. The ports do not
wrap because `PortEnd + 1 < 2^PortBits`, which the scenarios' 1100, 3000 and 1001
satisfy.

**`MtuBulkSend_proofs`.** The invariant has four parts beside the types: nothing is handed
over before the connection is there (`Fresh`), the buffer is never overfull
(`InBuffer`), a close that waits has stopped the application and leaves some byte
unsent (`Closing`), and a flow the buffer can hold is handed over at once
(`AtOnce`). `Closing` is what makes `OwnCloseCorrect` true although `CloseHappens` is
not: the close of the application is asked for when bytes have just been added, so
that some byte above `high` will carry the FIN; that of `StopApplication` can come when
everything above `next` has been sent before. `HandedFact` is the arithmetic of the
chunks: what does not fit is less than a chunk.
`PriorityImprovesCorrect` says that what remains of a flow never gets a worse priority;
it has the premise `FitsInt`, that the size of every flow is below `2^(IntBits - 1)`, because the
code passes the 64-bit difference as an `int`, and a flow without end (size 0)
wraps around.

**`FlowMonitor_proofs`.** `Places` says where a packet can be: on its way or at one of its
ends, tracked or counted. It makes `NeverBoth` inductive, and it is why a drop of an
untracked packet (`DropConserved`) can only be that of a packet declared lost.
`Punctual` (the next check is at most a period away, and what the last check left was
seen less than the maximal delay before it) gives `LossesFoundCorrect`; `Completion` (a
flow starts before each of its tracked packets was sent) gives `CompletionCorrect`
with the arithmetic of `Covered`. The counting lemmas rest on the finiteness of the
packets of one flow; the number of flows need not be finite.

**`TcpConnection_proofs`.** For flows of one and two segments (the assumption of the module:
the abstraction is not sound beyond), and any number of retries, delayed
acknowledgements, losses and early timers, and any capacity of the network. A SYN sets
the window in every state, which none of the invariants minds: lemmas about segments
are proved for `Taken`, which leaves that out, and carried over (`ReceiveTaken`). There
are four layers.

`IInv` says of each socket alone what it can be, and of the network what can be on its
way. `SocketsOK`: a socket has read no further than it has received (`read < rxNext`),
acknowledges no more than it has (`Clean`), and keeps only bytes of the flow; the client
waits for the answer to its SYN or is past that for good, and a sink that has not seen
the handshake through has accepted nothing (`Forked`). `NetOK`: no SYN without its ACK is
on its way to the client, and on the way to the sink SYNs come before everything else (they
carry no data, so nothing overtakes them, and the client sends nothing else until it is
answered). `NothingAccepted`: as long as a SYN can come, nothing has been accepted
or read. Without the last two `DeliveredOnce` is not inductive: a late SYN that found
the connection closed would be accepted a second time. `DeliveredOnceCorrect`
follows from `IInv`.

`FinsOK` is what makes `FinishedMeansDeliveredCorrect` inductive. `Sender` (the client): the
buffer ends with the flow, what is left to send is still in it, and a segment with a FIN
comes after the last byte or with it (`FinLast`). `Reader` (the sink): a FIN is known
there only, and `rxNext` is beyond the flow only when all has been read. So an
acknowledgement above `size` that is no reset says `AllRead`. `Receiver` (the sink while it
listens): it sends a FIN only when it has read everything, hence a FIN on its way to the
client, or known to it, says `AllRead` as well. The premise `listening` is the one
of the property.

`TimersOK` is what `OnlyFinWait2HangsCorrect` needs: nobody may be left waiting for a timer
that was stopped. `Armed` (the client) says that unless it is in FIN_WAIT_2 or TIME_WAIT it
has its retransmission timer set, or has just been given the flow and not yet sent
(`Fresh`). That is not inductive by itself. `ReceivedAck` stops the timer when everything sent is
acknowledged, so in CLOSE_WAIT an acknowledgement of the whole flow would disarm a
client that has not sent its FIN. `Shape` says that a client in ESTABLISHED or CLOSE_WAIT has
not sent the last segment (the FIN goes with it), and `LastSent` that what the sink
has of the last segment, or is on its way to it, the client has sent. By `AllRead` of the
second layer an acknowledgement above `size` means the sink has read the flow, so it cannot
reach a client that has not sent it. `Mute` (the sink) says that it never has
data to send.

`ResetsOK` is what `ResetOnlyAfterGivingUpCorrect` needs, as long as the sink listens. An
open socket answers what does not fit its state with a reset, so nothing that does not
fit may arrive. `Caller` (the client) is never told of an error and of a normal end, is
never in CLOSE_WAIT or LAST_ACK, and has received nothing (`rxNext = 1`) before it knows
a FIN; it sends a reset only when it is closed. `Answers` (the sink): waiting for the end of
the handshake it is `Young` (it has sent and received nothing but SYNs), and `Polite` after
it (told of no error, sending acknowledgements and FINs only). On the way to the client
no SYN|ACK follows a FIN (`SynAckFirst`), because segments without data keep their order and
a sink that has not seen the handshake through has no FIN to send; on the way to the sink
an acknowledgement of a client that knows no FIN is that of the SYN, and a reset says
that the client is closed. The layer rests on the others: a FIN on its way to the client says
`AllRead`, so by `LastSent` and `Shape` it finds the client past its own FIN, hence never in
ESTABLISHED; and a client in CLOSING has a FIN, so it gets no SYN|ACK.

TLC finds the four layers invariant on the instance of the run `tcp_connection`.

The steps are proved per function of the socket, in the order of the module: what
each does to a socket that fits (`...Fits`, `...Retains`, `Takes`), to a client (`Goes`,
`GoesOn`) and to a sink that listens (`Stills`, `...Receiver`), to the timers (`Keeps`,
`Stays`, `Lives`), to what the sink has heard (`Hears`) and to what is said to the other
end (`Polite`, `Answers`, `Talks`, `Speaks`), and then per action.

**`TcpRecovery_proofs`.** For any amount of data, any segment sizes and any scenario of
losses, early timeouts and changes of the size. `RecInv` has five parts; the first
four are each what one group of functions keeps.

`Fits` is what every function of the scoreboard keeps (`MergeItemsFits`, `SplitItemsFits`,
`UpdateFits`, `DiscardUpToFits`, ...). `Laid`: the items lie end to end from `first` and,
with the unsent bytes, end at `Data`. `Ordered` is `LostFromTheHead`, `Exclusive` says that
no item is sacked and lost, and `Topped` that from `highest` on the sacked items have no
gap. That is why `Update` may start at `highest`, and, with `first` not being sacked, why
`UpdateLostCount` marks a prefix. `Consistent` is the check on the counters, which
holds until an assertion fails: the assertion of `MergeItems` guards the very
subtraction that goes wrong without it. The counters are sums over the items, `Total`;
that they follow what is merged, split, sacked, marked, discarded and sent is in the
lemmas on sums at the start (`TotalAdd`, `TotalMerge`, `TotalSuffix`, `TotalSteps`).

`SenderFits`: the segments sent lie inside what was sent (`Able`), and outside a recovery
the duplicates are below the threshold and nothing that was sent before the last recovery
is unacknowledged (`Counted`). Without the second, the third duplicate could find a
sender with nothing to retransmit. `Awake` is `NeverSilent` between two events: at the end of an
event the sender may go on, has nothing to wait for, or has its timer running.

`ReceiverFits` (`Taking`): the blocks of the receiver and what it holds are beyond the next byte
it waits for, and every block is received (`UpdateSackListFits`, `AddFits`).

`BothFit` relates them. What is sacked was received, and what was received was sent. Each
acknowledgement on its way (`Coming`) says what is true, and one that was sent
later does not end inside a block of an earlier one (`After`, `OnTheWay`). The last is needed for
`first` not being sacked: the head moves to an acknowledgement that comes
after the blocks that sacked. It is preserved because the acknowledgements keep
their order and the byte the receiver waits for is in no block it has ever sent.

`EvenFits` is about the flows whose segment size never changes, and gives the second half
of `AssertionsHold`. The bytes at which such a flow may be cut are fixed in advance: `Edges`,
the multiples of the size and the end. No assertion has failed and every item is the cell
between two neighbouring edges (`EvenBuffer`), hence so is every segment on its way (`Piece`);
hence of every cell the receiver has all or nothing (`Whole`), waits for an edge, and
acknowledges edges (`EvenAcks`); hence whole items are discarded, and a retransmission takes
the head as it is, without merging or splitting (`CopyEven`, `ResendEven`). The circle
needs the whole loop of both ends and the network, which is why it is part of `RecInv`. That a
segment takes a whole cell (`Takes`) is the guard of `SendPendingData` against silly windows:
less than a segment is sent only when it is all that is left.

**Only model-checked.** Liveness (`EventuallyOut`, the two `FlowEnds`, `DeliveredOrGivenUp`, `DeliveredInTheEnd`)
and the fairness part of `ImplementsLink` are out of the prover's reach. Of
`TcpConnection` only `TypeOK` is left to TLC; its bounds are tighter than those of `IInv`.
Of
`TcpRecovery` it is `BlockedNotDead`, which bounds the retries by what can still be
lost.

**Only proved.** `InOwnQueue`, `AckFirst`, `FirstWaitsForLast`, `PeekMisses`, `BindSucceeds`,
`PumpNeverStalls`, `UpdateComesTooLate`, `OnlyMergesDisagree` and the types of `MtuDecision` are not spent a run on:
the theorems cover every instance.

## 5. What the runs found

1. **Weights do not count** (`multi-queue.cc:162`). The loop tests the queue at
   the *position* in the list of non-empty queues. For the first backlogged queue
   this is queue 0, empty at that point, so with two queues waiting the one with
   weight 0.7 is never served. `mtu-net-device.h:7` announces weighted scheduling.
2. **A forgotten close** (`tcp-socket-base.cc:733`). `Close` defers itself when the
   buffer reaches beyond `m_nextTxSequence`, which a retransmission moves back. When the
   missing acknowledgement then covers everything, no segment is left to carry
   the FIN. Only a `StopApplication` in the middle of a recovery meets it; the
   application's own close does not (`OwnCloseHappens`).
3. **No transmission delay in the data centre** (`mtu-decision.cc:164`). It is
   computed with integers, in seconds, and is 0 at every bandwidth in use; the
   header's formula counts it three times.
4. **An impossible merge** (`tcp-tx-buffer.cc:592`). The segment size that grows in the
   middle of a flow makes the retransmission of the head longer than the head; it
   is joined with its successor, which is not marked lost. The assertion calls this
   impossible; without assertions the counters of the scoreboard are wrong
   for the rest of the flow. Reordering is enough, no packet need be lost. In
   a flow whose size never changes no assertion fails, and in no flow another one
   than this (`AssertionsHoldCorrect`, for every size, amount of data and loss).

More that the models show, without a run of their own:

- *Losses are not independent* (`mtu-net-device.cc:57`). `Send` reseeds with the wall clock
  and takes the first number, so all packets of one second of wall clock share one
  fate, a retransmission with its original. `MtuNetDevice` has it as `draw`.
- *The update of the segment size is without effect*
  (`mtu-bulksend-application.cc:140`). `updateMTUandPriInDc/Wan` sets
  `m_segmentSize`; chunks are cut with `m_sendSize`. With the 128 MB buffer of the
  scenarios even the new priority comes too late (`UpdateComesTooLateCorrect`).
- *Timeouts without loss* (`tcp-socket-base.cc:2585`). A segment size above the window
  blocks the sender with nothing in flight until the retransmission timer fires
  (`BlockedNotDead`).
- *The threshold is halved at every timeout* (`tcp-socket-base.cc:3080`). Whether the head
  has been retransmitted is asked after `SetSentListLost` has cleared the mark that
  would say so.
- *A client left in FIN_WAIT_2* (`tcp-socket-base.cc:2205`). The sink's last timer is
  shorter than the one that would repeat its FIN, so a lost FIN|ACK is never sent
  again, and FIN_WAIT_2 has no timer. It is the only state a client is left in
  (`OnlyFinWait2Hangs`), and everything was delivered by then. Likewise a sink's
  socket stays half open when the client gives up while the handshake is under way.
- *Any acknowledgement closes* (`tcp-socket-base.cc:2080`). `ProcessClosing` takes any
  acknowledgement in order for that of the FIN. When both ends close at once, one of
  a data segment takes the client to TIME_WAIT. The application's own close is safe as
  long as the sink does not close first (`FinishedMeansDelivered`), and the sinks of
  the scenarios do not.
- *Flows that received nothing are averaged* (`src/script/xml_parser.py:240`). The test for
  `None` never holds, so a flow whose answers never arrived lowers the mean with a
  time that is not positive (`CompletionCorrect`), and a file without flows divides by
  zero. The flows averaged are those from the sinks' ports: the answers, not the data.
- *A packet lost and dropped counts twice* (`flow-monitor.cc:262`), when a queue drops it
  more than ten seconds after it was last seen. `Conserved` has the term for it.

## 6. Plan

Built, in the order of importance to the experiment: queue, device and link, application
and sender, choice of the MTU, installation of the flows, connection, loss
recovery, and the monitor that measures it all. What could follow:

1. `MultiQueueApi`: `SetNumPriority` after construction, `Remove`, and the counters
   of the base class, which the scenarios do not call.
2. A flow through two priority queues: `TcpRecovery` over `PriorityLink` in place of the
   bag, which is the most such a link can reorder.
3. A timed channel that justifies the FIFO wire of `MtuNetDevice`.
4. Bandwidths as the `int` they are passed as in `MtuDecision`.

The abstract specifications worth stating are `PriorityLink` (there), a reliable
byte stream for `TcpConnection` with `MtuBulkSend`, and a set of bytes for the
transmission buffer.

## 7. Not modelled

- The scenarios (`src/scratch`): straight-line set-up. Their numbers and times are constants
  of `FlowInstaller` and `FlowMonitor`.
- `Remove`, `SetNumPriority` after construction and the limits of `MultiQueue`: no
  caller. `Enqueue` reads no limit, so `SetMaxPackets` of the helper is without effect.
- TCP: RTT estimation, window probes, the options other than selective acknowledgements,
  ECN, other congestion controls, and the growth of the window in congestion avoidance.
- Device: link down, promiscuous mode, the protocol header, MPI channels, traces.
- CDF files and `gen_random_cdf`: file input and floating point.
- The traffic control layer and `NetDeviceQueueInterface`: `MultiQueue` and the devices of the
  scenarios never stop a queue, so their flow control does nothing.
- `FlowMonitor`: histograms, jitter, statistics per probe, `Start` and `Stop` within a
  run, IPv6.
- The other protocols, the build system and the rest of ns-3, vendored
  unchanged. Nearly all Python in the repository is generated language bindings
  and the `waf` build system; the experiment is C++. Of the scripts of the experiment only
  the completion time of `xml_parser.py` is more than reading and writing files.
- Bandwidths above 2^31 bit/s and flows of size 0 in `MtuDecision`: the conversions
  to `int` there are listed as hazards without a property.
