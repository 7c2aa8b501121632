--------------------------- MODULE FlowInstaller ---------------------------
(***************************************************************************)
(* MtuNetHelper::InstallAllApplicationsInDC/WAN/Mix, which install one     *)
(* sender and one sink per flow, and the run of the simulator over the     *)
(* events they leave: the start and the stop of every application, the SYN *)
(* of every flow and the Simulator::Stop of the scenario.                  *)
(*                                                                         *)
(* Events of one time run in the order they were scheduled in: the Stop by *)
(* the scenario, then the starts and stops by DoInitialize (in any order   *)
(* here; the code goes by node and application), then what the run itself  *)
(* schedules.  Abstracted: sizes, priorities and segment sizes of flows    *)
(* (see MtuDecision and MtuBulkSend), and everything after the SYN.        *)
(***************************************************************************)
EXTENDS Integers, Sequences

CONSTANTS
  Servers,           \* GetN() of fromServers
  Dests,             \* the nodes of destServers, by index
  PortStart, PortEnd,
  PortBits,          \* the width of port
  SimStart,          \* timesim_start
  LaunchEnd,         \* time_flow_launch_end
  SimEnd,            \* timesim_end
  StopTimes,         \* times of Simulator::Stop, SimEnd in the scenarios
  Delay              \* bound on the time of a SYN on its way

ASSUME FlowInstallerAssumption ==
  /\ {Servers, PortStart, PortEnd, PortBits, SimStart, LaunchEnd, SimEnd, Delay} \subseteq Nat
  /\ PortStart <= PortEnd /\ PortEnd + 1 < 2^PortBits
  /\ SimStart <= LaunchEnd /\ LaunchEnd <= SimEnd
  /\ StopTimes \subseteq {t \in Nat : SimEnd <= t}

VARIABLES
  stopAt,     \* the scenario: when the simulation is stopped, and
  sinkFirst,  \* whether the sinks start at SimStart, as in WAN and Mix
  server,     \* index of the loop over fromServers
  startTime,
  port,
  flowCount,
  flows,      \* the flows installed
  events,     \* the event list, once Simulator::Run is called
  listening,  \* the sinks' end points
  accepted,   \* flows whose SYN met a listening sink
  refused,    \* flows whose SYN met none
  stopped,    \* flows whose sender was stopped
  phase       \* "install", "run", "end", or "fatal" after NS_FATAL_ERROR

scenario == <<stopAt, sinkFirst>>
install == <<scenario, server, startTime, port, flowCount, flows>>
run == <<events, listening, accepted, refused, stopped, phase>>
vars == <<install, run>>

Flow == [src : 1..Servers, dst : Dests, port : 0..(2^PortBits - 1),
         start : SimStart..LaunchEnd, sinkStart : SimStart..LaunchEnd]

(* The event list is sorted by time, and by age.                           *)
Stop == 0
Initialised == 1
Scheduled == 2

Event(what, k, time, age) == [what |-> what, flow |-> k, time |-> time, age |-> age]

TypeOK ==
  /\ stopAt \in StopTimes /\ sinkFirst \in BOOLEAN
  /\ server \in 1..(Servers + 1)
  /\ startTime \in SimStart..LaunchEnd
  /\ port \in PortStart..(PortEnd + 1)
  /\ flowCount \in Nat
  /\ flows \in Seq(Flow)
  /\ \A e \in events : e.time \in Nat /\ e.age \in {Stop, Initialised, Scheduled}
  /\ listening \subseteq Dests \X (0..(2^PortBits - 1))
  /\ accepted \cup refused \cup stopped \subseteq DOMAIN flows
  /\ phase \in {"install", "run", "end", "fatal"}

-----------------------------------------------------------------------------
Init == /\ stopAt \in StopTimes
        /\ sinkFirst \in BOOLEAN
        /\ server = 1
        /\ startTime \in SimStart..LaunchEnd
        /\ port = PortStart
        /\ flowCount = 0
        /\ flows = <<>>
        /\ events = {}
        /\ listening = {} /\ accepted = {} /\ refused = {} /\ stopped = {}
        /\ phase = "install"

\* Faulty form: the port is reset with the server.
InstallFlowOwnPorts ==
  /\ phase = "install" /\ server <= Servers
  /\ startTime < LaunchEnd /\ port <= PortEnd
  /\ flowCount' = flowCount + 1
  /\ \E d \in Dests :
       flows' = Append(flows, [src |-> server, dst |-> d, port |-> port,
                               start |-> startTime,
                               sinkStart |-> IF sinkFirst THEN SimStart ELSE startTime])
  /\ startTime' \in startTime..LaunchEnd
  /\ port' = IF startTime' = LaunchEnd THEN PortStart ELSE port + 1
  /\ UNCHANGED <<scenario, server, run>>

\* Faulty form: the loop does not look at the port.
InstallFlowNoBreak ==
  /\ phase = "install" /\ server <= Servers
  /\ startTime < LaunchEnd
  /\ flowCount' = flowCount + 1
  /\ \E d \in Dests :
       flows' = Append(flows, [src |-> server, dst |-> d, port |-> port,
                               start |-> startTime,
                               sinkStart |-> IF sinkFirst THEN SimStart ELSE startTime])
  /\ startTime' \in startTime..LaunchEnd
  /\ port' = (port + 1) % 2^PortBits
  /\ UNCHANGED <<scenario, server, run>>

(* One turn of the inner loop: a flow to a random destination; the next    *)
(* one starts an interval later, which may be 0.                           *)
InstallFlow ==
  /\ phase = "install" /\ server <= Servers
  /\ startTime < LaunchEnd /\ port <= PortEnd
  /\ flowCount' = flowCount + 1
  /\ \E d \in Dests :
       flows' = Append(flows, [src |-> server, dst |-> d, port |-> port,
                               start |-> startTime,
                               sinkStart |-> IF sinkFirst THEN SimStart ELSE startTime])
  /\ startTime' \in startTime..LaunchEnd
  /\ port' = (port + 1) % 2^PortBits
  /\ UNCHANGED <<scenario, server, run>>

(* The inner loop ends, by its condition or by the break.                  *)
NextServer ==
  /\ phase = "install" /\ server <= Servers
  /\ (startTime >= LaunchEnd \/ port > PortEnd)
  /\ server' = server + 1
  /\ startTime' \in SimStart..LaunchEnd
  /\ UNCHANGED <<scenario, port, flowCount, flows, run>>

\* Faulty form: the sinks are given no stop time.
RunSimulatorSinksStay ==
  /\ phase = "install" /\ server > Servers
  /\ phase' = "run"
  /\ events' = {Event("Stop", 0, stopAt, Stop)}
       \cup {Event("StartSender", k, flows[k].start, Initialised) : k \in DOMAIN flows}
       \cup {Event("StartSink", k, flows[k].sinkStart, Initialised) : k \in DOMAIN flows}
       \cup {Event("StopSender", k, SimEnd, Initialised) : k \in DOMAIN flows}
  /\ UNCHANGED <<install, listening, accepted, refused, stopped>>

(* Simulator::Stop, Simulator::Run, and DoInitialize of every application. *)
RunSimulator ==
  /\ phase = "install" /\ server > Servers
  /\ phase' = "run"
  /\ events' = {Event("Stop", 0, stopAt, Stop)}
       \cup {Event("StartSender", k, flows[k].start, Initialised) : k \in DOMAIN flows}
       \cup {Event("StartSink", k, flows[k].sinkStart, Initialised) : k \in DOMAIN flows}
       \cup {Event("StopSender", k, SimEnd, Initialised) : k \in DOMAIN flows}
       \cup {Event("StopSink", k, SimEnd, Initialised) : k \in DOMAIN flows}
  /\ UNCHANGED <<install, listening, accepted, refused, stopped>>

-----------------------------------------------------------------------------
\* Faulty form: events of one time run in any order.
NextEventUnordered(e) == e \in events /\ \A f \in events : e.time <= f.time

(* The event the simulator runs next.                                      *)
NextEvent(e) ==
  /\ e \in events
  /\ \A f \in events : e.time < f.time \/ (e.time = f.time /\ e.age <= f.age)

(* MtuBulkSendApplication::StartApplication sends the SYN; to the own node *)
(* it takes no time.                                                       *)
StartSender(e) ==
  /\ e.what = "StartSender"
  /\ \E t \in 0..Delay :
       events' = (events \ {e}) \cup {Event("Syn", e.flow, e.time + t, Scheduled)}
  /\ UNCHANGED <<install, listening, accepted, refused, stopped, phase>>

(* PacketSink::StartApplication: a failed Bind is fatal.                   *)
StartSink(e) ==
  LET local == <<flows[e.flow].dst, flows[e.flow].port>>
  IN  /\ e.what = "StartSink"
      /\ events' = events \ {e}
      /\ listening' = listening \cup {local}
      /\ phase' = IF local \in listening THEN "fatal" ELSE phase
      /\ UNCHANGED <<install, accepted, refused, stopped>>

(* The SYN finds the sink's end point or is answered by a RST.             *)
Syn(e) ==
  /\ e.what = "Syn"
  /\ events' = events \ {e}
  /\ IF <<flows[e.flow].dst, flows[e.flow].port>> \in listening
     THEN accepted' = accepted \cup {e.flow} /\ UNCHANGED refused
     ELSE refused' = refused \cup {e.flow} /\ UNCHANGED accepted
  /\ UNCHANGED <<install, listening, stopped, phase>>

(* MtuBulkSendApplication::StopApplication.                                *)
StopSender(e) ==
  /\ e.what = "StopSender"
  /\ events' = events \ {e}
  /\ stopped' = stopped \cup {e.flow}
  /\ UNCHANGED <<install, listening, accepted, refused, phase>>

(* PacketSink::StopApplication closes the listening socket.                *)
StopSink(e) ==
  /\ e.what = "StopSink"
  /\ events' = events \ {e}
  /\ listening' = listening \ {<<flows[e.flow].dst, flows[e.flow].port>>}
  /\ UNCHANGED <<install, accepted, refused, stopped, phase>>

(* Simulator::Stop ends the run, whatever is still in the event list.      *)
StopSimulator(e) ==
  /\ e.what = "Stop"
  /\ phase' = "end"
  /\ UNCHANGED <<install, events, listening, accepted, refused, stopped>>

ProcessOneEvent ==
  /\ phase = "run"
  /\ \E e \in events :
       /\ NextEvent(e)
       /\ \/ StartSender(e) \/ StartSink(e) \/ Syn(e)
          \/ StopSender(e) \/ StopSink(e) \/ StopSimulator(e)

Next == InstallFlow \/ NextServer \/ RunSimulator \/ ProcessOneEvent

Spec == Init /\ [][Next]_vars
-----------------------------------------------------------------------------
(* No two flows share a port, on whatever servers they are: the port is    *)
(* carried on from server to server.                                       *)
PortsDistinct ==
  \A j, k \in DOMAIN flows : flows[j].port = flows[k].port => j = k

(* No sink fails to bind its port, which would end the program.            *)
BindSucceeds == phase # "fatal"

(* Where the simulation ends with its applications, as in the scenarios,   *)
(* every SYN finds its sink listening, also when sink and sender start at  *)
(* the same time and on the same node, where the SYN takes no time.        *)
NoSynRefused == stopAt = SimEnd => refused = {}

(* The order of events of one time decides whether StopApplication ever    *)
(* runs: in the scenarios Simulator::Stop is older than the stops of the   *)
(* same time and no sender is stopped, so flows end by their last byte or  *)
(* not at all; a simulation that goes on finds every sender stopped at its *)
(* end, and no port in use.                                                *)
StoppedByAge ==
  /\ stopAt = SimEnd => stopped = {}
  /\ stopAt > SimEnd /\ phase = "end" => stopped = DOMAIN flows /\ listening = {}

=============================================================================
