------------------------ MODULE FlowInstaller_proofs ------------------------
(***************************************************************************)
(* The installation of the flows and the run of the event list, for any    *)
(* number of servers, any range of ports that does not reach the end of    *)
(* its type, and any times.                                                *)
(***************************************************************************)
EXTENDS FlowInstaller, TLAPS

(* The loops: the ports are given out one after the other, and no sink     *)
(* starts after its sender.                                                *)
Installed ==
  /\ stopAt \in StopTimes /\ sinkFirst \in BOOLEAN
  /\ server \in 1..(Servers + 1)
  /\ startTime \in SimStart..LaunchEnd
  /\ port \in PortStart..(PortEnd + 1)
  /\ flowCount = Len(flows)
  /\ flows \in Seq(Flow)
  /\ port = PortStart + Len(flows)
  /\ \A k \in DOMAIN flows : /\ flows[k].port = PortStart + k - 1
                             /\ flows[k].sinkStart <= flows[k].start
                             /\ flows[k].start < LaunchEnd

Local(k) == <<flows[k].dst, flows[k].port>>

(* What an event in the list looks like.                                   *)
Starts == {"StartSender", "StartSink"}
Stops == {"StopSender", "StopSink"}
EventType == [what : {"Stop", "Syn"} \cup Starts \cup Stops,
              flow : Nat, time : Nat, age : {Stop, Initialised, Scheduled}]

WellFormed(e) ==
  /\ e \in EventType
  /\ e.what = "Stop" => e.age = Stop
  /\ e.what # "Stop" => e.flow \in DOMAIN flows
  /\ e.what = "StartSender" => e.age = Initialised /\ e.time = flows[e.flow].start
  /\ e.what = "StartSink" => e.age = Initialised /\ e.time = flows[e.flow].sinkStart
  /\ e.what \in Stops => e.age = Initialised /\ e.time = SimEnd
  /\ e.what = "Syn" => e.age = Scheduled /\ e.time >= flows[e.flow].sinkStart

(* The run: the Stop is in the list while it lasts; a sink that has yet to *)
(* start does not listen; and in the scenarios every sink listens or has   *)
(* yet to start.                                                           *)
Running ==
  /\ phase \in {"install", "run", "end"}
  /\ phase = "install" => events = {}
  /\ \A e \in events : WellFormed(e)
  /\ phase = "run" => Event("Stop", 0, stopAt, Stop) \in events
  /\ listening \subseteq Dests \X (0..(2^PortBits - 1))
  /\ accepted \cup refused \cup stopped \subseteq DOMAIN flows
  /\ phase = "install" => listening = {}
  /\ \A e \in events : e.what = "StartSink" => Local(e.flow) \notin listening

Ready ==
  stopAt = SimEnd =>
    /\ refused = {} /\ stopped = {}
    /\ phase = "run" =>
         \A k \in DOMAIN flows :
           \/ Local(k) \in listening
           \/ Event("StartSink", k, flows[k].sinkStart, Initialised) \in events

IInv == Installed /\ (phase = "install" => accepted \cup refused \cup stopped = {}) /\ Running /\ Ready

(* The constants are natural numbers.                                      *)
LEMMA Constants ==
  /\ Servers \in Nat /\ PortStart \in Nat /\ PortEnd \in Nat /\ PortBits \in Nat
  /\ SimStart \in Nat /\ LaunchEnd \in Nat /\ SimEnd \in Nat /\ Delay \in Nat
  BY FlowInstallerAssumption

(* The ports stay within their type, so the increment does not wrap.       *)
LEMMA NoWrap == \A p \in PortStart..PortEnd : (p + 1) % 2^PortBits = p + 1
<1> TAKE p \in PortStart..PortEnd
<1>1. 2^PortBits \in Nat /\ p + 1 \in Nat /\ p + 1 < 2^PortBits
  <2>1. PortBits \in Nat /\ PortStart \in Nat /\ PortEnd \in Nat /\ PortEnd + 1 < 2^PortBits
    BY FlowInstallerAssumption
  <2>2. 2^PortBits \in Int
    BY <2>1
  <2> QED BY <2>1, <2>2
<1>2. \A a, b \in Nat : a < b => a % b = a
  OBVIOUS
<1> QED BY <1>1, <1>2

(* The loops start well.                                                   *)
LEMMA InitIInv == Init => IInv
<1> SUFFICES ASSUME Init PROVE IInv
  OBVIOUS
<1>1. Len(<< >>) = 0 /\ << >> \in Seq(Flow) /\ DOMAIN << >> = {}
  OBVIOUS
<1>2. Installed
  BY <1>1, FlowInstallerAssumption DEF Init, Installed
<1>3. Running /\ Ready
  BY DEF Init, Running, Ready
<1> QED BY <1>2, <1>3 DEF IInv, Init

(* Every turn of the loops keeps the ports in order.                       *)
LEMMA InstallIInv == IInv /\ (InstallFlow \/ NextServer) => IInv'
<1> SUFFICES ASSUME IInv, InstallFlow \/ NextServer PROVE IInv'
  OBVIOUS
<1>1. UNCHANGED run /\ phase = "install"
  BY DEF InstallFlow, NextServer
<1>2. events = {} /\ listening = {} /\ accepted \cup refused \cup stopped = {}
  BY <1>1 DEF IInv, Running
<1>3. Running' /\ Ready' /\ (phase = "install" => accepted \cup refused \cup stopped = {})'
  BY <1>1, <1>2 DEF IInv, Running, Ready, run
<1>4. CASE InstallFlow
  <2>1. PICK d \in Dests :
          flows' = Append(flows, [src |-> server, dst |-> d, port |-> port,
                                  start |-> startTime,
                                  sinkStart |-> IF sinkFirst THEN SimStart ELSE startTime])
    BY <1>4 DEF InstallFlow
  <2> DEFINE new == [src |-> server, dst |-> d, port |-> port,
                     start |-> startTime,
                     sinkStart |-> IF sinkFirst THEN SimStart ELSE startTime]
  <2>2. port \in PortStart..PortEnd /\ server \in 1..Servers /\ startTime \in SimStart..LaunchEnd
    BY <1>4, FlowInstallerAssumption DEF InstallFlow, IInv, Installed
  <2>3. port' = port + 1
    BY <1>4, <2>2, NoWrap DEF InstallFlow
  <2>4. port \in 0..(2^PortBits - 1)
    <3>1. 2^PortBits \in Int
      BY FlowInstallerAssumption
    <3> QED BY <2>2, <3>1, FlowInstallerAssumption
  <2>5. new.sinkStart \in SimStart..LaunchEnd /\ new.sinkStart <= new.start
        /\ new.start < LaunchEnd
    BY <1>4, <2>2, FlowInstallerAssumption DEF InstallFlow
  <2>6. new \in Flow
    BY <2>2, <2>4, <2>5 DEF Flow
  <2>7. flows \in Seq(Flow) /\ Len(flows) \in Nat /\ DOMAIN flows = 1..Len(flows)
    BY DEF IInv, Installed
  <2>8. /\ flows' \in Seq(Flow) /\ Len(flows') = Len(flows) + 1
        /\ DOMAIN flows' = 1..(Len(flows) + 1)
        /\ flows'[Len(flows) + 1] = new
        /\ \A k \in DOMAIN flows : flows'[k] = flows[k]
    BY <2>1, <2>6, <2>7
  <2>9. \A k \in DOMAIN flows' : /\ flows'[k].port = PortStart + k - 1
                                 /\ flows'[k].sinkStart <= flows'[k].start
                                 /\ flows'[k].start < LaunchEnd
    <3> SUFFICES ASSUME NEW k \in DOMAIN flows'
                 PROVE  /\ flows'[k].port = PortStart + k - 1
                        /\ flows'[k].sinkStart <= flows'[k].start
                        /\ flows'[k].start < LaunchEnd
      OBVIOUS
    <3>1. CASE k \in DOMAIN flows
      BY <2>8, <3>1 DEF IInv, Installed
    <3>2. CASE k = Len(flows) + 1
      <4>1. new.port = port /\ port = PortStart + Len(flows) /\ PortStart \in Nat
        BY FlowInstallerAssumption DEF IInv, Installed
      <4> QED BY <2>5, <2>7, <2>8, <3>2, <4>1
    <3> QED BY <2>7, <2>8, <3>1, <3>2
  <2>10. flowCount' = Len(flows')
    BY <1>4, <2>8 DEF InstallFlow, IInv, Installed
  <2>11. port' = PortStart + Len(flows') /\ port' \in PortStart..(PortEnd + 1)
    <3>1. port = PortStart + Len(flows)
      BY DEF IInv, Installed
    <3>2. port' = PortStart + (Len(flows) + 1)
      BY <2>3, <2>7, <3>1, Constants
    <3>3. port' \in PortStart..(PortEnd + 1)
      BY <2>2, <2>3, Constants
    <3> QED BY <2>8, <3>2, <3>3
  <2>12. server' \in 1..(Servers + 1) /\ startTime' \in SimStart..LaunchEnd
    <3>1. server' = server /\ startTime' \in startTime..LaunchEnd
      BY <1>4 DEF InstallFlow, run
    <3> QED BY <2>2, <3>1, Constants
  <2>13. Installed'
    BY <1>4, <2>8, <2>9, <2>10, <2>11, <2>12 DEF IInv, Installed, InstallFlow, scenario
  <2> QED BY <1>3, <2>13 DEF IInv
<1>5. CASE NextServer
  <2>1. server' \in 1..(Servers + 1) /\ startTime' \in SimStart..LaunchEnd
    <3>1. server' = server + 1 /\ server <= Servers /\ server \in 1..(Servers + 1)
      BY <1>5 DEF NextServer, IInv, Installed
    <3>2. startTime' \in SimStart..LaunchEnd
      BY <1>5 DEF NextServer
    <3> QED BY <3>1, <3>2, Constants
  <2>2. UNCHANGED <<stopAt, sinkFirst, port, flowCount, flows>>
    BY <1>5 DEF NextServer, scenario
  <2>3. Installed'
    BY <2>1, <2>2 DEF IInv, Installed
  <2> QED BY <1>3, <2>3 DEF IInv
<1> QED BY <1>4, <1>5

(* Simulator::Run fills the event list.                                    *)
LEMMA RunIInv == IInv /\ RunSimulator => IInv'
<1> SUFFICES ASSUME IInv, RunSimulator PROVE IInv'
  OBVIOUS
<1>1. /\ phase = "install" /\ phase' = "run" /\ UNCHANGED install
      /\ UNCHANGED <<listening, accepted, refused, stopped>>
  BY DEF RunSimulator
<1>2. listening = {} /\ accepted \cup refused \cup stopped = {}
  BY <1>1 DEF IInv, Running
<1>3. Installed' /\ Installed /\ flows' = flows /\ stopAt' = stopAt
  BY <1>1 DEF IInv, Installed, install, scenario
<1>4. /\ \A k \in DOMAIN flows : flows[k] \in Flow /\ k \in Nat
      /\ stopAt \in Nat
  <2>1. stopAt \in Nat
    BY <1>3, FlowInstallerAssumption DEF Installed
  <2>2. flows \in Seq(Flow)
    BY <1>3 DEF Installed
  <2> QED BY <2>1, <2>2
<1>5. \A k \in DOMAIN flows : flows[k].start \in Nat /\ flows[k].sinkStart \in Nat
  BY <1>4, FlowInstallerAssumption DEF Flow
<1>6. \A e \in events' : WellFormed(e)'
  <2> SUFFICES ASSUME NEW e \in events' PROVE WellFormed(e)'
    OBVIOUS
  <2> USE DEF WellFormed, EventType, Event, Starts, Stops, Stop, Initialised, Scheduled
  <2>1. CASE e = Event("Stop", 0, stopAt, Stop)
    BY <1>4, <2>1
  <2>2. CASE \E k \in DOMAIN flows : e = Event("StartSender", k, flows[k].start, Initialised)
    BY <1>3, <1>4, <1>5, <2>2
  <2>3. CASE \E k \in DOMAIN flows : e = Event("StartSink", k, flows[k].sinkStart, Initialised)
    BY <1>3, <1>4, <1>5, <2>3
  <2>4. CASE \E k \in DOMAIN flows : e = Event("StopSender", k, SimEnd, Initialised)
    BY <1>3, <1>4, <2>4, FlowInstallerAssumption
  <2>5. CASE \E k \in DOMAIN flows : e = Event("StopSink", k, SimEnd, Initialised)
    BY <1>3, <1>4, <2>5, FlowInstallerAssumption
  <2> HIDE DEF WellFormed, EventType, Event, Starts, Stops, Stop, Initialised, Scheduled
  <2> QED BY <2>1, <2>2, <2>3, <2>4, <2>5 DEF RunSimulator
<1>7. Event("Stop", 0, stopAt, Stop) \in events'
  BY DEF RunSimulator
<1>8. Running'
  BY <1>1, <1>2, <1>3, <1>6, <1>7 DEF Running, Local
<1>9. \A k \in DOMAIN flows : Event("StartSink", k, flows[k].sinkStart, Initialised) \in events'
  BY DEF RunSimulator
<1>10. Ready'
  BY <1>1, <1>2, <1>3, <1>9 DEF Ready
<1> QED BY <1>1, <1>3, <1>8, <1>10 DEF IInv

-----------------------------------------------------------------------------
(* Different flows have different end points.                              *)
LEMMA LocalDistinct ==
  ASSUME Installed, NEW j \in DOMAIN flows, NEW k \in DOMAIN flows, Local(j) = Local(k)
  PROVE  j = k
<1>1. flows[j].port = flows[k].port
  BY DEF Local
<1>2. flows[j].port = PortStart + j - 1 /\ flows[k].port = PortStart + k - 1
  BY DEF Installed
<1>3. flows \in Seq(Flow)
  BY DEF Installed
<1>4. j \in Nat /\ k \in Nat
  BY <1>3
<1>5. PortStart + j - 1 = PortStart + k - 1 /\ PortStart \in Nat
  BY <1>1, <1>2, Constants
<1> QED BY <1>4, <1>5

(* Every event of the run keeps the invariant.                             *)
LEMMA EventIInv == IInv /\ ProcessOneEvent => IInv'
<1> SUFFICES ASSUME IInv, ProcessOneEvent PROVE IInv'
  OBVIOUS
<1>1. PICK e \in events :
        /\ phase = "run" /\ NextEvent(e)
        /\ StartSender(e) \/ StartSink(e) \/ Syn(e) \/ StopSender(e) \/ StopSink(e) \/ StopSimulator(e)
  BY DEF ProcessOneEvent
<1>2. UNCHANGED install
  BY <1>1 DEF StartSender, StartSink, Syn, StopSender, StopSink, StopSimulator
<1>3. Installed' /\ flows' = flows /\ stopAt' = stopAt
  BY <1>2 DEF IInv, Installed, install, scenario
<1>4. WellFormed(e)
  BY DEF IInv, Running
<1>5. \A f : WellFormed(f) => WellFormed(f)'
  BY <1>3 DEF WellFormed
<1>6. \A k \in DOMAIN flows : flows[k] \in Flow
  BY DEF IInv, Installed
<1>7. phase' # "install"
  BY <1>1 DEF StartSender, StartSink, Syn, StopSender, StopSink, StopSimulator
<1>8. CASE StartSender(e)
  <2>1. e.what = "StartSender" /\ UNCHANGED <<listening, accepted, refused, stopped, phase>>
    BY <1>8 DEF StartSender
  <2>2. PICK t \in 0..Delay :
          events' = (events \ {e}) \cup {Event("Syn", e.flow, e.time + t, Scheduled)}
    BY <1>8 DEF StartSender
  <2>3. e.flow \in DOMAIN flows /\ e.flow \in Nat /\ e.time = flows[e.flow].start /\ e.time \in Nat
    BY <1>4, <2>1 DEF WellFormed, EventType
  <2>4. flows[e.flow].sinkStart <= flows[e.flow].start /\ flows[e.flow].sinkStart \in Nat
    <3>1. flows[e.flow].sinkStart \in SimStart..LaunchEnd
      BY <1>6, <2>3 DEF Flow
    <3>2. flows[e.flow].sinkStart <= flows[e.flow].start
      BY <2>3 DEF IInv, Installed
    <3> QED BY <3>1, <3>2, Constants
  <2>5. e.time + t \in Nat /\ e.time + t >= flows[e.flow].sinkStart
    BY <2>3, <2>4, FlowInstallerAssumption
  <2>6. WellFormed(Event("Syn", e.flow, e.time + t, Scheduled))
    BY <2>3, <2>5 DEF WellFormed, Event, EventType, Starts, Stops, Scheduled
  <2>7. \A f \in events' : WellFormed(f)'
    BY <1>5, <2>2, <2>6 DEF IInv, Running
  <2>8. \A f \in events : f.what # "StartSender" => f \in events'
    BY <2>1, <2>2
  <2>9. \A f \in events' : f.what = "StartSink" => f \in events
    BY <2>2 DEF Event
  <2>10. Running'
    BY <1>3, <1>7, <2>1, <2>7, <2>8, <2>9 DEF IInv, Running, Event, Local
  <2>11. Ready'
    BY <1>1, <1>3, <2>1, <2>8 DEF IInv, Ready, Event, Local
  <2> QED BY <1>3, <1>7, <2>10, <2>11 DEF IInv
<1>9. CASE StartSink(e)
  <2>1. /\ e.what = "StartSink" /\ events' = events \ {e}
        /\ listening' = listening \cup {Local(e.flow)}
        /\ UNCHANGED <<accepted, refused, stopped>>
    BY <1>9 DEF StartSink, Local
  <2>2. e.flow \in DOMAIN flows /\ e.age = Initialised /\ e.time = flows[e.flow].sinkStart
    BY <1>4, <2>1 DEF WellFormed
  <2>3. Local(e.flow) \notin listening
    BY <2>1 DEF IInv, Running
  <2>4. phase' = "run"
    BY <1>1, <1>9, <2>3 DEF StartSink, Local
  <2>5. Local(e.flow) \in Dests \X (0..(2^PortBits - 1))
    BY <1>6, <2>2 DEF Local, Flow
  <2>6. \A f \in events' : f.what = "StartSink" => Local(f.flow) \notin listening'
    <3> SUFFICES ASSUME NEW f \in events', f.what = "StartSink" PROVE Local(f.flow) \notin listening'
      OBVIOUS
    <3>1. f \in events /\ f # e /\ WellFormed(f)
      BY <2>1 DEF IInv, Running
    <3>2. f.flow \in DOMAIN flows /\ f.age = Initialised /\ f.time = flows[f.flow].sinkStart
      BY <3>1 DEF WellFormed
    <3>3. f.flow # e.flow
      BY <1>4, <2>1, <2>2, <3>1, <3>2 DEF WellFormed, EventType
    <3>4. Local(f.flow) # Local(e.flow)
      BY <2>2, <3>2, <3>3, LocalDistinct DEF IInv
    <3>5. Local(f.flow) \notin listening
      BY <3>1 DEF IInv, Running
    <3> QED BY <2>1, <3>4, <3>5
  <2>7. \A f \in events' : WellFormed(f)'
    BY <1>5, <2>1 DEF IInv, Running
  <2>8. Event("Stop", 0, stopAt, Stop) \in events'
    BY <1>1, <2>1 DEF IInv, Running, Event
  <2>9. listening' \subseteq Dests \X (0..(2^PortBits - 1))
    BY <2>1, <2>5 DEF IInv, Running
  <2>10. Running'
    BY <1>3, <2>1, <2>4, <2>6, <2>7, <2>8, <2>9 DEF IInv, Running, Local
  <2>11. Ready'
    <3> SUFFICES ASSUME stopAt = SimEnd, NEW k \in DOMAIN flows
                 PROVE  \/ Local(k) \in listening'
                        \/ Event("StartSink", k, flows[k].sinkStart, Initialised) \in events'
      BY <1>3, <2>1 DEF IInv, Ready, Local
    <3>1. CASE k = e.flow
      BY <2>1, <3>1
    <3>2. CASE k # e.flow
      BY <1>1, <2>1, <3>2 DEF IInv, Ready, Event
    <3> QED BY <3>1, <3>2
  <2> QED BY <1>3, <1>7, <2>10, <2>11 DEF IInv
<1>10. CASE Syn(e)
  <2>1. e.what = "Syn" /\ events' = events \ {e} /\ UNCHANGED <<listening, stopped, phase>>
    BY <1>10 DEF Syn
  <2>2. e.flow \in DOMAIN flows /\ e.age = Scheduled /\ e.time >= flows[e.flow].sinkStart
        /\ e.time \in Nat
    BY <1>4, <2>1 DEF WellFormed, EventType
  <2>3. accepted' \cup refused' \subseteq accepted \cup refused \cup {e.flow}
    BY <1>10 DEF Syn
  <2>4. Running'
    BY <1>1, <1>3, <1>5, <2>1, <2>2, <2>3 DEF IInv, Running, Event, Local
  <2>5. stopAt = SimEnd => Local(e.flow) \in listening
    <3> SUFFICES ASSUME stopAt = SimEnd, Local(e.flow) \notin listening PROVE FALSE
      OBVIOUS
    <3> DEFINE sink == Event("StartSink", e.flow, flows[e.flow].sinkStart, Initialised)
    <3>1. sink \in events
      BY <1>1, <2>2 DEF IInv, Ready
    <3>2. sink.time = flows[e.flow].sinkStart /\ sink.age = Initialised
      BY DEF Event
    <3>3. e.time < sink.time \/ (e.time = sink.time /\ e.age <= sink.age)
      BY <1>1, <3>1 DEF NextEvent
    <3>4. flows[e.flow].sinkStart \in Nat
      BY <1>6, <2>2, FlowInstallerAssumption DEF Flow
    <3> QED BY <2>2, <3>2, <3>3, <3>4 DEF Initialised, Scheduled
  <2>6. Ready'
    <3> SUFFICES ASSUME stopAt = SimEnd PROVE Ready'
      BY <1>3 DEF Ready
    <3>1. refused' = refused
      BY <1>10, <2>5 DEF Syn, Local
    <3>2. \A f \in events : f.what # "Syn" => f \in events'
      BY <2>1
    <3> QED BY <1>1, <1>3, <2>1, <3>1, <3>2 DEF IInv, Ready, Event, Local
  <2> QED BY <1>3, <1>7, <2>4, <2>6 DEF IInv
<1>11. CASE StopSender(e) \/ StopSink(e)
  <2>1. e.what \in Stops /\ events' = events \ {e} /\ phase' = phase
    BY <1>11 DEF StopSender, StopSink, Stops
  <2>2. listening' \subseteq listening /\ accepted' = accepted /\ refused' = refused
        /\ stopped' \subseteq stopped \cup {e.flow}
    BY <1>11 DEF StopSender, StopSink
  <2>3. e.flow \in DOMAIN flows /\ e.age = Initialised /\ e.time = SimEnd
    BY <1>4, <2>1 DEF WellFormed, Stops
  <2>4. Event("Stop", 0, stopAt, Stop) \in events'
    BY <1>1, <2>1 DEF IInv, Running, Event, Stops
  <2>5. Running'
    BY <1>1, <1>3, <1>5, <2>1, <2>2, <2>3, <2>4 DEF IInv, Running, Local
  <2>6. stopAt # SimEnd
    <3> SUFFICES ASSUME stopAt = SimEnd PROVE FALSE
      OBVIOUS
    <3> DEFINE stop == Event("Stop", 0, stopAt, Stop)
    <3>1. stop \in events /\ stop.time = stopAt /\ stop.age = Stop
      BY <1>1 DEF IInv, Running, Event
    <3>2. e.time < stop.time \/ (e.time = stop.time /\ e.age <= stop.age)
      BY <1>1, <3>1 DEF NextEvent
    <3> QED BY <2>3, <3>1, <3>2, FlowInstallerAssumption DEF Initialised, Stop
  <2>7. Ready'
    BY <1>3, <2>6 DEF Ready
  <2> QED BY <1>3, <1>7, <2>5, <2>7 DEF IInv
<1>12. CASE StopSimulator(e)
  <2>1. phase' = "end" /\ UNCHANGED <<events, listening, accepted, refused, stopped>>
    BY <1>12 DEF StopSimulator
  <2>2. Running' /\ Ready'
    BY <1>3, <1>5, <2>1 DEF IInv, Running, Ready, Local
  <2> QED BY <1>3, <1>7, <2>2 DEF IInv
<1> QED BY <1>1, <1>8, <1>9, <1>10, <1>11, <1>12

(* The inductive invariant holds always.                                   *)
THEOREM Inductive == Spec => []IInv
<1>1. Init => IInv
  BY InitIInv
<1>2. IInv /\ [Next]_vars => IInv'
  <2> SUFFICES ASSUME IInv, [Next]_vars PROVE IInv'
    OBVIOUS
  <2>1. CASE UNCHANGED vars
    BY <2>1 DEF vars, install, scenario, run, IInv, Installed, Running, Ready, Local, WellFormed
  <2> QED BY <2>1, InstallIInv, RunIInv, EventIInv DEF Next
<1> QED BY <1>1, <1>2, PTL DEF Spec

-----------------------------------------------------------------------------
(* Winding up, when the simulation goes on after its applications: every   *)
(* sender is stopped or has its stop ahead, and so has every sink that     *)
(* listens or will listen.                                                 *)
StopAhead(k) ==
  /\ k \in stopped \/ Event("StopSender", k, SimEnd, Initialised) \in events
  /\ \/ Local(k) \in listening
     \/ Event("StartSink", k, flows[k].sinkStart, Initialised) \in events
     => Event("StopSink", k, SimEnd, Initialised) \in events

Winding ==
  /\ \A e \in events : e.what = "Stop" => e.time = stopAt
  /\ \A l \in listening : \E k \in DOMAIN flows : l = Local(k)
  /\ phase = "run" => \A k \in DOMAIN flows : StopAhead(k)
  /\ phase = "end" /\ stopAt > SimEnd => stopped = DOMAIN flows /\ listening = {}

(* The installation and Simulator::Run leave every stop ahead.             *)
LEMMA RunWinding ==
  IInv /\ Winding /\ (InstallFlow \/ NextServer \/ RunSimulator) => Winding'
<1> SUFFICES ASSUME IInv, Winding, InstallFlow \/ NextServer \/ RunSimulator PROVE Winding'
  OBVIOUS
<1>1. phase = "install" /\ listening = {} /\ events = {}
  BY DEF InstallFlow, NextServer, RunSimulator, IInv, Running
<1>2. CASE InstallFlow \/ NextServer
  BY <1>1, <1>2 DEF InstallFlow, NextServer, run, Winding
<1>3. CASE RunSimulator
  <2>1. /\ phase' = "run" /\ listening' = {} /\ flows' = flows
        /\ stopAt' = stopAt
    BY <1>1, <1>3 DEF RunSimulator, install, scenario
  <2>2. \A e \in events' : e.what = "Stop" => e.time = stopAt
    BY <1>3 DEF RunSimulator, Event
  <2>3. \A k \in DOMAIN flows :
          /\ Event("StopSender", k, SimEnd, Initialised) \in events'
          /\ Event("StopSink", k, SimEnd, Initialised) \in events'
    BY <1>3 DEF RunSimulator
  <2> QED BY <2>1, <2>2, <2>3 DEF Winding, StopAhead, Local
<1> QED BY <1>2, <1>3

(* An event runs only when nothing earlier is in the list.                 *)
LEMMA Earlier ==
  ASSUME NEW e, NextEvent(e), NEW f \in events
  PROVE  e.time < f.time \/ (e.time = f.time /\ e.age <= f.age)
  BY DEF NextEvent

(* Every event keeps the stops ahead until they have run.                  *)
LEMMA EventWinding == IInv /\ Winding /\ ProcessOneEvent => Winding'
<1> SUFFICES ASSUME IInv, Winding, ProcessOneEvent PROVE Winding'
  OBVIOUS
<1>1. PICK e \in events :
        /\ phase = "run" /\ NextEvent(e)
        /\ StartSender(e) \/ StartSink(e) \/ Syn(e) \/ StopSender(e) \/ StopSink(e) \/ StopSimulator(e)
  BY DEF ProcessOneEvent
<1>2. UNCHANGED install /\ flows' = flows /\ stopAt' = stopAt
  BY <1>1 DEF StartSender, StartSink, Syn, StopSender, StopSink, StopSimulator, install, scenario
<1>3. WellFormed(e)
  BY DEF IInv, Running
<1>4. \A k \in DOMAIN flows : StopAhead(k)
  BY <1>1 DEF Winding
<1>5. CASE StartSender(e)
  <2>1. PICK t : events' = (events \ {e}) \cup {Event("Syn", e.flow, e.time + t, Scheduled)}
    BY <1>5 DEF StartSender
  <2>2. e.what = "StartSender" /\ UNCHANGED <<listening, stopped, phase>>
    BY <1>5 DEF StartSender
  <2>3. \A f : f.what \in {"StopSender", "StopSink", "StartSink", "Stop"} =>
                (f \in events' <=> f \in events)
    BY <2>1, <2>2 DEF Event
  <2> QED BY <1>1, <1>2, <1>4, <2>2, <2>3 DEF Winding, StopAhead, Event, Local
<1>6. CASE StartSink(e)
  <2>1. /\ e.what = "StartSink" /\ events' = events \ {e}
        /\ listening' = listening \cup {Local(e.flow)}
        /\ stopped' = stopped /\ phase' # "end"
    BY <1>1, <1>6 DEF StartSink, Local
  <2>2. e.flow \in DOMAIN flows /\ e = Event("StartSink", e.flow, flows[e.flow].sinkStart, Initialised)
    BY <1>3, <2>1 DEF WellFormed, EventType, Event
  <2>3. ASSUME NEW k \in DOMAIN flows
        PROVE  StopAhead(k)'
    <3>1. Event("StopSender", k, SimEnd, Initialised) \in events =>
            Event("StopSender", k, SimEnd, Initialised) \in events'
      BY <2>1 DEF Event
    <3>2. Event("StopSink", k, SimEnd, Initialised) \in events =>
            Event("StopSink", k, SimEnd, Initialised) \in events'
      BY <2>1 DEF Event
    <3>3. Local(k) = Local(e.flow) => k = e.flow
      BY <2>2, LocalDistinct DEF IInv
    <3> QED BY <1>2, <1>4, <2>1, <2>2, <3>1, <3>2, <3>3 DEF StopAhead, Local
  <2>4. \A l \in listening' : \E k \in DOMAIN flows : l = Local(k)
    BY <2>1, <2>2 DEF Winding
  <2> QED BY <1>2, <2>1, <2>3, <2>4 DEF Winding, Local
<1>7. CASE Syn(e)
  <2>1. e.what = "Syn" /\ events' = events \ {e} /\ UNCHANGED <<listening, stopped, phase>>
    BY <1>7 DEF Syn
  <2>2. \A f : f.what # "Syn" => (f \in events' <=> f \in events)
    BY <2>1
  <2> QED BY <1>1, <1>2, <1>4, <2>1, <2>2 DEF Winding, StopAhead, Event, Local
<1>8. CASE StopSender(e)
  <2>1. /\ e.what = "StopSender" /\ events' = events \ {e}
        /\ stopped' = stopped \cup {e.flow} /\ UNCHANGED <<listening, phase>>
    BY <1>8 DEF StopSender
  <2>2. ASSUME NEW k \in DOMAIN flows
        PROVE  StopAhead(k)'
    <3>1. k # e.flow /\ Event("StopSender", k, SimEnd, Initialised) \in events =>
            Event("StopSender", k, SimEnd, Initialised) \in events'
      BY <2>1 DEF Event
    <3>2. Event("StopSink", k, SimEnd, Initialised) \in events =>
            Event("StopSink", k, SimEnd, Initialised) \in events'
      BY <2>1 DEF Event
    <3> QED BY <1>2, <1>4, <2>1, <3>1, <3>2 DEF StopAhead, Local
  <2> QED BY <1>1, <1>2, <2>1, <2>2 DEF Winding, Local
<1>9. CASE StopSink(e)
  <2>1. /\ e.what = "StopSink" /\ events' = events \ {e}
        /\ listening' = listening \ {Local(e.flow)} /\ UNCHANGED <<stopped, phase>>
    BY <1>9 DEF StopSink, Local
  <2>2. e.flow \in DOMAIN flows /\ e.time = SimEnd /\ e.age = Initialised
    BY <1>3, <2>1 DEF WellFormed, Stops
  <2>3. Event("StartSink", e.flow, flows[e.flow].sinkStart, Initialised) \notin events
    <3> DEFINE start == Event("StartSink", e.flow, flows[e.flow].sinkStart, Initialised)
    <3> SUFFICES ASSUME start \in events PROVE FALSE
      OBVIOUS
    <3>1. start.time = flows[e.flow].sinkStart
      BY DEF Event
    <3>2. flows[e.flow].sinkStart \in SimStart..LaunchEnd /\ flows[e.flow].start \in SimStart..LaunchEnd
          /\ flows[e.flow].sinkStart <= flows[e.flow].start /\ flows[e.flow].start < LaunchEnd
      <4>1. flows[e.flow] \in Flow
        BY <2>2 DEF IInv, Installed
      <4> QED BY <2>2, <4>1 DEF IInv, Installed, Flow
    <3>3. e.time <= start.time
      <4>1. e.time < start.time \/ e.time = start.time
        BY <1>1, Earlier
      <4> QED BY <2>2, <3>1, <4>1, Constants, <3>2
    <3> QED BY <2>2, <3>1, <3>2, <3>3, FlowInstallerAssumption
  <2>4. ASSUME NEW k \in DOMAIN flows
        PROVE  StopAhead(k)'
    <3>1. Event("StopSender", k, SimEnd, Initialised) \in events =>
            Event("StopSender", k, SimEnd, Initialised) \in events'
      BY <2>1 DEF Event
    <3>2. k # e.flow /\ Event("StopSink", k, SimEnd, Initialised) \in events =>
            Event("StopSink", k, SimEnd, Initialised) \in events'
      BY <2>1 DEF Event
    <3>3. k = e.flow => /\ Local(k) \notin listening'
                        /\ Event("StartSink", k, flows[k].sinkStart, Initialised) \notin events'
      BY <2>1, <2>3
    <3> QED BY <1>2, <1>4, <2>1, <3>1, <3>2, <3>3 DEF StopAhead, Local
  <2> QED BY <1>1, <1>2, <2>1, <2>4 DEF Winding, Local
<1>10. CASE StopSimulator(e)
  <2>1. phase' = "end" /\ UNCHANGED <<events, listening, stopped>> /\ e.what = "Stop"
    BY <1>10 DEF StopSimulator
  <2>2. e.time = stopAt
    BY <2>1 DEF Winding
  <2>3. ASSUME stopAt > SimEnd, NEW f \in events
        PROVE  f.time # SimEnd
    <3>1. e.time < f.time \/ e.time = f.time
      BY <1>1, Earlier
    <3>2. stopAt \in Nat
      BY FlowInstallerAssumption DEF IInv, Installed
    <3> QED BY <2>2, <2>3, <3>1, <3>2, Constants
  <2>4. ASSUME stopAt > SimEnd
        PROVE  stopped = DOMAIN flows /\ listening = {}
    <3>1. \A k : /\ Event("StopSender", k, SimEnd, Initialised) \notin events
                 /\ Event("StopSink", k, SimEnd, Initialised) \notin events
      BY <2>3, <2>4 DEF Event
    <3>2. DOMAIN flows \subseteq stopped
      BY <1>4, <3>1 DEF StopAhead
    <3>3. stopped \subseteq DOMAIN flows
      BY DEF IInv, Running
    <3>4. listening = {}
      BY <1>4, <3>1 DEF StopAhead, Winding
    <3> QED BY <3>2, <3>3, <3>4
  <2> QED BY <1>2, <2>1, <2>4 DEF Winding, Local
<1> QED BY <1>1, <1>5, <1>6, <1>7, <1>8, <1>9, <1>10

(* The stops are always ahead until they have run.                         *)
THEOREM AlwaysWinding == Spec => []Winding
<1>1. Init => Winding
  BY DEF Init, Winding
<1>2. IInv /\ Winding /\ [Next]_vars => Winding'
  <2> SUFFICES ASSUME IInv, Winding, [Next]_vars PROVE Winding'
    OBVIOUS
  <2>1. CASE UNCHANGED vars
    BY <2>1 DEF vars, install, scenario, run, Winding, StopAhead, Local
  <2> QED BY <2>1, RunWinding, EventWinding DEF Next
<1> QED BY <1>1, <1>2, Inductive, PTL DEF Spec

(* TypeOK is an invariant.                                                 *)
THEOREM TypeCorrect == Spec => []TypeOK
<1>1. IInv => TypeOK
  <2> SUFFICES ASSUME IInv PROVE TypeOK
    OBVIOUS
  <2>1. \A e \in events : e.time \in Nat /\ e.age \in {Stop, Initialised, Scheduled}
    BY DEF IInv, Running, WellFormed, EventType
  <2>2. flowCount \in Nat
    BY DEF IInv, Installed
  <2> QED BY <2>1, <2>2 DEF IInv, Installed, Running, TypeOK
<1> QED BY Inductive, <1>1, PTL

(* No two flows share a port.                                              *)
THEOREM PortsDistinctCorrect == Spec => []PortsDistinct
<1>1. IInv => PortsDistinct
  <2> SUFFICES ASSUME IInv, NEW j \in DOMAIN flows, NEW k \in DOMAIN flows,
                      flows[j].port = flows[k].port
               PROVE  j = k
    BY DEF PortsDistinct
  <2>1. flows[j].port = PortStart + j - 1 /\ flows[k].port = PortStart + k - 1
    BY DEF IInv, Installed
  <2>2. flows \in Seq(Flow)
    BY DEF IInv, Installed
  <2>3. j \in Nat /\ k \in Nat
    BY <2>2
  <2>4. PortStart + j - 1 = PortStart + k - 1 /\ PortStart \in Nat
    BY <2>1, Constants
  <2> QED BY <2>3, <2>4
<1> QED BY Inductive, <1>1, PTL

(* No sink fails to bind.                                                  *)
THEOREM BindCorrect == Spec => []BindSucceeds
<1>1. IInv => BindSucceeds
  BY DEF IInv, Running, BindSucceeds
<1> QED BY Inductive, <1>1, PTL

(* In the scenarios, where Simulator::Stop is set to the stop time of the  *)
(* applications, every SYN finds its sink.                                 *)
THEOREM NoSynRefusedCorrect == Spec => []NoSynRefused
<1>1. IInv => NoSynRefused
  BY DEF IInv, Ready, NoSynRefused
<1> QED BY Inductive, <1>1, PTL

(* No sender is stopped in the scenarios; a simulation that outlives its   *)
(* applications finds all of them stopped and no port in use at its end.   *)
THEOREM StoppedByAgeCorrect == Spec => []StoppedByAge
<1>1. IInv /\ Winding => StoppedByAge
  BY DEF IInv, Ready, Winding, StoppedByAge
<1> QED BY Inductive, AlwaysWinding, <1>1, PTL

=============================================================================
