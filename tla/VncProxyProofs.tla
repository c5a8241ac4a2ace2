---------------------------- MODULE VncProxyProofs ----------------------------
(***************************************************************************)
(* Proofs about VncProxy for any number of sessions.  The proxy only reads *)
(* the state of LimaWeb, so its specification implements Spec and every    *)
(* invariant of LimaWebProofs holds under it.                              *)
(***************************************************************************)
EXTENDS VncProxy, LimaWebProofs

(* The steps of a session leave the server alone. *)
LEMMA SessionSteps ==
    ASSUME NEW s \in Sessions,
           \/ \E i \in Instances : Lookup(s, i)
           \/ Proxy(s) \/ ToWsWriteFails(s) \/ ToTcpWriteFails(s)
           \/ BrowserLeaves(s)
    PROVE  UNCHANGED vars
BY DEF Lookup, Proxy, Upgrade, Dial, HandlerReturns, Gone, ToWsReadFails,
       ToTcpReadFails, ToWsWriteFails, ToTcpWriteFails, BrowserLeaves

(* Every step of the composition is a step of the server or none. *)
LEMMA ServerSteps == [PNext]_pvars => [Next]_vars
BY SessionSteps DEF PNext, Server, ServerCrash, Next, pvars

(* The composition with the proxy keeps everything the server promises. *)
THEOREM ProxyKeepsServer == PSpec => Spec
<1>1. PInit => Init
      BY DEF PInit
<1> QED
    BY <1>1, ServerSteps, PTL DEF PSpec, Spec

------------------------------------------------------------------------------
(* Typing *)

LEMMA SessionSet ==
    ASSUME ProxyTypeOK, NEW s \in Sessions, NEW new \in Session,
           session' = [session EXCEPT ![s] = new]
    PROVE  /\ ProxyTypeOK' /\ session'[s] = new
           /\ \A t \in Sessions : t # s => session'[t] = session[t]
BY DEF ProxyTypeOK

LEMMA EmptySession == NoSession \in Session
BY DEF NoSession, Session, SessionPcs, Relay

LEMMA ObserveTyped ==
    ASSUME NEW q \in Session
    PROVE  Observe(q) \in Session
<1>1. (q.steady /\ vm'[q.inst] = vm[q.inst] /\ port'[q.inst] = port[q.inst])
        \in BOOLEAN
      OBVIOUS
<1> QED
    BY <1>1 DEF Observe, Session

LEMMA ProxyTypeStep ==
    TypeOK /\ ProxyTypeOK /\ [PNext]_pvars => ProxyTypeOK'
<1> SUFFICES ASSUME TypeOK, ProxyTypeOK, [PNext]_pvars PROVE ProxyTypeOK'
    OBVIOUS
<1> USE DEF ProxyTypeOK
<1>1. CASE Server
      BY <1>1, ObserveTyped DEF Server
<1>2. CASE ServerCrash
      BY <1>2, EmptySession DEF ServerCrash
<1>3. ASSUME NEW s \in Sessions, NEW i \in Instances, Lookup(s, i)
      PROVE  ProxyTypeOK'
  <2> DEFINE new == [NoSession EXCEPT !.pc = "found", !.inst = i,
                                      !.port = entries[i], !.client = TRUE,
                                      !.steady = ~disturbed[i]]
  <2>1. new \in Session
        BY DEF TypeOK, NoSession, Session, SessionPcs, Relay
  <2> HIDE DEF new
  <2>2. session' = [session EXCEPT ![s] = new]
        BY <1>3 DEF Lookup, new
  <2> QED
        BY <2>1, <2>2
<1>4. ASSUME NEW s \in Sessions,
             Proxy(s) \/ ToWsWriteFails(s) \/ ToTcpWriteFails(s)
                \/ BrowserLeaves(s)
      PROVE  ProxyTypeOK'
  <2>1. CASE Upgrade(s) \/ Gone(s)
        BY <2>1, EmptySession DEF Upgrade, Gone, Session, SessionPcs
  <2>2. CASE Dial(s)
    <3>1. \A i \in Instances :
             [session[s] EXCEPT !.pc = "relay", !.target = i,
                                !.toWs = "copying", !.toTcp = "copying"]
                \in Session
          BY DEF Session, SessionPcs, Relay
    <3> QED
          BY <2>2, <3>1, EmptySession DEF Dial
  <2>3. CASE HandlerReturns(s)
        BY <2>3 DEF HandlerReturns, Session, SessionPcs
  <2>4. CASE ToWsReadFails(s) \/ ToWsWriteFails(s)
        BY <2>4 DEF ToWsReadFails, ToWsWriteFails, Session, Relay
  <2>5. CASE ToTcpReadFails(s) \/ ToTcpWriteFails(s)
        BY <2>5 DEF ToTcpReadFails, ToTcpWriteFails, Session, Relay
  <2>6. CASE BrowserLeaves(s)
        BY <2>6 DEF BrowserLeaves, Session
  <2> QED
        BY <1>4, <2>1, <2>2, <2>3, <2>4, <2>5, <2>6 DEF Proxy
<1>5. CASE UNCHANGED pvars
      BY <1>5 DEF pvars
<1> QED
    BY <1>1, <1>2, <1>3, <1>4, <1>5 DEF PNext

(* Every reachable session has the type of a session. *)
THEOREM ProxyTypeCorrect == PSpec => []ProxyTypeOK
<1>1. PInit => TypeOK /\ ProxyTypeOK
      BY TypeInit, EmptySession DEF PInit, ProxyTypeOK
<1> QED
    BY <1>1, TypeStep, ServerSteps, ProxyTypeStep, PTL DEF PSpec

------------------------------------------------------------------------------
(* Ports *)

(* Two machines never listen on the same port. *)
PortsInv ==
    \A i, j \in Instances : port[i] = port[j] => i = j \/ port[i] = NoPort

LEMMA PortsStep == TypeOK /\ PortsInv /\ [Next]_vars => PortsInv'
<1> SUFFICES ASSUME TypeOK, PortsInv, [Next]_vars PROVE PortsInv'
    OBVIOUS
<1> USE DEF TypeOK, PortsInv
<1>1. ASSUME UNCHANGED machine PROVE PortsInv'
      BY <1>1 DEF machine
<1>2. ASSUME NEW i, Launch(i) PROVE PortsInv'
  <2>1. CASE vm[i] = "Running"
        BY <1>1, <1>2, <2>1 DEF Launch
  <2>2. CASE vm[i] # "Running"
    <3>1. PICK p \in (Ports \ PortsInUse) \cup {NoPort} :
                 port' = [port EXCEPT ![i] = p]
          BY <1>2, <2>2 DEF Launch
    <3>2. p = NoPort \/ \A j \in Instances : port[j] # p
          BY <3>1 DEF PortsInUse
    <3> QED
          BY <3>1, <3>2
  <2> QED
        BY <2>1, <2>2
<1>3. ASSUME NEW i, Halt(i) \/ Remove(i) PROVE PortsInv'
      BY <1>3 DEF Halt, Remove
<1>4. CASE Startup
      BY <1>1, <1>4 DEF Startup, ScanList, ScanRegister, ScanDone, machine
<1>5. ASSUME NEW r \in Requests, NEW i \in Instances, AcceptAny(r, i)
      PROVE  PortsInv'
      BY <1>1, <1>5, AcceptEnters DEF Accept
<1>6. ASSUME NEW r \in Requests, Step(r)
      PROVE  PortsInv'
  <2>1. CASE TakeEffect(r)
        BY <1>2, <1>3, <2>1 DEF TakeEffect
  <2>2. CASE ~TakeEffect(r)
        BY <1>1, <1>6, <2>2 DEF Step, StopVNC, AcquireWriteMu, Command,
              CommandSucceeds, CommandFails, ProbeRunning, RegisterVNC, Reply
  <2> QED
        BY <2>1, <2>2
<1>7. ASSUME NEW i \in Instances, Outside(i)
      PROVE  PortsInv'
      BY <1>2, <1>3, <1>7 DEF Outside
<1>8. CASE Crash
      BY <1>8 DEF Crash
<1>9. CASE UNCHANGED vars
      BY <1>1, <1>9 DEF vars, machine
<1> QED
    BY <1>4, <1>5, <1>6, <1>7, <1>8, <1>9 DEF Next, Live

------------------------------------------------------------------------------
(* Steady sessions *)

(* Until it dials, a steady session holds the port of the machine it was   *)
(* asked for; afterwards it is connected to that machine or to none.       *)
SteadyInv ==
    \A s \in Sessions :
        LET q == session[s] IN
        /\ q.pc \in {"found", "upgraded"} => q.target = NoInstance
        /\ q.steady /\ q.pc \in {"found", "upgraded"} =>
              /\ q.inst \in Instances
              /\ port[q.inst] = q.port
              /\ q.port # NoPort
        /\ q.steady /\ q.target # NoInstance => q.target = q.inst

(* The lookup takes the port of an undisturbed machine from the registry,  *)
(* the server's steps take "steady" away when they change the machine, and *)
(* a dial finds nobody else on the port.                                   *)
LEMMA SteadyStep ==
    /\ IndInv /\ PortsInv /\ ProxyTypeOK /\ SteadyInv /\ [PNext]_pvars
    => SteadyInv'
<1> SUFFICES ASSUME IndInv, PortsInv, ProxyTypeOK, SteadyInv, [PNext]_pvars
             PROVE  SteadyInv'
    OBVIOUS
<1> USE DEF ProxyTypeOK, SteadyInv
<1>1. CASE Server
  <2>1. ASSUME NEW s \in Sessions
        PROVE  /\ session'[s].pc = session[s].pc
               /\ session'[s].inst = session[s].inst
               /\ session'[s].port = session[s].port
               /\ session'[s].target \in {session[s].target, NoInstance}
               /\ session'[s].steady =>
                     /\ session[s].steady
                     /\ port'[session[s].inst] = port[session[s].inst]
        BY <1>1 DEF Server, Observe, Session
  <2> QED
        BY <2>1
<1>2. CASE ServerCrash
      BY <1>2 DEF ServerCrash, NoSession
<1>3. ASSUME NEW s \in Sessions, NEW i \in Instances, Lookup(s, i)
      PROVE  SteadyInv'
  <2>1. /\ session'[s].inst = i /\ session'[s].port = entries[i]
        /\ session'[s].target = NoInstance
        /\ session'[s].steady = ~disturbed[i]
        /\ entries[i] # NoPort
        BY <1>3 DEF Lookup, NoSession
  <2>2. \A t \in Sessions : t # s => session'[t] = session[t]
        BY <1>3 DEF Lookup
  <2>3. UNCHANGED port
        BY <1>3 DEF Lookup, vars
  <2>4. session'[s].steady => port[i] = entries[i]
        BY <2>1 DEF IndInv, ConsoleMatchesVm
  <2> QED
        BY <2>1, <2>2, <2>3, <2>4
<1>4. ASSUME NEW s \in Sessions,
             Proxy(s) \/ ToWsWriteFails(s) \/ ToTcpWriteFails(s)
                \/ BrowserLeaves(s)
      PROVE  SteadyInv'
  <2>1. UNCHANGED port
        BY <1>4, SessionSteps DEF vars
  <2>2. CASE Upgrade(s)
        BY <2>1, <2>2 DEF Upgrade, NoSession, Session
  <2>3. CASE Dial(s)
    <3>1. CASE session' = [session EXCEPT ![s] = NoSession]
          BY <2>1, <3>1 DEF NoSession
    <3>2. ASSUME NEW i \in Instances, port[i] = session[s].port,
                 session' = [session EXCEPT ![s] =
                              [@ EXCEPT !.pc = "relay", !.target = i,
                                        !.toWs = "copying", !.toTcp = "copying"]]
          PROVE  SteadyInv'
      <4>1. session[s].pc = "upgraded"
            BY <2>3 DEF Dial
      <4>2. session[s].steady => i = session[s].inst
            BY <3>2, <4>1 DEF PortsInv
      <4>3. /\ session'[s].pc = "relay" /\ session'[s].target = i
            /\ session'[s].inst = session[s].inst
            /\ session'[s].steady = session[s].steady
            /\ \A t \in Sessions : t # s => session'[t] = session[t]
            BY <3>2 DEF Session
      <4> QED
            BY <2>1, <4>2, <4>3
    <3> QED
          BY <2>3, <3>1, <3>2 DEF Dial
  <2>4. CASE HandlerReturns(s)
        BY <2>1, <2>4 DEF HandlerReturns, Session
  <2>5. CASE Gone(s)
        BY <2>1, <2>5 DEF Gone, NoSession
  <2>6. CASE ToWsReadFails(s) \/ ToWsWriteFails(s) \/ ToTcpReadFails(s)
                \/ ToTcpWriteFails(s) \/ BrowserLeaves(s)
        BY <2>1, <2>6 DEF ToWsReadFails, ToWsWriteFails, ToTcpReadFails,
              ToTcpWriteFails, BrowserLeaves, Session
  <2> QED
        BY <1>4, <2>2, <2>3, <2>4, <2>5, <2>6 DEF Proxy
<1>5. CASE UNCHANGED pvars
      BY <1>5 DEF pvars, vars
<1> QED
    BY <1>1, <1>2, <1>3, <1>4, <1>5 DEF PNext

(* A session whose machine was undisturbed at the lookup and has not       *)
(* changed since is connected to that machine: the registry hands out its  *)
(* port and no other machine can listen on it.                             *)
THEOREM SteadySessionsReachTheirVm == PSpec => []SteadySessionReachesItsVm
<1>1. PInit => IndInv /\ PortsInv
      BY IndInit DEF PInit, Init, PortsInv
<1>2. PInit => ProxyTypeOK /\ SteadyInv
      BY EmptySession DEF PInit, ProxyTypeOK, SteadyInv, NoSession
<1>3. IndInv => TypeOK
      BY DEF IndInv
<1>4. SteadyInv => SteadySessionReachesItsVm
      BY DEF SteadyInv, SteadySessionReachesItsVm
<1> QED
    BY <1>1, <1>2, <1>3, <1>4, IndStep, PortsStep, ServerSteps, ProxyTypeStep,
       SteadyStep, PTL DEF PSpec
=============================================================================
