---------------------------- MODULE LimaWebProofs ----------------------------
(***************************************************************************)
(* Proofs about LimaWeb for any number of instances, requests and ports.   *)
(* IndInv is inductive; it is proved conjunct by conjunct, the typing      *)
(* first, each in a lemma with one step per action.                        *)
(***************************************************************************)
EXTENDS LimaWeb, TLAPS

(* The seven handlers differ in the operation they enter and in the first  *)
(* step they take; this is all the proofs need to know about them.         *)
Enters(op, cmd, pc) ==
    /\ op \in AllOps
    /\ cmd \in {"start", "stop", "delete"}
    /\ op \in {"stop", "delete"} => cmd = op
    /\ op \in {"start", "create", "upload", "bootc"} => cmd = "start"
    /\ op = "restart" => cmd = "stop"
    /\ pc = IF cmd \in {"stop", "delete"} THEN "unregister"
            ELSE IF op \in {"create", "upload"} THEN pc ELSE "lock"
    /\ pc \in {"unregister", "run", "lock", "failed"}
    /\ pc = "run" <=> op = "upload" /\ pc # "failed"
    /\ pc = "failed" => op \in {"create", "upload"}

LEMMA AcceptEnters ==
    ASSUME NEW r \in Requests, NEW i \in Instances, AcceptAny(r, i)
    PROVE  \E op, cmd, pc : Enters(op, cmd, pc) /\ Accept(r, i, op, cmd, pc)
<1>1. Enters("start", "start", "lock") /\ Enters("stop", "stop", "unregister")
      BY DEF Enters, AllOps
<1>2. Enters("restart", "stop", "unregister")
      /\ Enters("delete", "delete", "unregister")
      BY DEF Enters, AllOps
<1>3. Enters("bootc", "start", "lock") /\ Enters("upload", "start", "run")
      /\ Enters("upload", "start", "failed")
      BY DEF Enters, AllOps
<1>4. Enters("create", "start", "lock") /\ Enters("create", "start", "failed")
      BY DEF Enters, AllOps
<1>5. CASE StartInstance(r, i) \/ StopInstance(r, i)
      BY <1>1, <1>5 DEF StartInstance, StopInstance
<1>6. CASE RestartInstance(r, i) \/ DeleteInstance(r, i)
      BY <1>2, <1>6 DEF RestartInstance, DeleteInstance
<1>7. CASE BootcInstance(r, i) \/ UploadInstance(r, i)
      BY <1>3, <1>7 DEF BootcInstance, UploadInstance
<1>8. CASE CreateInstance(r, i)
      BY <1>4, <1>8 DEF CreateInstance
<1> QED
      BY <1>5, <1>6, <1>7, <1>8 DEF AcceptAny

------------------------------------------------------------------------------
(* Typing *)

LEMMA TypeInit == Init => TypeOK
<1>1. Idle \in Request
      BY DEF Idle, Request, Pcs
<1> QED
      BY <1>1 DEF Init, TypeOK

LEMMA TypeStep == TypeOK /\ [Next]_vars => TypeOK'
<1> SUFFICES ASSUME TypeOK, [Next]_vars PROVE TypeOK'
    OBVIOUS
<1> USE DEF TypeOK
<1>0. Idle \in Request
      BY DEF Idle, Request, Pcs
<1>1. CASE Startup
      BY <1>1 DEF Startup, ScanList, ScanRegister, ScanDone, StartVNC, machine
<1>2. ASSUME NEW r \in Requests, NEW i \in Instances, AcceptAny(r, i)
      PROVE  TypeOK'
  <2>1. PICK op, cmd, pc : Enters(op, cmd, pc) /\ Accept(r, i, op, cmd, pc)
        BY <1>2, AcceptEnters
  <2>2. req' \in [Requests -> Request]
    <3> DEFINE new == [op |-> op, inst |-> i, cmd |-> cmd, pc |-> pc,
                       alone |-> ~Busy(i)]
    <3>1. Busy(i) \in BOOLEAN
          BY DEF Busy
    <3>2. new \in Request
          BY <2>1, <3>1 DEF Enters, Request, AllOps, Pcs
    <3>3. \A q \in Requests : [req[q] EXCEPT !.alone = FALSE] \in Request
          BY DEF Request
    <3> HIDE DEF new
    <3>4. req' = [q \in Requests |->
                    IF q = r THEN new
                    ELSE IF req[q].inst = i
                    THEN [req[q] EXCEPT !.alone = FALSE]
                    ELSE req[q]]
          BY <2>1 DEF Accept, new
    <3> QED
          BY <3>2, <3>3, <3>4
  <2>3. disturbed' \in [Instances -> BOOLEAN]
        BY <2>1 DEF Accept, Busy
  <2> QED
        BY <2>1, <2>2, <2>3 DEF Accept, machine, startup
<1>3. ASSUME NEW r \in Requests, Step(r)
      PROVE  TypeOK'
  <2>1. CASE StopVNC(r)
        BY <2>1 DEF StopVNC, Goto, machine, startup, Request, Pcs
  <2>2. CASE AcquireWriteMu(r)
        BY <2>2 DEF AcquireWriteMu, Goto, machine, startup, Request, Pcs
  <2>3. CASE TakeEffect(r)
    <3>1. req' \in [Requests -> Request]
          BY <2>3 DEF TakeEffect, Goto, Request, Pcs
    <3>2. /\ vm' \in [Instances -> {"absent", "Stopped", "Running"}]
          /\ port' \in [Instances -> Ports \cup {NoPort}]
          /\ display' \in [Instances -> Ports \cup {NoPort}]
          BY <2>3 DEF TakeEffect, Launch, Halt, Remove, machine
    <3> QED
          BY <2>3, <3>1, <3>2 DEF TakeEffect, startup
  <2>4. CASE CommandSucceeds(r)
    <3>1. AfterSuccess(req[r]) \in Request
          BY DEF AfterSuccess, Request, Pcs
    <3> QED
          BY <2>4, <3>1 DEF CommandSucceeds, Unlock, machine, startup
  <2>5. CASE CommandFails(r)
        BY <2>5 DEF CommandFails, Unlock, Goto, machine, startup, Request, Pcs
  <2>6. CASE ProbeRunning(r)
        BY <2>6 DEF ProbeRunning, Goto, machine, startup, Request, Pcs
  <2>7. CASE RegisterVNC(r)
    <3>1. req' \in [Requests -> Request]
      <4> DEFINE answer == IF display[req[r].inst] = NoPort THEN "warned"
                                                            ELSE "ok"
      <4>1. answer \in Pcs
            BY DEF Pcs
      <4> HIDE DEF answer
      <4>2. req' = [req EXCEPT ![r].pc = answer]
            BY <2>7 DEF RegisterVNC, Goto, answer
      <4> QED
            BY <4>1, <4>2 DEF Request
    <3>2. entries' \in [Instances -> Ports \cup {NoPort}]
      <4>1. CASE req[r].inst \in Instances
            BY <2>7, <4>1 DEF RegisterVNC, StartVNC
      <4>2. CASE req[r].inst \notin Instances
            BY <2>7, <4>2 DEF RegisterVNC, StartVNC
      <4> QED
            BY <4>1, <4>2
    <3> QED
          BY <2>7, <3>1, <3>2 DEF RegisterVNC, machine, startup
  <2>8. CASE Reply(r)
        BY <2>8, <1>0 DEF Reply, machine, startup
  <2> QED
        BY <1>3, <2>1, <2>2, <2>3, <2>4, <2>5, <2>6, <2>7, <2>8 DEF Step, Command
<1>4. ASSUME NEW i \in Instances, Outside(i)
      PROVE  TypeOK'
  <2>1. /\ vm' \in [Instances -> {"absent", "Stopped", "Running"}]
        /\ port' \in [Instances -> Ports \cup {NoPort}]
        /\ display' \in [Instances -> Ports \cup {NoPort}]
        BY <1>4 DEF Outside, Launch, Halt, machine
  <2>2. req' \in [Requests -> Request]
    <3>1. \A q \in Requests : [req[q] EXCEPT !.alone = FALSE] \in Request
          BY DEF Request
    <3> QED
          BY <1>4, <3>1 DEF Outside
  <2> QED
        BY <1>4, <2>1, <2>2 DEF Outside, startup
<1>5. CASE Crash
      BY <1>5, <1>0 DEF Crash
<1>6. CASE UNCHANGED vars
      BY <1>6 DEF vars
<1> QED
    BY <1>1, <1>2, <1>3, <1>4, <1>5, <1>6 DEF Next, Live

(* Every reachable state has the types of TypeOK. *)
THEOREM TypeCorrect == Spec => []TypeOK
BY TypeInit, TypeStep, PTL DEF Spec

------------------------------------------------------------------------------
(* Mutual exclusion of LimaCtl's mutating commands *)

LEMMA LockStep == TypeOK /\ LockInv /\ [Next]_vars => LockInv'
<1> SUFFICES ASSUME TypeOK, LockInv, [Next]_vars,
                    NEW s \in Requests, Commanding(s)', (req[s].op # "upload")'
             PROVE  writeMu' = s
    BY DEF LockInv
<1> USE DEF TypeOK, LockInv, Commanding
<1>1. CASE Startup
      BY <1>1 DEF Startup, ScanList, ScanRegister, ScanDone
<1>2. ASSUME NEW r \in Requests, NEW i \in Instances, AcceptAny(r, i)
      PROVE  writeMu' = s
  <2>1. PICK op, cmd, pc : Enters(op, cmd, pc) /\ Accept(r, i, op, cmd, pc)
        BY <1>2, AcceptEnters
  <2>2. CASE s = r
        BY <2>1, <2>2 DEF Accept, Enters
  <2>3. CASE s # r
        BY <2>1, <2>3 DEF Accept, Request
  <2> QED
        BY <2>2, <2>3
<1>3. ASSUME NEW r \in Requests, Step(r)
      PROVE  writeMu' = s
  <2>1. CASE StopVNC(r)
        BY <2>1 DEF StopVNC, Goto, Request
  <2>2. CASE AcquireWriteMu(r)
        BY <2>2, ConstantsAssumption DEF AcquireWriteMu, Goto, Request
  <2>3. CASE TakeEffect(r)
        BY <2>3 DEF TakeEffect, Goto, Request
  <2>4. CASE CommandSucceeds(r)
    <3>1. AfterSuccess(req[r]).pc \notin {"run", "took"}
          BY DEF AfterSuccess, Request
    <3> QED
          BY <2>4, <3>1 DEF CommandSucceeds, Unlock
  <2>5. CASE CommandFails(r)
        BY <2>5 DEF CommandFails, Unlock, Goto, Request
  <2>6. CASE ProbeRunning(r)
        BY <2>6 DEF ProbeRunning, Goto, Request
  <2>7. CASE RegisterVNC(r)
        BY <2>7 DEF RegisterVNC, Goto, Request
  <2>8. CASE Reply(r)
        BY <2>8 DEF Reply, Idle
  <2> QED
        BY <1>3, <2>1, <2>2, <2>3, <2>4, <2>5, <2>6, <2>7, <2>8 DEF Step, Command
<1>4. ASSUME NEW i \in Instances, Outside(i)
      PROVE  writeMu' = s
      BY <1>4 DEF Outside, Request
<1>5. CASE Crash
      BY <1>5 DEF Crash, Idle
<1>6. CASE UNCHANGED vars
      BY <1>6 DEF vars
<1> QED
    BY <1>1, <1>2, <1>3, <1>4, <1>5, <1>6 DEF Next, Live

(* LimaCtl's methods never overlap in a mutating limactl command, for any  *)
(* number of requests and whichever commands fail.                         *)
THEOREM LimaCtlIsSerialized == Spec => []LimaCtlSerialized
<1>1. Init => LockInv
      BY DEF Init, LockInv, Commanding, Idle
<1>2. LockInv => LimaCtlSerialized
      BY DEF LockInv, LimaCtlSerialized
<1> QED
    BY <1>1, <1>2, TypeInit, TypeStep, LockStep, PTL DEF Spec

------------------------------------------------------------------------------
(* The machines and the startup scan *)

LEMMA MachineStep == TypeOK /\ MachineInv /\ [Next]_vars => MachineInv'
<1> SUFFICES ASSUME TypeOK, MachineInv, [Next]_vars PROVE MachineInv'
    OBVIOUS
<1> USE DEF TypeOK, MachineInv
<1>1. ASSUME UNCHANGED machine PROVE MachineInv'
      BY <1>1 DEF machine
<1>2. ASSUME NEW i \in Instances, Launch(i) PROVE MachineInv'
  <2>1. CASE vm[i] = "Running"
        BY <1>1, <1>2, <2>1 DEF Launch
  <2>2. CASE vm[i] # "Running"
        BY <1>2, <2>2 DEF Launch
  <2> QED
        BY <2>1, <2>2
<1>3. ASSUME NEW i, Halt(i) PROVE MachineInv'
      BY <1>3 DEF Halt
<1>4. ASSUME NEW i, Remove(i) PROVE MachineInv'
      BY <1>4 DEF Remove
<1>5. CASE Startup
      BY <1>1, <1>5 DEF Startup, ScanList, ScanRegister, ScanDone, machine
<1>6. ASSUME NEW r \in Requests, NEW i \in Instances, AcceptAny(r, i)
      PROVE  MachineInv'
      BY <1>1, <1>6, AcceptEnters DEF Accept
<1>7. ASSUME NEW r \in Requests, Step(r)
      PROVE  MachineInv'
  <2>1. CASE TakeEffect(r)
    <3>1. CASE req[r].inst \in Instances
          BY <1>2, <1>3, <1>4, <2>1, <3>1 DEF TakeEffect
    <3>2. CASE req[r].inst \notin Instances
          BY <1>3, <1>4, <2>1, <3>2 DEF TakeEffect, Launch, machine
    <3> QED
          BY <3>1, <3>2
  <2>2. CASE ~TakeEffect(r)
        BY <1>1, <1>7, <2>2 DEF Step, StopVNC, AcquireWriteMu, Command,
              CommandSucceeds, CommandFails, ProbeRunning, RegisterVNC, Reply
  <2> QED
        BY <2>1, <2>2
<1>8. ASSUME NEW i \in Instances, Outside(i)
      PROVE  MachineInv'
      BY <1>2, <1>3, <1>8 DEF Outside
<1>9. CASE Crash
      BY <1>9 DEF Crash
<1>10. CASE UNCHANGED vars
      BY <1>1, <1>10 DEF vars, machine
<1> QED
    BY <1>5, <1>6, <1>7, <1>8, <1>9, <1>10 DEF Next, Live

(* While lima-web starts up only the scan, the outside and a crash act. *)
LEMMA StartupStep == TypeOK /\ StartupInv /\ [Next]_vars => StartupInv'
<1> SUFFICES ASSUME TypeOK, StartupInv, [Next]_vars PROVE StartupInv'
    OBVIOUS
<1> USE DEF TypeOK, StartupInv
<1>1. CASE Startup
      BY <1>1 DEF Startup, ScanList, ScanRegister, ScanDone, machine
<1>2. ASSUME NEW r \in Requests, NEW i \in Instances, AcceptAny(r, i)
      PROVE  StartupInv'
      BY <1>2, AcceptEnters DEF Accept, startup
<1>3. ASSUME NEW r \in Requests, Step(r)
      PROVE  StartupInv'
  <2>1. req[r].pc # "idle" /\ UNCHANGED startup
        BY <1>3 DEF Step, StopVNC, AcquireWriteMu, Command, TakeEffect,
              CommandSucceeds, CommandFails, ProbeRunning, RegisterVNC, Reply
  <2>2. boot = "serving"
        BY <2>1 DEF Idle
  <2> QED
        BY <2>1, <2>2 DEF startup
<1>4. ASSUME NEW i \in Instances, Outside(i)
      PROVE  StartupInv'
  <2>1. \A j \in Instances : j # i => vm'[j] = vm[j]
        BY <1>4 DEF Outside, Halt, Launch, machine
  <2>2. disturbed' = [disturbed EXCEPT ![i] = TRUE] /\ UNCHANGED startup
        BY <1>4 DEF Outside
  <2>3. boot # "serving" => req' = req
    <3>1. ASSUME boot # "serving", NEW q \in Requests
          PROVE  [req[q] EXCEPT !.alone = FALSE] = req[q]
          BY <3>1 DEF Idle
    <3> QED
          BY <1>4, <3>1 DEF Outside
  <2> QED
        BY <2>1, <2>2, <2>3 DEF startup
<1>5. CASE Crash
      BY <1>5 DEF Crash
<1>6. CASE UNCHANGED vars
      BY <1>6 DEF vars
<1> QED
    BY <1>1, <1>2, <1>3, <1>4, <1>5, <1>6 DEF Next, Live

------------------------------------------------------------------------------
(* A request's step touches only its own goroutine and its own instance. *)

LEMMA StepIsLocal ==
    ASSUME TypeOK, NEW r \in Requests, Step(r)
    PROVE  /\ \A s \in Requests : s # r => req'[s] = req[s]
           /\ \A j \in Instances : j # req[r].inst =>
                 /\ vm'[j] = vm[j]
                 /\ port'[j] = port[j]
                 /\ display'[j] = display[j]
                 /\ entries'[j] = entries[j]
           /\ UNCHANGED <<disturbed, boot, toScan>>
           /\ \/ req'[r] = Idle
              \/ /\ req'[r].inst = req[r].inst
                 /\ req'[r].alone = req[r].alone
                 /\ req'[r].op = req[r].op
<1> USE DEF TypeOK, machine, startup
<1>1. CASE StopVNC(r)
      BY <1>1 DEF StopVNC, Goto, Request
<1>2. CASE AcquireWriteMu(r)
      BY <1>2 DEF AcquireWriteMu, Goto, Request
<1>3. CASE TakeEffect(r)
      BY <1>3 DEF TakeEffect, Goto, Request, Launch, Halt, Remove
<1>4. CASE CommandSucceeds(r)
      BY <1>4 DEF CommandSucceeds, AfterSuccess, Request
<1>5. CASE CommandFails(r)
      BY <1>5 DEF CommandFails, Goto, Request
<1>6. CASE ProbeRunning(r)
      BY <1>6 DEF ProbeRunning, Goto, Request
<1>7. CASE RegisterVNC(r)
      BY <1>7 DEF RegisterVNC, StartVNC, Goto, Request
<1>8. CASE Reply(r)
      BY <1>8 DEF Reply
<1> QED
    BY <1>1, <1>2, <1>3, <1>4, <1>5, <1>6, <1>7, <1>8 DEF Step, Command

(* What a newly accepted request looks like, and what it does to others. *)
LEMMA AcceptFacts ==
    ASSUME TypeOK, NEW r \in Requests, NEW i \in Instances, AcceptAny(r, i)
    PROVE  \E op, cmd, pc :
              /\ Enters(op, cmd, pc)
              /\ req'[r].op = op /\ req'[r].cmd = cmd /\ req'[r].pc = pc
              /\ req'[r].inst = i
              /\ req'[r].alone => \A s \in Requests : req[s].inst # i
              /\ \A s \in Requests : req[s].inst = i => disturbed'[i]
              /\ ~disturbed'[i] => ~disturbed[i] /\ req'[r].alone
              /\ \A j \in Instances : j # i => disturbed'[j] = disturbed[j]
              /\ \A s \in Requests : s # r =>
                    /\ req'[s].inst = req[s].inst
                    /\ req'[s].alone => req'[s] = req[s] /\ req[s].inst # i
                    /\ req[s].inst # i => req'[s] = req[s]
              /\ boot = "serving"
              /\ UNCHANGED <<vm, port, display, entries, boot, toScan>>
<1>1. PICK op, cmd, pc : Enters(op, cmd, pc) /\ Accept(r, i, op, cmd, pc)
      BY AcceptEnters
<1>2. UNCHANGED <<vm, port, display, entries, boot, toScan>>
      /\ boot = "serving"
      BY <1>1 DEF Accept, machine, startup
<1>3. /\ req'[r].op = op /\ req'[r].cmd = cmd /\ req'[r].pc = pc
      /\ req'[r].inst = i
      BY <1>1 DEF Accept
<1>4. req'[r].alone <=> ~Busy(i)
      BY <1>1 DEF Accept
<1>5. disturbed'[i] <=> disturbed[i] \/ Busy(i)
      BY <1>1 DEF Accept, TypeOK
<1>6. \A j \in Instances : j # i => disturbed'[j] = disturbed[j]
      BY <1>1 DEF Accept, TypeOK
<1>7. \A s \in Requests : s # r =>
         /\ req'[s].inst = req[s].inst
         /\ req'[s].alone => req'[s] = req[s] /\ req[s].inst # i
         /\ req[s].inst # i => req'[s] = req[s]
      BY <1>1 DEF Accept, TypeOK, Request
<1> QED
    BY <1>1, <1>2, <1>3, <1>4, <1>5, <1>6, <1>7 DEF Busy

(* What an outside change or a scan step leaves alone. *)
LEMMA OutsideFacts ==
    ASSUME TypeOK, NEW i \in Instances, Outside(i)
    PROVE  /\ disturbed' = [disturbed EXCEPT ![i] = TRUE]
           /\ UNCHANGED <<entries, boot, toScan>>
           /\ \A j \in Instances : j # i =>
                 /\ vm'[j] = vm[j]
                 /\ port'[j] = port[j]
                 /\ display'[j] = display[j]
           /\ \A s \in Requests :
                 /\ req'[s].inst = req[s].inst
                 /\ req'[s].alone => req'[s] = req[s] /\ req[s].inst # i
                 /\ req[s].inst # i => req'[s] = req[s]
<1>1. /\ disturbed' = [disturbed EXCEPT ![i] = TRUE]
      /\ UNCHANGED <<entries, boot, toScan>>
      BY DEF Outside, startup
<1>2. \A j \in Instances : j # i =>
         /\ vm'[j] = vm[j]
         /\ port'[j] = port[j]
         /\ display'[j] = display[j]
      BY DEF Outside, TypeOK, Halt, Launch, machine
<1>3. \A s \in Requests :
         /\ req'[s].inst = req[s].inst
         /\ req'[s].alone => req'[s] = req[s] /\ req[s].inst # i
         /\ req[s].inst # i => req'[s] = req[s]
      BY DEF Outside, TypeOK, Request
<1> QED
    BY <1>1, <1>2, <1>3

------------------------------------------------------------------------------
(* Who is alone on an instance *)

LEMMA AloneStep == TypeOK /\ AloneInv /\ [Next]_vars => AloneInv'
<1> SUFFICES ASSUME TypeOK, AloneInv, [Next]_vars PROVE AloneInv'
    OBVIOUS
<1> USE DEF AloneInv
<1>1. CASE Startup
      BY <1>1 DEF Startup, ScanList, ScanRegister, ScanDone
<1>2. ASSUME NEW r \in Requests, NEW i \in Instances, AcceptAny(r, i)
      PROVE  AloneInv'
      BY <1>2, AcceptFacts
<1>3. ASSUME NEW r \in Requests, Step(r)
      PROVE  AloneInv'
      BY <1>3, StepIsLocal, ConstantsAssumption DEF Idle
<1>4. ASSUME NEW i \in Instances, Outside(i)
      PROVE  AloneInv'
      BY <1>4, OutsideFacts DEF TypeOK
<1>5. CASE Crash
      BY <1>5, ConstantsAssumption DEF Crash, Idle
<1>6. CASE UNCHANGED vars
      BY <1>6 DEF vars
<1> QED
    BY <1>1, <1>2, <1>3, <1>4, <1>5, <1>6 DEF Next, Live

------------------------------------------------------------------------------
(* The registry against the machines *)

LEMMA ConsoleStep ==
    /\ TypeOK /\ MachineInv /\ StartupInv /\ AloneInv /\ ProgressInv
    /\ ConsoleMatchesVm /\ [Next]_vars
    => ConsoleMatchesVm'
<1> SUFFICES ASSUME TypeOK, MachineInv, StartupInv, AloneInv, ProgressInv,
                    ConsoleMatchesVm, [Next]_vars,
                    NEW j \in Instances, ~disturbed'[j], entries'[j] # NoPort
             PROVE  vm'[j] = "Running" /\ entries'[j] = port'[j]
    BY DEF ConsoleMatchesVm
<1> USE DEF TypeOK, MachineInv, ConsoleMatchesVm
<1>1. CASE Startup
      BY <1>1 DEF Startup, ScanList, ScanRegister, ScanDone, StartVNC, machine,
            StartupInv
<1>2. ASSUME NEW r \in Requests, NEW i \in Instances, AcceptAny(r, i)
      PROVE  vm'[j] = "Running" /\ entries'[j] = port'[j]
      BY <1>2, AcceptFacts
<1>3. ASSUME NEW r \in Requests, Step(r)
      PROVE  vm'[j] = "Running" /\ entries'[j] = port'[j]
  <2>1. ~disturbed[j]
        BY <1>3, StepIsLocal
  <2>2. CASE req[r].inst # j
        BY <1>3, <2>1, <2>2, StepIsLocal
  <2>3. CASE req[r].inst = j
    <3>1. req[r].alone
          BY <2>1, <2>3 DEF AloneInv
    <3>2. CASE StopVNC(r)
          BY <2>3, <3>2 DEF StopVNC
    <3>3. CASE TakeEffect(r)
      <4>1. entries' = entries
            BY <3>3 DEF TakeEffect
      <4>2. CASE req[r].cmd \in {"stop", "delete"}
            BY <2>3, <3>1, <3>3, <4>1, <4>2 DEF TakeEffect, ProgressInv
      <4>3. CASE req[r].cmd = "start"
            BY <2>1, <2>3, <3>3, <4>1, <4>3 DEF TakeEffect, Launch, machine
      <4> QED
            BY <3>3, <4>2, <4>3 DEF TakeEffect
    <3>4. CASE RegisterVNC(r)
      <4>1. vm[j] = "Running"
            BY <2>3, <3>1, <3>4 DEF RegisterVNC, ProgressInv
      <4> QED
            BY <2>1, <2>3, <3>4, <4>1 DEF RegisterVNC, StartVNC, machine
    <3>5. CASE AcquireWriteMu(r) \/ CommandSucceeds(r) \/ CommandFails(r)
               \/ ProbeRunning(r) \/ Reply(r)
          BY <2>1, <3>5 DEF AcquireWriteMu, CommandSucceeds, CommandFails,
                ProbeRunning, Reply, machine
    <3> QED
          BY <1>3, <3>2, <3>3, <3>4, <3>5 DEF Step, Command
  <2> QED
        BY <2>2, <2>3
<1>4. ASSUME NEW i \in Instances, Outside(i)
      PROVE  vm'[j] = "Running" /\ entries'[j] = port'[j]
      BY <1>4, OutsideFacts
<1>5. CASE Crash
      BY <1>5 DEF Crash
<1>6. CASE UNCHANGED vars
      BY <1>6 DEF vars
<1> QED
    BY <1>1, <1>2, <1>3, <1>4, <1>5, <1>6 DEF Next, Live

------------------------------------------------------------------------------
(* How far requests are, and what they answer *)

(* The part of ProgressInv and AnswerIsTrue that speaks of one request. *)
Progress(q) ==
    LET i == q.inst IN
    /\ q.op # "none"
    /\ q.op \in {"stop", "delete"} => q.cmd = q.op
    /\ q.op = "restart" => q.cmd \in {"stop", "start"}
    /\ q.op \in {"start", "create", "upload", "bootc"} => q.cmd = "start"
    /\ q.pc = "register" => q.cmd = "start" /\ q.op \in Starts
    /\ q.pc = "warned" => q.op \in Starts
    /\ q.pc = "probe" => q.op = "bootc"
    /\ /\ q.cmd \in {"stop", "delete"}
       /\ q.pc \in {"lock", "run", "took", "ok", "failed"}
       => entries[i] = NoPort
    /\ q.pc = "took" =>
          vm[i] = IF q.cmd = "start" THEN "Running"
                  ELSE IF q.cmd = "stop" THEN "Stopped" ELSE "absent"
    /\ q.pc = "register" => vm[i] = "Running"

Truth(q) ==
    LET i == q.inst IN
    /\ q.pc = "ok" /\ q.op \in Starts =>
          vm[i] = "Running" /\ port[i] # NoPort /\ entries[i] = port[i]
    /\ q.pc = "warned" => vm[i] = "Running" /\ port[i] = NoPort
    /\ q.pc = "ok" /\ q.op = "bootc" => vm[i] = "Running"
    /\ q.pc = "ok" /\ q.op = "stop" => vm[i] = "Stopped"
    /\ q.pc = "ok" /\ q.op = "delete" => vm[i] = "absent"
    /\ q.pc \in {"ok", "failed"} /\ q.op \in {"stop", "delete"} =>
          entries[i] = NoPort

LEMMA PerRequest ==
    /\ ProgressInv <=> \A r \in Requests : req[r].alone => Progress(req[r])
    /\ AnswerIsTrue <=> \A r \in Requests : req[r].alone => Truth(req[r])
BY DEF ProgressInv, AnswerIsTrue, Progress, Truth

(* The step of the request itself, when it is alone on its instance. *)
LEMMA OwnStep ==
    ASSUME TypeOK, MachineInv, NEW r \in Requests, Step(r),
           req[r].inst \in Instances, Progress(req[r]), Truth(req[r]),
           req'[r].alone
    PROVE  Progress(req[r])' /\ Truth(req[r])'
<1> USE DEF TypeOK
<1> DEFINE i == req[r].inst
<1>1. CASE StopVNC(r)
      BY <1>1 DEF StopVNC, Goto, machine, Request, Progress, Truth, Starts
<1>2. CASE AcquireWriteMu(r)
      BY <1>2 DEF AcquireWriteMu, Goto, machine, Request, Progress, Truth
<1>3. CASE TakeEffect(r)
  <2>1. req'[r] = [req[r] EXCEPT !.pc = "took"] /\ req[r].pc = "run"
        /\ entries' = entries
        BY <1>3 DEF TakeEffect, Goto
  <2>2. vm'[i] = IF req[r].cmd = "start" THEN "Running"
                 ELSE IF req[r].cmd = "stop" THEN "Stopped" ELSE "absent"
    <3>1. CASE req[r].cmd = "start" /\ Launch(i)
          BY <3>1 DEF Launch, machine
    <3>2. CASE req[r].cmd = "stop" /\ Halt(i)
          BY <3>2 DEF Halt
    <3>3. CASE req[r].cmd = "delete" /\ Remove(i)
          BY <3>3 DEF Remove
    <3> QED
          BY <1>3, <3>1, <3>2, <3>3 DEF TakeEffect
  <2> QED
        BY <2>1, <2>2 DEF Request, Progress, Truth
<1>4. CASE CommandSucceeds(r)
  <2>1. /\ req'[r] = AfterSuccess(req[r]) /\ req[r].pc = "took"
        /\ UNCHANGED <<vm, port, display, entries>>
        BY <1>4 DEF CommandSucceeds, machine
  <2>2. req[r].op \in AllOps \cup {"none"}
        BY DEF Request
  <2>3. CASE req[r].cmd = "start" /\ req[r].op # "bootc"
        BY <2>1, <2>3 DEF AfterSuccess, Request, Progress, Truth, Starts, AllOps
  <2>4. CASE req[r].cmd = "stop" /\ req[r].op = "restart"
        BY <2>1, <2>4 DEF AfterSuccess, Request, Progress, Truth, Starts, AllOps
  <2>5. CASE /\ ~(req[r].cmd = "start" /\ req[r].op # "bootc")
             /\ ~(req[r].cmd = "stop" /\ req[r].op = "restart")
        BY <2>1, <2>5 DEF AfterSuccess, Request, Progress, Truth, Starts, AllOps
  <2> QED
        BY <2>3, <2>4, <2>5
<1>5. CASE CommandFails(r)
      BY <1>5 DEF CommandFails, Goto, machine, Request, Progress, Truth
<1>6. CASE ProbeRunning(r)
      BY <1>6 DEF ProbeRunning, Goto, machine, Request, Progress, Truth, Starts
<1>7. CASE RegisterVNC(r)
  <2>1. /\ req[r].pc = "register"
        /\ req'[r] = [req[r] EXCEPT !.pc = IF display[i] = NoPort THEN "warned"
                                                                 ELSE "ok"]
        /\ UNCHANGED <<vm, port, display>>
        BY <1>7 DEF RegisterVNC, Goto, machine
  <2>2. vm[i] = "Running" /\ display[i] = port[i]
        BY <2>1 DEF Progress, MachineInv
  <2>3. CASE display[i] = NoPort
        BY <2>1, <2>2, <2>3 DEF Request, Progress, Truth, Starts
  <2>4. CASE display[i] # NoPort
    <3>1. entries'[i] = port[i]
          BY <1>7, <2>2, <2>4 DEF RegisterVNC, StartVNC
    <3> QED
          BY <2>1, <2>2, <2>4, <3>1 DEF Request, Progress, Truth, Starts
  <2> QED
        BY <2>3, <2>4
<1>8. CASE Reply(r)
      BY <1>8 DEF Reply, Idle
<1> QED
    BY <1>1, <1>2, <1>3, <1>4, <1>5, <1>6, <1>7, <1>8 DEF Step, Command

LEMMA AnswerStep ==
    /\ TypeOK /\ MachineInv /\ StartupInv /\ AloneInv /\ ProgressInv
    /\ AnswerIsTrue /\ [Next]_vars
    => ProgressInv' /\ AnswerIsTrue'
<1> SUFFICES ASSUME TypeOK, MachineInv, StartupInv, AloneInv, [Next]_vars,
                    \A s \in Requests : req[s].alone =>
                        Progress(req[s]) /\ Truth(req[s]),
                    NEW s \in Requests, req'[s].alone
             PROVE  Progress(req[s])' /\ Truth(req[s])'
  <2>1. /\ ProgressInv' <=>
              \A r \in Requests : req'[r].alone => Progress(req[r])'
        /\ AnswerIsTrue' <=>
              \A r \in Requests : req'[r].alone => Truth(req[r])'
        BY DEF ProgressInv, AnswerIsTrue, Progress, Truth
  <2> QED
        BY <2>1, PerRequest
(* A request keeps its facts when neither it nor its instance changes. *)
<1>1. ASSUME req'[s] = req[s], req[s].inst \in Instances,
             vm'[req[s].inst] = vm[req[s].inst],
             port'[req[s].inst] = port[req[s].inst],
             entries'[req[s].inst] = entries[req[s].inst]
      PROVE  Progress(req[s])' /\ Truth(req[s])'
      BY <1>1 DEF Progress, Truth
<1>2. CASE Startup
  <2>1. ~req[s].alone /\ req' = req
        BY <1>2 DEF Startup, ScanList, ScanRegister, ScanDone, StartupInv, Idle
  <2> QED
        BY <2>1
<1>3. ASSUME NEW r \in Requests, NEW i \in Instances, AcceptAny(r, i)
      PROVE  Progress(req[s])' /\ Truth(req[s])'
  <2>1. CASE s = r
        BY <1>3, <2>1, AcceptFacts
           DEF Enters, AllOps, Starts, Progress, Truth
  <2>2. CASE s # r
    <3>1. req'[s] = req[s] /\ UNCHANGED <<vm, port, entries>>
          BY <1>3, <2>2, AcceptFacts
    <3> QED
          BY <1>1, <3>1 DEF AloneInv
  <2> QED
        BY <2>1, <2>2
<1>4. ASSUME NEW r \in Requests, Step(r)
      PROVE  Progress(req[s])' /\ Truth(req[s])'
  <2>1. CASE s = r
    <3>1. req[r].alone
          BY <1>4, <2>1, StepIsLocal DEF Idle
    <3> QED
          BY <1>4, <2>1, <3>1, OwnStep DEF AloneInv
  <2>2. CASE s # r
    <3>1. req'[s] = req[s] /\ req[s].inst \in Instances
          BY <1>4, <2>2, StepIsLocal DEF AloneInv
    <3>2. req[r].inst # req[s].inst
          BY <2>2, <3>1 DEF AloneInv
    <3> QED
          BY <1>1, <1>4, <3>1, <3>2, StepIsLocal
  <2> QED
        BY <2>1, <2>2
<1>5. ASSUME NEW i \in Instances, Outside(i)
      PROVE  Progress(req[s])' /\ Truth(req[s])'
      BY <1>1, <1>5, OutsideFacts DEF AloneInv
<1>6. CASE Crash
      BY <1>6 DEF Crash, Idle
<1>7. CASE UNCHANGED vars
      BY <1>7 DEF vars, Progress, Truth
<1> QED
    BY <1>2, <1>3, <1>4, <1>5, <1>6, <1>7 DEF Next, Live

------------------------------------------------------------------------------
(* The inductive invariant and its consequences *)

LEMMA IndInit == Init => IndInv
<1> SUFFICES ASSUME Init PROVE IndInv
    OBVIOUS
<1>1. TypeOK
      BY TypeInit
<1>2. LockInv /\ MachineInv /\ StartupInv
      BY DEF Init, LockInv, MachineInv, StartupInv, Commanding, Idle
<1>3. AloneInv /\ ProgressInv /\ AnswerIsTrue
      BY ConstantsAssumption DEF Init, AloneInv, ProgressInv, AnswerIsTrue, Idle
<1>4. ConsoleMatchesVm
      BY DEF Init, ConsoleMatchesVm
<1> QED
    BY <1>1, <1>2, <1>3, <1>4 DEF IndInv

(* Every step keeps the inductive invariant. *)
LEMMA IndStep == IndInv /\ [Next]_vars => IndInv'
BY TypeStep, LockStep, MachineStep, StartupStep, AloneStep, ConsoleStep,
   AnswerStep DEF IndInv

(* IndInv holds in every reachable state. *)
THEOREM IndInvInductive == Spec => []IndInv
BY IndInit, IndStep, PTL DEF Spec

(* A console in the registry of an undisturbed instance is that of its     *)
(* running machine.                                                        *)
THEOREM ConsolesMatch == Spec => []ConsoleMatchesVm
<1>1. IndInv => ConsoleMatchesVm
      BY DEF IndInv
<1> QED
    BY <1>1, IndInvInductive, PTL

(* The answer of a request that had its instance to itself is true. *)
THEOREM AnswersAreTrue == Spec => []AnswerIsTrue
<1>1. IndInv => AnswerIsTrue
      BY DEF IndInv
<1> QED
    BY <1>1, IndInvInductive, PTL

------------------------------------------------------------------------------
(* The serial executor *)

(* Who holds writeMu is at a command; uploads never queue for it. *)
HolderInv ==
    /\ writeMu # Free =>
          req[writeMu].pc \in {"run", "took"} /\ req[writeMu].op # "upload"
    /\ \A r \in Requests : req[r].pc # "idle" =>
          /\ req[r].inst \in Instances
          /\ req[r].cmd \in {"start", "stop", "delete"}
          /\ req[r].op = "upload" =>
                req[r].cmd = "start" /\ req[r].pc \notin {"unregister", "lock"}

LEMMA HolderStep ==
    TypeOK /\ HolderInv /\ [Next]_vars => HolderInv'
<1> SUFFICES ASSUME TypeOK, HolderInv, [Next]_vars PROVE HolderInv'
    OBVIOUS
<1> USE DEF TypeOK, HolderInv
<1>1. CASE Startup
      BY <1>1 DEF Startup, ScanList, ScanRegister, ScanDone
<1>2. ASSUME NEW r \in Requests, NEW i \in Instances, AcceptAny(r, i)
      PROVE  HolderInv'
  <2>1. PICK op, cmd, pc : Enters(op, cmd, pc) /\ Accept(r, i, op, cmd, pc)
        BY <1>2, AcceptEnters
  <2>2. /\ writeMu' = writeMu /\ req[r].pc = "idle"
        /\ req'[r].inst = i /\ req'[r].op = op /\ req'[r].cmd = cmd
        /\ req'[r].pc = pc
        /\ \A s \in Requests : s # r =>
              /\ req'[s].inst = req[s].inst /\ req'[s].op = req[s].op
              /\ req'[s].cmd = req[s].cmd /\ req'[s].pc = req[s].pc
        BY <2>1 DEF Accept, Request
  <2>3. /\ cmd \in {"start", "stop", "delete"}
        /\ op = "upload" => cmd = "start" /\ pc \notin {"unregister", "lock"}
        BY <2>1 DEF Enters
  <2> QED
        BY <2>2, <2>3
<1>3. ASSUME NEW r \in Requests, Step(r)
      PROVE  HolderInv'
  <2>1. CASE StopVNC(r)
        BY <2>1 DEF StopVNC, Goto, Request
  <2>2. CASE AcquireWriteMu(r)
        BY <2>2 DEF AcquireWriteMu, Goto, Request
  <2>3. CASE TakeEffect(r)
        BY <2>3 DEF TakeEffect, Goto, Request
  <2>4. CASE CommandSucceeds(r)
    <3>1. /\ AfterSuccess(req[r]).inst = req[r].inst
          /\ AfterSuccess(req[r]).op = req[r].op
          /\ AfterSuccess(req[r]).cmd \in {req[r].cmd, "start"}
          /\ req[r].op = "upload" /\ req[r].cmd = "start"
                => AfterSuccess(req[r]).pc = "register"
          BY DEF AfterSuccess, Request
    <3> QED
          BY <2>4, <3>1 DEF CommandSucceeds, Unlock
  <2>5. CASE CommandFails(r)
        BY <2>5 DEF CommandFails, Unlock, Goto, Request
  <2>6. CASE ProbeRunning(r)
        BY <2>6 DEF ProbeRunning, Goto, Request
  <2>7. CASE RegisterVNC(r)
        BY <2>7 DEF RegisterVNC, Goto, Request
  <2>8. CASE Reply(r)
        BY <2>8 DEF Reply, Idle
  <2> QED
        BY <1>3, <2>1, <2>2, <2>3, <2>4, <2>5, <2>6, <2>7, <2>8 DEF Step, Command
<1>4. ASSUME NEW i \in Instances, Outside(i)
      PROVE  HolderInv'
  <2>1. writeMu' = writeMu
        BY <1>4 DEF Outside
  <2>2. \A s \in Requests :
           /\ req'[s].inst = req[s].inst /\ req'[s].op = req[s].op
           /\ req'[s].cmd = req[s].cmd /\ req'[s].pc = req[s].pc
        BY <1>4 DEF Outside, Request
  <2> QED
        BY <2>1, <2>2
<1>5. CASE Crash
      BY <1>5 DEF Crash, Idle
<1>6. CASE UNCHANGED vars
      BY <1>6 DEF vars
<1> QED
    BY <1>1, <1>2, <1>3, <1>4, <1>5, <1>6 DEF Next, Live

(* What the executor shows of a goroutine that does not hold writeMu, or   *)
(* goes on with its command: nothing.                                      *)
LEMMA CurrentKept ==
    ASSUME writeMu' = writeMu,
           writeMu # Free =>
             /\ req'[writeMu].inst = req[writeMu].inst
             /\ req'[writeMu].cmd = req[writeMu].cmd
             /\ (req'[writeMu].pc = "took") = (req[writeMu].pc = "took")
    PROVE  CurrentCommand' = CurrentCommand
BY DEF CurrentCommand

LEMMA DoneRecord ==
    ASSUME NEW i, NEW c, NEW d, NEW e
    PROVE  [[inst |-> i, cmd |-> c, done |-> d] EXCEPT !.done = e]
             = [inst |-> i, cmd |-> c, done |-> e]
OBVIOUS

LEMMA SerialStep ==
    TypeOK /\ LockInv /\ HolderInv /\ [Next]_vars
    => [Serial!SerialNext]_(Serial!svars)
<1> SUFFICES ASSUME TypeOK, LockInv, HolderInv, [Next]_vars
             PROVE  \/ Serial!SerialNext
                    \/ vm' = vm /\ CurrentCommand' = CurrentCommand
    BY DEF Serial!svars
<1> DEFINE Goal == \/ Serial!SerialNext
                   \/ vm' = vm /\ CurrentCommand' = CurrentCommand
<1> USE DEF TypeOK
<1>0. writeMu # Free => writeMu \in Requests
      OBVIOUS
<1>1. CASE Startup
  <2>1. vm' = vm /\ writeMu' = writeMu /\ req' = req
        BY <1>1 DEF Startup, ScanList, ScanRegister, ScanDone, machine
  <2> QED
        BY <2>1, CurrentKept
<1>2. ASSUME NEW r \in Requests, NEW i \in Instances, AcceptAny(r, i)
      PROVE  Goal
  <2>1. PICK op, cmd, pc : Enters(op, cmd, pc) /\ Accept(r, i, op, cmd, pc)
        BY <1>2, AcceptEnters
  <2>2. /\ vm' = vm /\ writeMu' = writeMu /\ req[r].pc = "idle"
        /\ \A s \in Requests : s # r =>
              /\ req'[s].inst = req[s].inst
              /\ req'[s].cmd = req[s].cmd /\ req'[s].pc = req[s].pc
        BY <2>1 DEF Accept, Request, machine
  <2>3. writeMu # r
        BY <1>0, <2>2, ConstantsAssumption DEF HolderInv
  <2> QED
        BY <1>0, <2>2, <2>3, CurrentKept
<1>3. ASSUME NEW r \in Requests, Step(r)
      PROVE  Goal
  <2>1. CASE StopVNC(r) \/ ProbeRunning(r) \/ RegisterVNC(r) \/ Reply(r)
    <3>1. /\ vm' = vm /\ writeMu' = writeMu
          /\ req[r].pc \notin {"run", "took"}
          BY <2>1 DEF StopVNC, ProbeRunning, RegisterVNC, Reply, machine
    <3>2. writeMu # r
          BY <3>1, ConstantsAssumption DEF HolderInv
    <3>3. \A s \in Requests : s # r => req'[s] = req[s]
          BY <1>3, StepIsLocal
    <3> QED
          BY <1>0, <3>1, <3>2, <3>3, CurrentKept
  <2>2. CASE AcquireWriteMu(r)
    <3>1. /\ vm' = vm /\ writeMu = Free /\ writeMu' = r /\ r # Free
          /\ req[r].pc = "lock"
          /\ req'[r].inst = req[r].inst /\ req'[r].cmd = req[r].cmd
          /\ req'[r].pc = "run"
          BY <2>2, ConstantsAssumption DEF AcquireWriteMu, Goto, machine, Request
    <3>2. req[r].inst \in Instances /\ req[r].cmd \in Serial!Commands
          BY <3>1 DEF HolderInv, Serial!Commands
    <3>3. CurrentCommand = Serial!NoCommand
          BY <3>1 DEF CurrentCommand, Serial!NoCommand
    <3>4. CurrentCommand' = [inst |-> req[r].inst, cmd |-> req[r].cmd,
                             done |-> FALSE]
          BY <3>1 DEF CurrentCommand
    <3>5. Serial!Begin(req[r].inst, req[r].cmd)
          BY <3>1, <3>3, <3>4 DEF Serial!Begin
    <3> QED
          BY <3>2, <3>5 DEF Serial!SerialNext
  <2>3. CASE TakeEffect(r)
    <3>1. /\ req[r].pc = "run" /\ writeMu' = writeMu
          /\ req'[r].inst = req[r].inst /\ req'[r].cmd = req[r].cmd
          /\ req'[r].pc = "took"
          /\ \A s \in Requests : s # r => req'[s] = req[s]
          BY <2>3 DEF TakeEffect, Goto, Request
    <3>2. /\ req[r].inst \in Instances
          /\ req[r].op = "upload" => req[r].cmd = "start"
          BY <3>1 DEF HolderInv
    <3>3. vm' = [vm EXCEPT ![req[r].inst] = Serial!Outcome(req[r].cmd)]
      <4>1. CASE req[r].cmd = "start" /\ Launch(req[r].inst)
            BY <3>2, <4>1 DEF Launch, machine, Serial!Outcome
      <4>2. CASE req[r].cmd = "stop" /\ Halt(req[r].inst)
            BY <4>2 DEF Halt, Serial!Outcome
      <4>3. CASE req[r].cmd = "delete" /\ Remove(req[r].inst)
            BY <4>3 DEF Remove, Serial!Outcome
      <4> QED
            BY <2>3, <4>1, <4>2, <4>3 DEF TakeEffect
    <3>4. CASE writeMu = r
      <4>1. /\ CurrentCommand = [inst |-> req[r].inst, cmd |-> req[r].cmd,
                                 done |-> FALSE]
            /\ CurrentCommand' = [inst |-> req[r].inst, cmd |-> req[r].cmd,
                                  done |-> TRUE]
            BY <3>1, <3>4, ConstantsAssumption DEF CurrentCommand
      <4>2. CurrentCommand # Serial!NoCommand
            BY <3>2, <4>1, ConstantsAssumption DEF Serial!NoCommand
      <4>3. /\ ~CurrentCommand.done
            /\ CurrentCommand.inst = req[r].inst
            /\ CurrentCommand.cmd = req[r].cmd
            BY <4>1
      <4>4. [CurrentCommand EXCEPT !.done = TRUE]
              = [inst |-> req[r].inst, cmd |-> req[r].cmd, done |-> TRUE]
            BY <4>1, DoneRecord
      <4>5. Serial!Perform
            BY <3>3, <4>1, <4>2, <4>3, <4>4 DEF Serial!Perform
      <4> QED
            BY <4>5 DEF Serial!SerialNext
    <3>5. CASE writeMu # r
      <4>1. req[r].cmd = "start"
            BY <3>1, <3>2, <3>5 DEF LockInv, Commanding
      <4>2. CurrentCommand' = CurrentCommand
            BY <1>0, <3>1, <3>5, CurrentKept
      <4>3. Serial!OtherStarts(req[r].inst)
            BY <3>3, <4>1, <4>2 DEF Serial!OtherStarts, Serial!Outcome
      <4> QED
            BY <3>2, <4>3 DEF Serial!SerialNext
    <3> QED
          BY <3>4, <3>5
  <2>4. CASE CommandSucceeds(r) \/ CommandFails(r)
    <3>1. /\ vm' = vm /\ writeMu' = IF writeMu = r THEN Free ELSE writeMu
          /\ req[r].pc # "idle"
          BY <2>4 DEF CommandSucceeds, CommandFails, Unlock, machine
    <3>2. CASE writeMu = r
      <4>1. CurrentCommand' = Serial!NoCommand
            BY <3>1, <3>2 DEF CurrentCommand, Serial!NoCommand
      <4>2. CurrentCommand.inst \in Instances
            BY <3>1, <3>2, ConstantsAssumption DEF CurrentCommand, HolderInv
      <4>3. CurrentCommand # Serial!NoCommand
            BY <4>2, ConstantsAssumption DEF Serial!NoCommand
      <4>4. Serial!End
            BY <3>1, <4>1, <4>3 DEF Serial!End
      <4> QED
            BY <4>4 DEF Serial!SerialNext
    <3>3. CASE writeMu # r
      <4>1. \A s \in Requests : s # r => req'[s] = req[s]
            BY <1>3, StepIsLocal
      <4> QED
            BY <1>0, <3>1, <3>3, <4>1, CurrentKept
    <3> QED
          BY <3>2, <3>3
  <2> QED
        BY <1>3, <2>1, <2>2, <2>3, <2>4 DEF Step, Command
<1>4. ASSUME NEW i \in Instances, Outside(i)
      PROVE  Goal
  <2>1. /\ writeMu' = writeMu
        /\ \A s \in Requests :
              /\ req'[s].inst = req[s].inst
              /\ req'[s].cmd = req[s].cmd /\ req'[s].pc = req[s].pc
        BY <1>4 DEF Outside, Request
  <2>2. CurrentCommand' = CurrentCommand
        BY <1>0, <2>1, CurrentKept
  <2>3. CASE vm[i] = "Running" /\ Halt(i)
    <3>1. Serial!OtherStops(i)
          BY <1>4, <2>2, <2>3 DEF Outside, Halt, Serial!OtherStops
    <3> QED
          BY <3>1 DEF Serial!SerialNext
  <2>4. CASE vm[i] # "Running" /\ Launch(i)
    <3>1. Serial!OtherStarts(i)
          BY <2>2, <2>4 DEF Launch, Serial!OtherStarts
    <3> QED
          BY <3>1 DEF Serial!SerialNext
  <2> QED
        BY <1>4, <2>3, <2>4 DEF Outside
<1>5. CASE Crash
  <2>1. CurrentCommand' = Serial!NoCommand
        BY <1>5 DEF Crash, CurrentCommand, Serial!NoCommand
  <2>2. /\ vm' \in [Instances -> {"absent", "Stopped", "Running"}]
        /\ \A i \in Instances :
              vm'[i] # vm[i] => vm[i] = "Running" /\ vm'[i] = "Stopped"
        BY <1>5 DEF Crash
  <2>3. Serial!Restart
        BY <2>1, <2>2 DEF Serial!Restart
  <2> QED
        BY <2>3 DEF Serial!SerialNext
<1>6. CASE UNCHANGED vars
      BY <1>6, CurrentKept DEF vars
<1> QED
    BY <1>1, <1>2, <1>3, <1>4, <1>5, <1>6 DEF Next, Live

(* The server is a serial executor of limactl commands, whatever requests  *)
(* overlap, fail or die with it; only lima-up and the outside act beside   *)
(* it, and lima-up only ever starts a machine.                             *)
THEOREM ServerIsSerial == Spec => ImplementsSerialLimactl
<1>1. Init => TypeOK /\ LockInv /\ HolderInv
      BY TypeInit DEF Init, LockInv, HolderInv, Commanding, Idle
<1>2. Init => Serial!SerialInit
      BY DEF Init, Serial!SerialInit, Serial!NoCommand, CurrentCommand
<1> QED
    BY <1>1, <1>2, TypeStep, LockStep, HolderStep, SerialStep, PTL
    DEF Spec, ImplementsSerialLimactl, Serial!SerialSpec
=============================================================================
