------------------------------- MODULE LimaWeb -------------------------------
(***************************************************************************)
(* The lima-web HTTP server around one Lima home: the handlers that start, *)
(* stop, restart, delete and create virtual machines (handlers.go), the    *)
(* serialised limactl wrapper (lima.go), the console registry (vnc.go) and *)
(* the startup scan (main.go).                                             *)
(*                                                                         *)
(* Every HTTP request runs on a goroutine of its own.  A handler is cut    *)
(* into the steps other goroutines can see between: the registry update    *)
(* (whole under VNCManager.mu), the acquisition of LimaCtl.writeMu, the    *)
(* moment a limactl child takes effect on the machine, and its return,     *)
(* which also releases writeMu.                                            *)
(***************************************************************************)

CONSTANTS
    Instances,   \* names of Lima instances
    Requests,    \* goroutines serving mutating requests
    Ports,       \* TCP ports QEMU may pick for a VNC display
    NoPort,      \* no display, no vncdisplay file or no registry entry
    NoInstance,  \* the instance of an idle goroutine
    Free,        \* writeMu is not held
    Ops,         \* the operations the clients of this instance issue
    Touched      \* machines that a guest, the entrypoint or a shell user
                 \* may start or stop without going through lima-web

AllOps == {"start", "stop", "restart", "delete", "create", "bootc", "upload"}

ASSUME ConstantsAssumption ==
    /\ NoPort \notin Ports
    /\ NoInstance \notin Instances
    /\ Free \notin Requests
    /\ Ops \subseteq AllOps
    /\ Touched \subseteq Instances

VARIABLES
    vm,         \* limactl's status of each instance
    port,       \* the port the running QEMU listens on
    display,    \* the vncdisplay file, as a port
    entries,    \* VNCManager.entries, the port of each registered console
    writeMu,    \* the holder of LimaCtl.writeMu
    req,        \* what each goroutine is doing
    boot,       \* main(): "list", "scan" or "serving"
    toScan,     \* running instances the startup scan has yet to register
    disturbed   \* history: an instance had overlapping requests, or was
                \* started or stopped from outside, since lima-web started

vars == <<vm, port, display, entries, writeMu, req, boot, toScan, disturbed>>
machine == <<vm, port, display>>
startup == <<boot, toScan>>

Pcs == {"idle", "unregister", "lock", "run", "took", "probe", "register",
        "ok", "warned", "failed"}

Request == [op    : AllOps \cup {"none"},
            inst  : Instances \cup {NoInstance},
            cmd   : {"start", "stop", "delete", "none"},
            pc    : Pcs,
            alone : BOOLEAN]  \* history: nothing else has touched the
                              \* instance since the request was accepted

Idle == [op |-> "none", inst |-> NoInstance, cmd |-> "none", pc |-> "idle",
         alone |-> FALSE]

TypeOK ==
    /\ vm \in [Instances -> {"absent", "Stopped", "Running"}]
    /\ port \in [Instances -> Ports \cup {NoPort}]
    /\ display \in [Instances -> Ports \cup {NoPort}]
    /\ entries \in [Instances -> Ports \cup {NoPort}]
    /\ writeMu \in Requests \cup {Free}
    /\ req \in [Requests -> Request]
    /\ boot \in {"list", "scan", "serving"}
    /\ toScan \subseteq Instances
    /\ disturbed \in [Instances -> BOOLEAN]

Busy(i) == \E r \in Requests : req[r].inst = i

Goto(r, pc) == req' = [req EXCEPT ![r].pc = pc]

------------------------------------------------------------------------------
(* Startup: VMs may already be running; nothing is registered yet. *)

Init ==
    /\ vm \in [Instances -> {"absent", "Stopped", "Running"}]
    /\ port \in [Instances -> Ports \cup {NoPort}]
    /\ display \in [Instances -> Ports \cup {NoPort}]
    /\ \A i \in Instances :
          /\ vm[i] = "Running" => display[i] = port[i]
          /\ vm[i] # "Running" => port[i] = NoPort
          /\ vm[i] = "absent" => display[i] = NoPort
    /\ \A i, j \in Instances : port[i] = port[j] => i = j \/ port[i] = NoPort
    /\ entries = [i \in Instances |-> NoPort]
    /\ writeMu = Free
    /\ req = [r \in Requests |-> Idle]
    /\ boot = "list"
    /\ toScan = {}
    /\ disturbed = [i \in Instances |-> FALSE]

(* main() lists the instances once; when limactl list fails it goes on. *)
ScanList ==
    /\ boot = "list"
    /\ \/ boot' = "scan" /\ toScan' = {i \in Instances : vm[i] = "Running"}
       \/ boot' = "serving" /\ toScan' = {}
    /\ UNCHANGED <<vm, port, display, entries, writeMu, req, disturbed>>

(* Mutant: the read error is dropped and the default display registered. *)
StartVNC_IgnoresReadError(i) ==
    entries' = [entries EXCEPT ![i] = IF display[i] = NoPort THEN 5900
                                                             ELSE display[i]]

(* StartVNC(i), all of it under VNCManager.mu: read the vncdisplay file and *)
(* replace the entry; without a readable file the entry stays as it was.    *)
StartVNC(i) ==
    entries' = IF display[i] = NoPort THEN entries
                                      ELSE [entries EXCEPT ![i] = display[i]]

ScanRegister(i) ==
    /\ boot = "scan" /\ i \in toScan
    /\ StartVNC(i)
    /\ toScan' = toScan \ {i}
    /\ UNCHANGED <<machine, writeMu, req, boot, disturbed>>

(* Mutant: the scan ends before it has registered everything. *)
ScanDone_Early ==
    /\ boot = "scan"
    /\ boot' = "serving"
    /\ UNCHANGED <<machine, entries, writeMu, req, toScan, disturbed>>

ScanDone ==
    /\ boot = "scan" /\ toScan = {}
    /\ boot' = "serving"
    /\ UNCHANGED <<machine, entries, writeMu, req, toScan, disturbed>>

------------------------------------------------------------------------------
(* A request arrives.  Its handler starts with the registry (stop, restart, *)
(* delete), with writeMu (start, create, a bootc build's last step) or, for *)
(* an image upload, with lima-up itself, which takes no lock.               *)

Accept(r, i, op, cmd, pc) ==
    /\ op \in Ops
    /\ boot = "serving"
    /\ req[r].pc = "idle"
    /\ req' = [q \in Requests |->
                 IF q = r
                 THEN [op |-> op, inst |-> i, cmd |-> cmd, pc |-> pc,
                       alone |-> ~Busy(i)]
                 ELSE IF req[q].inst = i
                 THEN [req[q] EXCEPT !.alone = FALSE]
                 ELSE req[q]]
    /\ disturbed' = [disturbed EXCEPT ![i] = @ \/ Busy(i)]
    /\ UNCHANGED <<machine, entries, writeMu, startup>>

StartInstance(r, i)   == Accept(r, i, "start", "start", "lock")
StopInstance(r, i)    == Accept(r, i, "stop", "stop", "unregister")
RestartInstance(r, i) == Accept(r, i, "restart", "stop", "unregister")

(* Mutant: delete forgets to take the console out of the registry. *)
DeleteInstance_KeepsConsole(r, i) == Accept(r, i, "delete", "delete", "lock")

DeleteInstance(r, i)  == Accept(r, i, "delete", "delete", "unregister")
BootcInstance(r, i)   == Accept(r, i, "bootc", "start", "lock")

(* A create with a bad body or an unknown template, and an upload that     *)
(* cannot be saved, are refused at once.                                   *)
UploadInstance(r, i) ==
    \/ Accept(r, i, "upload", "start", "run")
    \/ Accept(r, i, "upload", "start", "failed")

CreateInstance(r, i) ==
    \/ Accept(r, i, "create", "start", "lock")
    \/ Accept(r, i, "create", "start", "failed")

(* StopVNC: the handlers ignore its "no VNC entry" error. *)
StopVNC(r) ==
    /\ req[r].pc = "unregister"
    /\ entries' = [entries EXCEPT ![req[r].inst] = NoPort]
    /\ Goto(r, "lock")
    /\ UNCHANGED <<machine, writeMu, startup, disturbed>>

(* Mutant: the method does not take the lock. *)
AcquireWriteMu_NoWait(r) ==
    /\ req[r].pc = "lock"
    /\ writeMu' = r
    /\ Goto(r, "run")
    /\ UNCHANGED <<machine, entries, startup, disturbed>>

AcquireWriteMu(r) ==
    /\ req[r].pc = "lock"
    /\ writeMu = Free
    /\ writeMu' = r
    /\ Goto(r, "run")
    /\ UNCHANGED <<machine, entries, startup, disturbed>>

------------------------------------------------------------------------------
(* The limactl child (external).  A command may fail before or after it has *)
(* taken effect, for instance when start times out on a booted machine.     *)

PortsInUse == {port[i] : i \in Instances}

Launch(i) ==
    IF vm[i] = "Running"
    THEN UNCHANGED machine
    ELSE \E p \in (Ports \ PortsInUse) \cup {NoPort} :
            /\ vm' = [vm EXCEPT ![i] = "Running"]
            /\ port' = [port EXCEPT ![i] = p]
            /\ display' = [display EXCEPT ![i] = p]

Halt(i) ==
    /\ vm[i] # "absent"
    /\ vm' = [vm EXCEPT ![i] = "Stopped"]
    /\ port' = [port EXCEPT ![i] = NoPort]
    /\ UNCHANGED display   \* limactl leaves the vncdisplay file behind

Remove(i) ==
    /\ vm' = [vm EXCEPT ![i] = "absent"]
    /\ port' = [port EXCEPT ![i] = NoPort]
    /\ display' = [display EXCEPT ![i] = NoPort]

TakeEffect(r) ==
    /\ req[r].pc = "run"
    /\ \/ req[r].cmd = "start"  /\ Launch(req[r].inst)
       \/ req[r].cmd = "stop"   /\ Halt(req[r].inst)
       \/ req[r].cmd = "delete" /\ Remove(req[r].inst)
    /\ Goto(r, "took")
    /\ UNCHANGED <<entries, writeMu, startup, disturbed>>

(* Mutant: lima-up's path releases the lock it never took. *)
Unlock_OfOthers(r) == writeMu' = Free

(* The deferred Unlock of every LimaCtl method, on both return paths. *)
Unlock(r) == writeMu' = IF writeMu = r THEN Free ELSE writeMu

(* Mutant: restart answers without registering the new console. *)
AfterSuccess_RestartForgetsVnc(q) ==
    IF q.cmd = "start" /\ q.op \notin {"bootc", "restart"}
    THEN [q EXCEPT !.pc = "register"]
    ELSE IF q.cmd = "stop" /\ q.op = "restart"
    THEN [q EXCEPT !.cmd = "start", !.pc = "lock"]
    ELSE [q EXCEPT !.pc = "ok"]

(* What the handler does after a limactl command that succeeded. *)
AfterSuccess(q) ==
    IF q.cmd = "start" /\ q.op # "bootc" THEN [q EXCEPT !.pc = "register"]
    ELSE IF q.cmd = "stop" /\ q.op = "restart"
    THEN [q EXCEPT !.cmd = "start", !.pc = "lock"]
    ELSE [q EXCEPT !.pc = "ok"]

CommandSucceeds(r) ==
    /\ req[r].pc = "took"
    /\ req' = [req EXCEPT ![r] = AfterSuccess(req[r])]
    /\ Unlock(r)
    /\ UNCHANGED <<machine, entries, startup, disturbed>>

(* Mutant: the error return does not release writeMu. *)
CommandFails_KeepsLock(r) ==
    /\ req[r].pc \in {"run", "took"}
    /\ Goto(r, IF req[r].op = "bootc" THEN "probe" ELSE "failed")
    /\ UNCHANGED <<machine, entries, writeMu, startup, disturbed>>

(* An error ends the request, except for a bootc build, which asks whether *)
(* the instance runs all the same.                                         *)
CommandFails(r) ==
    /\ req[r].pc \in {"run", "took"}
    /\ Goto(r, IF req[r].op = "bootc" THEN "probe" ELSE "failed")
    /\ Unlock(r)
    /\ UNCHANGED <<machine, entries, startup, disturbed>>

(* IsRunning, which takes no lock; limactl list itself may fail. *)
ProbeRunning(r) ==
    /\ req[r].pc = "probe"
    /\ \/ vm[req[r].inst] = "Running" /\ Goto(r, "ok")
       \/ Goto(r, "failed")
    /\ UNCHANGED <<machine, entries, writeMu, startup, disturbed>>

(* The handler's StartVNC: its failure only turns the answer into a warning. *)
RegisterVNC(r) ==
    /\ req[r].pc = "register"
    /\ StartVNC(req[r].inst)
    /\ Goto(r, IF display[req[r].inst] = NoPort THEN "warned" ELSE "ok")
    /\ UNCHANGED <<machine, writeMu, startup, disturbed>>

Reply(r) ==
    /\ req[r].pc \in {"ok", "warned", "failed"}
    /\ req' = [req EXCEPT ![r] = Idle]
    /\ UNCHANGED <<machine, entries, writeMu, startup, disturbed>>

------------------------------------------------------------------------------
(* A guest powers off, QEMU dies, or the entrypoint's auto-start or someone *)
(* in a container shell runs limactl: the machine changes, lima-web is not  *)
(* told.                                                                    *)
Outside(i) ==
    /\ i \in Touched
    /\ \/ vm[i] = "Running" /\ Halt(i)
       \/ vm[i] # "Running" /\ Launch(i)
    /\ req' = [q \in Requests |-> IF req[q].inst = i
                                  THEN [req[q] EXCEPT !.alone = FALSE]
                                  ELSE req[q]]
    /\ disturbed' = [disturbed EXCEPT ![i] = TRUE]
    /\ UNCHANGED <<entries, writeMu, startup>>

(* lima-web ends and is started again: goroutines, lock and registry are   *)
(* gone.  The machines of the set "lost" went down with it (all of them    *)
(* when the container restarts).                                           *)
Crash ==
    /\ \E lost \in SUBSET {i \in Instances : vm[i] = "Running"} :
          /\ vm' = [i \in Instances |-> IF i \in lost THEN "Stopped" ELSE vm[i]]
          /\ port' = [i \in Instances |-> IF i \in lost THEN NoPort ELSE port[i]]
    /\ entries' = [i \in Instances |-> NoPort]
    /\ writeMu' = Free
    /\ req' = [r \in Requests |-> Idle]
    /\ boot' = "list"
    /\ toScan' = {}
    /\ disturbed' = [i \in Instances |-> FALSE]
    /\ UNCHANGED display

------------------------------------------------------------------------------
AcceptAny(r, i) ==
    \/ StartInstance(r, i)   \/ StopInstance(r, i) \/ RestartInstance(r, i)
    \/ DeleteInstance(r, i)  \/ CreateInstance(r, i)
    \/ BootcInstance(r, i)   \/ UploadInstance(r, i)

Command(r) == TakeEffect(r) \/ CommandSucceeds(r) \/ CommandFails(r)

Step(r) ==
    \/ StopVNC(r) \/ AcquireWriteMu(r) \/ Command(r)
    \/ ProbeRunning(r) \/ RegisterVNC(r) \/ Reply(r)

Startup == ScanList \/ (\E i \in Instances : ScanRegister(i)) \/ ScanDone

(* Everything that happens while the process lives. *)
Live ==
    \/ Startup
    \/ \E r \in Requests, i \in Instances : AcceptAny(r, i)
    \/ \E r \in Requests : Step(r)
    \/ \E i \in Instances : Outside(i)

Next == Live \/ Crash

Spec == Init /\ [][Next]_vars

(* The server's own steps are never abandoned and limactl ends; Go's mutex *)
(* hands itself over to a waiter that has waited too long, hence SF.       *)
Fairness ==
    /\ WF_vars(Startup)
    /\ \A r \in Requests :
          /\ WF_vars(StopVNC(r) \/ ProbeRunning(r) \/ RegisterVNC(r) \/ Reply(r))
          /\ WF_vars(Command(r))
          /\ SF_vars(AcquireWriteMu(r))

FairSpec == Spec /\ Fairness

------------------------------------------------------------------------------
(* Properties *)

Commanding(r) == req[r].pc \in {"run", "took"}

(* LimaCtl's methods never run two mutating limactl commands at the same   *)
(* time, whatever requests overlap and wherever they fail (lima.go:52).    *)
LimaCtlSerialized ==
    \A r, s \in Requests :
        /\ Commanding(r) /\ req[r].op # "upload"
        /\ Commanding(s) /\ req[s].op # "upload"
        => r = s

(* An instance that nobody disturbed has a console in the registry only    *)
(* while its machine runs, on the port the machine listens on: handlers    *)
(* take the entry out before they touch the machine and put it back after. *)
ConsoleMatchesVm ==
    \A i \in Instances :
        ~disturbed[i] /\ entries[i] # NoPort
        => vm[i] = "Running" /\ entries[i] = port[i]

Starts == {"start", "create", "restart", "upload"}

(* The answer to a request that had the instance to itself is true when it *)
(* is given, whatever ghost entries earlier requests left behind: a start  *)
(* that reports success has a usable console, one with a VNC warning runs  *)
(* without a display, a stop or delete has neither machine nor console,    *)
(* and even a failed stop or delete has no console.                        *)
AnswerIsTrue ==
    \A r \in Requests :
        LET q == req[r]  i == q.inst IN
        q.alone =>
          /\ q.pc = "ok" /\ q.op \in Starts =>
                vm[i] = "Running" /\ port[i] # NoPort /\ entries[i] = port[i]
          /\ q.pc = "warned" => vm[i] = "Running" /\ port[i] = NoPort
          /\ q.pc = "ok" /\ q.op = "bootc" => vm[i] = "Running"
          /\ q.pc = "ok" /\ q.op = "stop" => vm[i] = "Stopped"
          /\ q.pc = "ok" /\ q.op = "delete" => vm[i] = "absent"
          /\ q.pc \in {"ok", "failed"} /\ q.op \in {"stop", "delete"} =>
                entries[i] = NoPort

(* The lock makes LimaCtl a serial executor of limactl commands: the one   *)
(* in progress is the one of the goroutine that holds writeMu.             *)
CurrentCommand ==
    IF writeMu = Free
    THEN [inst |-> NoInstance, cmd |-> "none", done |-> FALSE]
    ELSE [inst |-> req[writeMu].inst, cmd |-> req[writeMu].cmd,
          done |-> req[writeMu].pc = "took"]

Serial == INSTANCE SerialLimactl WITH current <- CurrentCommand

(* Every step of the server is a step of the serial executor or changes    *)
(* neither a machine nor the command in progress: commands do not overlap, *)
(* take effect at most once and only for the holder of writeMu, and no     *)
(* machine is stopped or deleted on another path (lima.go:52).             *)
ImplementsSerialLimactl == Serial!SerialSpec

(* Every accepted request is answered, or dies with the server: writeMu is *)
(* released on every path of every handler and no waiter is starved.       *)
EveryRequestAnswered ==
    \A r \in Requests : req[r].pc # "idle" ~> req[r].pc = "idle"

(* A machine the startup scan found running gets its console, unless it    *)
(* was disturbed from outside or lima-web was restarted meanwhile.         *)
StartupRegisters ==
    \A i \in Instances :
        i \in toScan /\ display[i] # NoPort
        ~> entries[i] = port[i] \/ disturbed[i] \/ boot = "list"

------------------------------------------------------------------------------
(* The inductive strengthening of the safety invariants. *)

(* The child of a locked operation runs only while its goroutine holds     *)
(* writeMu.                                                                *)
LockInv ==
    \A r \in Requests : Commanding(r) /\ req[r].op # "upload" => writeMu = r

(* The vncdisplay file of a running machine names its port. *)
MachineInv ==
    \A i \in Instances :
        /\ vm[i] = "Running" => display[i] = port[i]
        /\ vm[i] # "Running" => port[i] = NoPort

(* Before lima-web serves there are no requests, and what the scan is yet  *)
(* to register still runs.                                                 *)
StartupInv ==
    /\ boot # "serving" => \A r \in Requests : req[r] = Idle
    /\ boot # "scan" => toScan = {}
    /\ \A i \in toScan : ~disturbed[i] => vm[i] = "Running"

(* Requests on an undisturbed instance are alone on it. *)
AloneInv ==
    /\ \A r \in Requests : req[r].alone => req[r].inst \in Instances
    /\ \A r, s \in Requests :
          req[r].alone /\ req[s].inst = req[r].inst => r = s
    /\ \A r \in Requests :
          req[r].inst \in Instances /\ ~disturbed[req[r].inst] => req[r].alone

(* How far a request that is alone has brought its instance. *)
ProgressInv ==
    \A r \in Requests :
        LET q == req[r]  i == q.inst IN
        q.alone =>
          /\ q.op # "none"
          /\ q.op \in {"stop", "delete"} => q.cmd = q.op
          /\ q.op = "restart" => q.cmd \in {"stop", "start"}
          /\ q.op \in {"start", "create", "upload", "bootc"} => q.cmd = "start"
          /\ q.pc = "register" => q.cmd = "start" /\ q.op \in Starts
          /\ q.pc = "warned" => q.op \in Starts
          /\ q.pc = "probe" => q.op = "bootc"
          /\ /\ q.cmd \in {"stop", "delete"}
             /\ q.pc \in {"lock", "run", "took", "ok", "failed"}
             => entries[i] = NoPort
          /\ q.pc = "took" =>
                vm[i] = IF q.cmd = "start" THEN "Running"
                        ELSE IF q.cmd = "stop" THEN "Stopped" ELSE "absent"
          /\ q.pc = "register" => vm[i] = "Running"

IndInv ==
    /\ TypeOK /\ LockInv /\ MachineInv /\ StartupInv /\ AloneInv
    /\ ProgressInv /\ ConsoleMatchesVm /\ AnswerIsTrue

------------------------------------------------------------------------------
(* A claim of the repository that does not hold. *)

(* docs/api.md:214: GET /vnc returns details for a running instance, at    *)
(* least once all requests about the instance have been answered.          *)
VncOnlyForRunning ==
    \A i \in Instances :
        ~Busy(i) /\ entries[i] # NoPort => vm[i] = "Running"
=============================================================================
