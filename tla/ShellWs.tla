------------------------------ MODULE ShellWs ------------------------------
(***************************************************************************)
(* ShellWS (shell.go) composed with the server of LimaWeb: a browser opens *)
(* a terminal in an instance.  The handler asks limactl whether the        *)
(* instance runs, upgrades the connection, starts limactl shell on a pty   *)
(* and then is itself the relay from the browser to the pty; a goroutine   *)
(* of its own relays the other way.                                        *)
(***************************************************************************)
EXTENDS LimaWeb

CONSTANT Terminals   \* handler goroutines

VARIABLE term

svars == <<vars, term>>

(* The handler reads from the WebSocket in "relay" and writes to the pty   *)
(* in "write"; in "killed" the pty is closed and the shell killed.         *)
TermPcs == {"idle", "checked", "upgraded", "relay", "write", "killed", "closed"}

Terminal == [pc     : TermPcs,
             inst   : Instances \cup {NoInstance},
             shell  : {"none", "live", "hung", "ended"},  \* limactl shell
             client : BOOLEAN,                    \* the connection is up
             out    : {"none", "copying", "done"}]  \* pty -> WebSocket

NoTerminal == [pc |-> "idle", inst |-> NoInstance, shell |-> "none",
               client |-> FALSE, out |-> "none"]

(* A handler has a shell from pty.Start to Wait, on every path. *)
ShellTypeOK ==
    /\ term \in [Terminals -> Terminal]
    /\ \A t \in Terminals :
          term[t].shell # "none" <=> term[t].pc \in {"relay", "write", "killed"}

SInit == Init /\ term = [t \in Terminals |-> NoTerminal]

(* Nothing but the terminal t changes, and of it what f says. *)
Set(t, f) == term' = [term EXCEPT ![t] = f] /\ UNCHANGED vars

------------------------------------------------------------------------------
(* The handler *)

(* Get, which takes no lock; a request for an instance that limactl does   *)
(* not list as running is refused and changes nothing.                     *)
CheckRunning(t, i) ==
    /\ boot = "serving" /\ term[t] = NoTerminal
    /\ vm[i] = "Running"
    /\ Set(t, [NoTerminal EXCEPT !.pc = "checked", !.inst = i, !.client = TRUE])

UpgradeShell(t) ==
    /\ term[t].pc = "checked"
    /\ \/ Set(t, [term[t] EXCEPT !.pc = "upgraded"])
       \/ Set(t, NoTerminal)

(* Mutant: the handler goes on after a failed pty.Start. *)
StartShell_NoReturn(t) ==
    /\ term[t].pc = "upgraded"
    /\ \E sh \in {"live", "none"} :
          Set(t, [term[t] EXCEPT !.pc = "relay", !.shell = sh,
                                 !.out = "copying"])

(* pty.Start; its failure is told to the browser. *)
StartShell(t) ==
    /\ term[t].pc = "upgraded"
    /\ \/ Set(t, [term[t] EXCEPT !.pc = "relay", !.shell = "live",
                                 !.out = "copying"])
       \/ Set(t, NoTerminal)

(* A binary frame; resize frames touch only the size of the pty.  Frames   *)
(* still under way when the browser leaves count as read before it left.   *)
ReadFrame(t) ==
    /\ term[t].pc = "relay" /\ term[t].client
    /\ Set(t, [term[t] EXCEPT !.pc = "write"])

(* Mutant: a write error is taken for a reason to try again. *)
WritePty_Retries(t) ==
    /\ term[t].pc = "write" /\ term[t].shell = "live"
    /\ Set(t, [term[t] EXCEPT !.pc = "relay"])

(* The write waits while the shell does not read; its error is ignored. *)
WritePty(t) ==
    /\ term[t].pc = "write" /\ term[t].shell # "hung"
    /\ Set(t, [term[t] EXCEPT !.pc = "relay"])

(* Mutant: the shell is waited for without having been killed. *)
ReadFrameFails_NoKill(t) ==
    /\ term[t].pc = "relay" /\ ~term[t].client
    /\ Set(t, [term[t] EXCEPT !.pc = "killed"])

(* ReadMessage fails; the deferred function closes the pty and kills the   *)
(* shell.                                                                  *)
ReadFrameFails(t) ==
    /\ term[t].pc = "relay" /\ ~term[t].client
    /\ Set(t, [term[t] EXCEPT !.pc = "killed", !.shell = "ended"])

(* Wait returns, and the deferred Close of the connection. *)
WaitShell(t) ==
    /\ term[t].pc = "killed" /\ term[t].shell = "ended"
    /\ Set(t, [term[t] EXCEPT !.pc = "closed", !.shell = "none"])

(* The output goroutine: a read fails when the shell has ended or the pty  *)
(* is closed, a write (of output there may never be) when the browser or   *)
(* the connection is gone.                                                 *)
ReadPtyFails(t) ==
    /\ term[t].out = "copying"
    /\ term[t].shell = "ended" \/ term[t].pc \in {"killed", "closed"}
    /\ Set(t, [term[t] EXCEPT !.out = "done"])

WriteFrameFails(t) ==
    /\ term[t].out = "copying" /\ ~term[t].client
    /\ Set(t, [term[t] EXCEPT !.out = "done"])

TerminalGone(t) ==
    /\ term[t].pc = "closed" /\ term[t].out = "done"
    /\ Set(t, NoTerminal)

------------------------------------------------------------------------------
(* limactl shell (external): it ends when its user leaves it or its machine *)
(* is gone, and stops reading its input while the guest does not take it.   *)

Attached(t) == term[t].shell \in {"live", "hung"}

ShellExits(t) ==
    /\ term[t].shell = "live"
    /\ Set(t, [term[t] EXCEPT !.shell = "ended"])

ShellLosesMachine(t) ==
    /\ Attached(t) /\ vm[term[t].inst] # "Running"
    /\ Set(t, [term[t] EXCEPT !.shell = "ended"])

ShellHangs(t) ==
    /\ term[t].shell = "live"
    /\ Set(t, [term[t] EXCEPT !.shell = "hung"])

ShellRecovers(t) ==
    /\ term[t].shell = "hung"
    /\ Set(t, [term[t] EXCEPT !.shell = "live"])

(* The browser (closeTerminal in app.js), the network, or nginx, which     *)
(* cuts off a shell that has been silent for ten minutes.                  *)
BrowserLeaves(t) ==
    /\ term[t].client
    /\ Set(t, [term[t] EXCEPT !.client = FALSE])

(* proxy_read_timeout: once the shell has ended lima-web sends nothing, and *)
(* nginx closes the connection for certain.                                 *)
SilenceTimeout(t) ==
    /\ term[t].client /\ term[t].shell = "ended"
    /\ Set(t, [term[t] EXCEPT !.client = FALSE])

------------------------------------------------------------------------------
ShellServer == Live /\ UNCHANGED term

(* A shell of a dead lima-web loses its pty and ends. *)
ShellCrash == Crash /\ term' = [t \in Terminals |-> NoTerminal]

Handle(t) ==
    \/ UpgradeShell(t)   \/ StartShell(t) \/ WritePty(t)
    \/ ReadFrameFails(t) \/ WaitShell(t)  \/ TerminalGone(t)

SNext ==
    \/ ShellServer \/ ShellCrash
    \/ \E t \in Terminals :
          \/ \E i \in Instances : CheckRunning(t, i)
          \/ Handle(t)         \/ ReadFrame(t)
          \/ ReadPtyFails(t)   \/ WriteFrameFails(t)
          \/ ShellExits(t)     \/ ShellLosesMachine(t)
          \/ ShellHangs(t)     \/ ShellRecovers(t)
          \/ BrowserLeaves(t)  \/ SilenceTimeout(t)

(* Goroutines run, a shell whose machine is gone ends, and nginx keeps its *)
(* timeout.  Users need not do anything, and a hung shell may stay hung.   *)
SFairness ==
    \A t \in Terminals :
        /\ WF_svars(Handle(t))
        /\ WF_svars(ReadPtyFails(t))
        /\ WF_svars(ShellLosesMachine(t))
        /\ WF_svars(SilenceTimeout(t))

SSpec == SInit /\ [][SNext]_svars

(* With the fairness of LimaWeb, whose actions leave term unchanged. *)
SFairSpec == SSpec /\ Fairness /\ SFairness

------------------------------------------------------------------------------
(* Properties *)

(* When the browser is gone, so are eventually handler, goroutine, shell   *)
(* and connection, provided that the shell does not hang for ever: a       *)
(* handler that waits in its write to the pty does not see the browser go  *)
(* (shell.go:98).                                                          *)
DepartedBrowserEndsShell ==
    \A t \in Terminals :
        <>[](term[t].shell # "hung") =>
            (term[t].pc # "idle" /\ ~term[t].client ~> term[t] = NoTerminal)

(* A shell that ends by itself does not wake the handler, which reads from *)
(* the browser: only the timeout of nginx brings the terminal to its end,  *)
(* whatever the browser was sending (shell.go:94, entrypoint.sh:63).  Nor  *)
(* does a terminal outlive its machine, unless that was started again: not *)
(* when it was stopped between the check and the start of the shell        *)
(* (shell.go:35), nor when the shell hangs on it.                          *)
TerminalEndsWithShell ==
    \A t \in Terminals :
        /\ term[t].shell = "ended" ~> term[t] = NoTerminal
        /\ term[t].pc # "idle" /\ vm[term[t].inst] # "Running"
             ~> term[t] = NoTerminal \/ vm[term[t].inst] = "Running"
=============================================================================
