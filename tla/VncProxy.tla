------------------------------ MODULE VncProxy ------------------------------
(***************************************************************************)
(* HandleVNCProxy (vnc.go) composed with the server of LimaWeb: a browser  *)
(* opens a WebSocket for an instance, the handler looks the instance up in *)
(* the registry, releases the lock, upgrades the connection, dials the     *)
(* port it read and relays bytes with two goroutines until one of them     *)
(* ends.                                                                   *)
(***************************************************************************)
EXTENDS LimaWeb

CONSTANT Sessions   \* proxy handler goroutines

VARIABLE session

pvars == <<vars, session>>

SessionPcs == {"idle", "found", "upgraded", "relay", "closed"}

(* A relay goroutine is absent, copies, or has sent on the done channel,   *)
(* whose capacity of two lets it send and go even if nobody receives.      *)
Relay == {"none", "copying", "done"}

Session == [pc     : SessionPcs,
            inst   : Instances \cup {NoInstance},
            port   : Ports \cup {NoPort},            \* e.VNCPort as looked up
            target : Instances \cup {NoInstance},    \* whose QEMU is connected
            client : BOOLEAN,                        \* the browser is there
            toWs   : Relay,
            toTcp  : Relay,
            steady : BOOLEAN]  \* history: the instance was undisturbed at the
                               \* lookup and its machine has not changed since

NoSession == [pc |-> "idle", inst |-> NoInstance, port |-> NoPort,
              target |-> NoInstance, client |-> FALSE, toWs |-> "none",
              toTcp |-> "none", steady |-> FALSE]

ProxyTypeOK == session \in [Sessions -> Session]

PInit == Init /\ session = [s \in Sessions |-> NoSession]

(* QEMU is at the other end of the TCP connection. *)
Connected(q) == q.target # NoInstance

------------------------------------------------------------------------------
(* The registry lookup under VNCManager.mu; without an entry the answer is *)
(* 404 and nothing changes.                                                *)
Lookup(s, i) ==
    /\ boot = "serving" /\ session[s] = NoSession
    /\ entries[i] # NoPort
    /\ session' = [session EXCEPT ![s] =
                     [NoSession EXCEPT !.pc = "found", !.inst = i,
                                       !.port = entries[i], !.client = TRUE,
                                       !.steady = ~disturbed[i]]]
    /\ UNCHANGED vars

(* Mutant: the handler goes on after a failed upgrade. *)
Upgrade_NoReturn(s) ==
    /\ session[s].pc = "found"
    /\ \/ session' = [session EXCEPT ![s].pc = "upgraded"]
       \/ session' = [session EXCEPT ![s].pc = "failed"]
    /\ UNCHANGED vars

Upgrade(s) ==
    /\ session[s].pc = "found"
    /\ \/ session' = [session EXCEPT ![s].pc = "upgraded"]
       \/ session' = [session EXCEPT ![s] = NoSession]
    /\ UNCHANGED vars

(* DialTimeout reaches whichever QEMU listens on the port now. *)
Dial(s) ==
    /\ session[s].pc = "upgraded"
    /\ \/ \E i \in Instances :
             /\ port[i] = session[s].port
             /\ session' = [session EXCEPT ![s] =
                              [@ EXCEPT !.pc = "relay", !.target = i,
                                        !.toWs = "copying", !.toTcp = "copying"]]
       \/ session' = [session EXCEPT ![s] = NoSession]
    /\ UNCHANGED vars

BrowserLeaves(s) ==
    /\ session[s].client
    /\ session' = [session EXCEPT ![s].client = FALSE]
    /\ UNCHANGED vars

(* TCP -> WebSocket: a read fails when QEMU is gone or the handler closed  *)
(* the connection.                                                         *)
ToWsReadFails(s) ==
    /\ session[s].toWs = "copying"
    /\ ~Connected(session[s]) \/ session[s].pc = "closed"
    /\ session' = [session EXCEPT ![s].toWs = "done"]
    /\ UNCHANGED vars

(* A write fails when the browser is gone, if QEMU has anything to say. *)
ToWsWriteFails(s) ==
    /\ session[s].toWs = "copying" /\ ~session[s].client
    /\ session' = [session EXCEPT ![s].toWs = "done"]
    /\ UNCHANGED vars

(* WebSocket -> TCP: a read fails when the browser is gone or the handler  *)
(* closed the WebSocket.                                                   *)
ToTcpReadFails(s) ==
    /\ session[s].toTcp = "copying"
    /\ ~session[s].client \/ session[s].pc = "closed"
    /\ session' = [session EXCEPT ![s].toTcp = "done"]
    /\ UNCHANGED vars

(* A write fails when QEMU is gone, if the browser has anything to say. *)
ToTcpWriteFails(s) ==
    /\ session[s].toTcp = "copying" /\ ~Connected(session[s])
    /\ session' = [session EXCEPT ![s].toTcp = "done"]
    /\ UNCHANGED vars

(* Mutant: the handler waits for both goroutines before it closes. *)
HandlerReturns_AfterBoth(s) ==
    /\ session[s].pc = "relay"
    /\ session[s].toWs = "done" /\ session[s].toTcp = "done"
    /\ session' = [session EXCEPT ![s].pc = "closed"]
    /\ UNCHANGED vars

(* The handler receives once from done and returns; its deferred calls     *)
(* close both connections.                                                 *)
HandlerReturns(s) ==
    /\ session[s].pc = "relay"
    /\ "done" \in {session[s].toWs, session[s].toTcp}
    /\ session' = [session EXCEPT ![s].pc = "closed"]
    /\ UNCHANGED vars

(* Handler and both goroutines are gone. *)
Gone(s) ==
    /\ session[s].pc = "closed"
    /\ session[s].toWs = "done" /\ session[s].toTcp = "done"
    /\ session' = [session EXCEPT ![s] = NoSession]
    /\ UNCHANGED vars

------------------------------------------------------------------------------
(* The rest of the server goes on meanwhile; a QEMU that ends takes its    *)
(* connections with it.                                                    *)
Observe(q) ==
    [q EXCEPT !.target = IF @ # NoInstance /\ port'[@] # port[@]
                         THEN NoInstance ELSE @,
              !.steady = @ /\ vm'[q.inst] = vm[q.inst]
                           /\ port'[q.inst] = port[q.inst]]

Server == Live /\ session' = [s \in Sessions |-> Observe(session[s])]

ServerCrash == Crash /\ session' = [s \in Sessions |-> NoSession]

Proxy(s) ==
    \/ Upgrade(s) \/ Dial(s) \/ HandlerReturns(s) \/ Gone(s)
    \/ ToWsReadFails(s) \/ ToTcpReadFails(s)

PNext ==
    \/ Server \/ ServerCrash
    \/ \E s \in Sessions :
          \/ \E i \in Instances : Lookup(s, i)
          \/ Proxy(s) \/ ToWsWriteFails(s) \/ ToTcpWriteFails(s)
          \/ BrowserLeaves(s)

PSpec == PInit /\ [][PNext]_pvars

(* A goroutine whose read fails or whose channel is ready runs.  Nothing   *)
(* makes a peer send, so failing writes are not fair.                      *)
PFairness ==
    \A s \in Sessions :
        /\ WF_pvars(Upgrade(s) \/ Dial(s) \/ HandlerReturns(s) \/ Gone(s))
        /\ WF_pvars(ToWsReadFails(s))
        /\ WF_pvars(ToTcpReadFails(s))

PFairSpec == PSpec /\ PFairness

------------------------------------------------------------------------------
(* Properties *)

(* A session reaches the machine it was asked for when that machine was    *)
(* undisturbed at the lookup and has not changed between lookup and dial:  *)
(* the registry never hands out a port of another machine.                 *)
SteadySessionReachesItsVm ==
    \A s \in Sessions :
        session[s].steady /\ session[s].target # NoInstance
        => session[s].target = session[s].inst

(* When either end of a relay goes away, both goroutines and both          *)
(* connections are gone eventually: one is woken by its peer, the other by *)
(* the handler closing what it reads from.                                 *)
RelayIsTornDown ==
    \A s \in Sessions :
        session[s].pc = "relay" /\ (~session[s].client \/ ~Connected(session[s]))
        ~> session[s] = NoSession
=============================================================================
