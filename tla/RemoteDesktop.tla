---------------------------- MODULE RemoteDesktop ----------------------------
(***************************************************************************)
(* Remote desktops: POST .../rdp/enable configures a server inside a guest *)
(* by a sequence of shell commands, each with a timeout (grdctl.go), and   *)
(* the RDCleanPath proxy connects a browser to host port 3389 in a         *)
(* handshake of several phases, then relays (rdp.go).  Nothing calls       *)
(* StartRDP, so every session dials the default port: Lima forwards it to  *)
(* the first guest that listens on it.                                     *)
(***************************************************************************)
EXTENDS Naturals, Sequences, FiniteSets

CONSTANTS
    Guests,     \* Lima instances
    Has,        \* the servers installed in a guest: "grd", "xrdp"
    Enables,    \* goroutines serving POST .../rdp/enable
    Sessions,   \* proxy handler goroutines
    Secrets,    \* RDP credentials clients ask for
    MaxStrays,  \* bound on the commands left running in guests
    NoGuest,
    NoSecret

ASSUME DesktopAssumption ==
    /\ Has \in [Guests -> SUBSET {"grd", "xrdp"}]
    /\ MaxStrays \in Nat
    /\ NoGuest \notin Guests /\ NoSecret \notin Secrets

VARIABLES
    up,        \* the guests that run
    settings,  \* the commands that have taken effect in a guest
    secret,    \* a guest's RDP credentials
    strays,    \* commands left running in guests, without their limactl
    forward,   \* the guest behind host port 3389
    enable,    \* enable requests
    session    \* proxy sessions

dvars == <<up, settings, secret, strays, forward, enable, session>>
guestVars == <<up, settings, secret>>
proxyVars == <<forward, session>>

(* EnableGRD's commands in their order, and EnableXRDP's. *)
GrdCommands == <<"enable", "disable-view-only", "set-credentials", "start-grd">>
XrdpCommands == <<"start-xrdp">>

(* Mutant: the service is started before the credentials are set. *)
CommandsOf_Swapped(type) ==
    IF type = "grd"
    THEN <<"enable", "disable-view-only", "start-grd", "set-credentials">>
    ELSE XrdpCommands

CommandsOf(type) == IF type = "grd" THEN GrdCommands ELSE XrdpCommands

Settings == {"enable", "disable-view-only", "start-grd", "start-xrdp"}

(* A request hangs in its status check ("check") or in a command ("hung"). *)
Enable == [pc     : {"idle", "detect", "check", "run", "hung", "ok", "failed"},
           inst   : Guests \cup {NoGuest},
           secret : Secrets \cup {NoSecret},
           type   : {"grd", "xrdp", "none"},
           step   : 1..Len(GrdCommands),
           alone  : BOOLEAN]  \* history: no other request or stray command
                              \* has been at the guest meanwhile

NoEnable == [pc |-> "idle", inst |-> NoGuest, secret |-> NoSecret,
             type |-> "none", step |-> 1, alone |-> FALSE]

Relay == {"none", "copying", "done"}

Session == [pc     : {"idle", "request", "dial", "x224", "tls", "respond",
                      "relay", "closed"},
            inst   : Guests \cup {NoGuest},
            target : Guests \cup {NoGuest},  \* the server it is connected to
            client : BOOLEAN,                \* the browser is there
            toWs   : Relay,
            toTls  : Relay]

NoSession == [pc |-> "idle", inst |-> NoGuest, target |-> NoGuest,
              client |-> FALSE, toWs |-> "none", toTls |-> "none"]

Stray == [inst : Guests, cmd : Settings \cup {"set-credentials"},
          secret : Secrets \cup {NoSecret}]

DesktopTypeOK ==
    /\ up \subseteq Guests
    /\ settings \in [Guests -> SUBSET Settings]
    /\ secret \in [Guests -> Secrets \cup {NoSecret}]
    /\ strays \subseteq Stray
    /\ forward \in Guests \cup {NoGuest}
    /\ enable \in [Enables -> Enable]
    /\ session \in [Sessions -> Session]

(* Guests come with a desktop or not; an image may have xrdp enabled, but  *)
(* GNOME's server runs in none before it has been enabled here.            *)
DesktopInit ==
    /\ up \in SUBSET Guests
    /\ settings \in [Guests -> {{}, {"start-xrdp"}}]
    /\ \A i \in Guests : "start-xrdp" \in settings[i] => "xrdp" \in Has[i]
    /\ secret = [i \in Guests |-> NoSecret]
    /\ strays = {}
    /\ forward = NoGuest
    /\ enable = [e \in Enables |-> NoEnable]
    /\ session = [s \in Sessions |-> NoSession]

------------------------------------------------------------------------------
(* Guests (external) *)

(* A server listens on port 3389 of the guest. *)
GrdServes(i) == i \in up /\ {"enable", "start-grd"} \subseteq settings[i]
Serves(i) == GrdServes(i) \/ (i \in up /\ "start-xrdp" \in settings[i])

(* The command cmd of a guest takes effect. *)
Effect(i, cmd, c) ==
    IF cmd = "set-credentials"
    THEN secret' = [secret EXCEPT ![i] = c] /\ UNCHANGED <<up, settings>>
    ELSE /\ settings' = [settings EXCEPT ![i] = @ \cup {cmd}]
         /\ UNCHANGED <<up, secret>>

StrayEffect ==
    \E k \in strays :
        /\ Effect(k.inst, k.cmd, k.secret)
        /\ strays' = strays \ {k}
        /\ UNCHANGED <<enable, proxyVars>>

StrayDies ==
    \E k \in strays :
        /\ strays' = strays \ {k}
        /\ UNCHANGED <<guestVars, enable, proxyVars>>

GuestStarts(i) ==
    /\ i \notin up
    /\ up' = up \cup {i}
    /\ UNCHANGED <<settings, secret, strays, enable, proxyVars>>

(* A request that hangs in guest i goes on: the status check is not        *)
(* needed, a command that had to be killed has failed.                     *)
Hangs(q) == q.pc \in {"check", "hung"}
Released(q) == [q EXCEPT !.pc = IF @ = "check" THEN "run" ELSE "failed"]

(* Its connections break; its settings are on its disk. *)
GuestStops(i) ==
    /\ i \in up
    /\ up' = up \ {i}
    /\ strays' = {k \in strays : k.inst # i}
    /\ forward' = IF forward = i THEN NoGuest ELSE forward
    /\ session' = [s \in Sessions |->
                     [session[s] EXCEPT !.target = IF @ = i THEN NoGuest ELSE @]]
    /\ enable' = [e \in Enables |-> IF Hangs(enable[e]) /\ enable[e].inst = i
                                    THEN Released(enable[e]) ELSE enable[e]]
    /\ UNCHANGED <<settings, secret>>

(* Lima forwards the port of the first guest that listens on it. *)
Forward(i) ==
    /\ forward = NoGuest /\ Serves(i)
    /\ forward' = i
    /\ UNCHANGED <<guestVars, strays, enable, session>>

------------------------------------------------------------------------------
(* HandleRDPEnable; bad requests are refused before anything happens. *)

AtGuest(i) == \E e \in Enables : enable[e].inst = i
StraysAt(i) == \E k \in strays : k.inst = i

HandleRDPEnable(e, i, c) ==
    /\ enable[e] = NoEnable
    /\ enable' = [f \in Enables |->
                    IF f = e
                    THEN [NoEnable EXCEPT !.pc = "detect", !.inst = i,
                                          !.secret = c,
                                          !.alone = ~AtGuest(i) /\ ~StraysAt(i)]
                    ELSE IF enable[f].inst = i
                    THEN [enable[f] EXCEPT !.alone = FALSE]
                    ELSE enable[f]]
    /\ UNCHANGED <<guestVars, strays, proxyVars>>

(* GetRDPStatus: a probe that fails or times out counts as "not there", so *)
(* xrdp may be chosen, or nothing, although grd is installed.  Then        *)
(* CheckRDPPort: its answer is not used here, but it may hang.             *)
GetRDPStatus(e) ==
    LET i == enable[e].inst IN
    /\ enable[e].pc = "detect"
    /\ \/ \E type \in Has[i], pc \in {"run", "check"} :
             /\ i \in up
             /\ enable' = [enable EXCEPT ![e] =
                              [@ EXCEPT !.pc = pc, !.type = type]]
       \/ enable' = [enable EXCEPT ![e].pc = "failed"]
    /\ UNCHANGED <<guestVars, strays, proxyVars>>

CommandOf(e) == CommandsOf(enable[e].type)[enable[e].step]

LastStep(e) == enable[e].step = Len(CommandsOf(enable[e].type))

(* Mutant: the index is advanced past the last command. *)
Advance_OffByOne(e) ==
    enable' = [enable EXCEPT ![e] =
                 [@ EXCEPT !.step = @ + 1,
                           !.pc = IF LastStep(e) THEN "ok" ELSE @]]

Advance(e) ==
    enable' = IF LastStep(e) THEN [enable EXCEPT ![e].pc = "ok"]
                             ELSE [enable EXCEPT ![e].step = @ + 1]

CommandSucceeds(e) ==
    /\ enable[e].pc = "run" /\ enable[e].inst \in up
    /\ Effect(enable[e].inst, CommandOf(e), enable[e].secret)
    /\ Advance(e)
    /\ UNCHANGED <<strays, proxyVars>>

(* Mutant: an error is logged and the next command tried. *)
CommandFails_GoesOn(e) ==
    /\ enable[e].pc = "run"
    /\ Advance(e)
    /\ UNCHANGED <<guestVars, strays, proxyVars>>

(* Mutant: a failing command is tried again. *)
CommandFails_Retries(e) ==
    /\ enable[e].pc = "run"
    /\ UNCHANGED dvars

SecretFor(e) ==
    IF CommandOf(e) = "set-credentials" THEN enable[e].secret ELSE NoSecret

(* A command that does not end well has had its effect, will have none, or *)
(* goes on in the guest.                                                   *)
CommandBreaks(e) ==
    \/ UNCHANGED <<guestVars, strays>>
    \/ /\ enable[e].inst \in up
       /\ Effect(enable[e].inst, CommandOf(e), enable[e].secret)
       /\ UNCHANGED strays
    \/ /\ enable[e].inst \in up /\ Cardinality(strays) < MaxStrays
       /\ strays' = strays \cup {[inst |-> enable[e].inst,
                                  cmd |-> CommandOf(e),
                                  secret |-> SecretFor(e)]}
       /\ UNCHANGED guestVars

(* It fails or loses its connection.  The remaining commands are not run. *)
CommandFails(e) ==
    /\ enable[e].pc = "run"
    /\ CommandBreaks(e)
    /\ enable' = [enable EXCEPT ![e].pc = "failed"]
    /\ UNCHANGED proxyVars

(* The timeout kills limactl, but its ssh keeps the output pipe open, and  *)
(* CombinedOutput waits for the pipe.                                      *)
CommandHangs(e) ==
    /\ enable[e].pc = "run" /\ enable[e].inst \in up
    /\ CommandBreaks(e)
    /\ enable' = [enable EXCEPT ![e].pc = "hung"]
    /\ UNCHANGED proxyVars

(* The ssh of a hanging command ends, with the command or without it. *)
HangEnds(e) ==
    /\ Hangs(enable[e])
    /\ enable' = [enable EXCEPT ![e] = Released(@)]
    /\ UNCHANGED <<guestVars, strays, proxyVars>>

Answer(e) ==
    /\ enable[e].pc \in {"ok", "failed"}
    /\ enable' = [enable EXCEPT ![e] = NoEnable]
    /\ UNCHANGED <<guestVars, strays, proxyVars>>

EnableStep(e) ==
    \/ GetRDPStatus(e) \/ CommandSucceeds(e) \/ CommandFails(e)
    \/ CommandHangs(e) \/ Answer(e)

------------------------------------------------------------------------------
(* HandleRDPProxy *)

Connected(s) == session[s].target # NoGuest

Become(s, q) ==
    /\ session' = [session EXCEPT ![s] = q]
    /\ UNCHANGED <<guestVars, strays, forward, enable>>

(* Each early return closes what is open. *)
Return(s) == Become(s, NoSession)

To(s, pc) == Become(s, [session[s] EXCEPT !.pc = pc])

HandleRDPProxy(s, i) ==
    /\ session[s] = NoSession
    /\ Become(s, [NoSession EXCEPT !.pc = "request", !.inst = i,
                                   !.client = TRUE])

BrowserLeaves(s) ==
    /\ session[s].client
    /\ Become(s, [session[s] EXCEPT !.client = FALSE])

(* Phase 1: the RDCleanPath request, well-formed or not. *)
ReadRequest(s) ==
    /\ session[s].pc = "request" /\ session[s].client
    /\ To(s, "dial") \/ Return(s)

ReadRequestFails(s) ==
    /\ session[s].pc = "request" /\ ~session[s].client
    /\ Return(s)

(* Phase 2: whoever is behind the port now. *)
Dial(s) ==
    /\ session[s].pc = "dial"
    /\ \/ /\ forward # NoGuest
          /\ Become(s, [session[s] EXCEPT !.pc = "x224", !.target = forward])
       \/ Return(s)

(* Connection request and confirm; the read has a deadline. *)
ExchangeX224(s) ==
    /\ session[s].pc = "x224"
    /\ (Connected(s) /\ To(s, "tls")) \/ Return(s)

(* Without a deadline, and blind to the browser. *)
HandshakeTls(s) ==
    /\ session[s].pc = "tls" /\ Connected(s)
    /\ To(s, "respond") \/ Return(s)

HandshakeTlsFails(s) ==
    /\ session[s].pc = "tls" /\ ~Connected(s)
    /\ Return(s)

(* Phase 3, then both relay goroutines are spawned. *)
SendResponse(s) ==
    /\ session[s].pc = "respond"
    /\ \/ Become(s, [session[s] EXCEPT !.pc = "relay", !.toWs = "copying",
                                       !.toTls = "copying"])
       \/ (~session[s].client /\ Return(s))

(* Phase 4: see VncProxy for the failures of a relay goroutine. *)
ToWsReadFails(s) ==
    /\ session[s].toWs = "copying"
    /\ ~Connected(s) \/ session[s].pc = "closed"
    /\ Become(s, [session[s] EXCEPT !.toWs = "done"])

ToWsWriteFails(s) ==
    /\ session[s].toWs = "copying" /\ ~session[s].client
    /\ Become(s, [session[s] EXCEPT !.toWs = "done"])

ToTlsReadFails(s) ==
    /\ session[s].toTls = "copying"
    /\ ~session[s].client \/ session[s].pc = "closed"
    /\ Become(s, [session[s] EXCEPT !.toTls = "done"])

ToTlsWriteFails(s) ==
    /\ session[s].toTls = "copying" /\ ~Connected(s)
    /\ Become(s, [session[s] EXCEPT !.toTls = "done"])

(* Mutant: the handler waits for both goroutines. *)
HandlerReturns_AfterBoth(s) ==
    /\ session[s].pc = "relay"
    /\ session[s].toWs = "done" /\ session[s].toTls = "done"
    /\ To(s, "closed")

(* One receive from done; the deferred calls close TCP and WebSocket. *)
HandlerReturns(s) ==
    /\ session[s].pc = "relay"
    /\ "done" \in {session[s].toWs, session[s].toTls}
    /\ To(s, "closed")

Gone(s) ==
    /\ session[s].pc = "closed"
    /\ session[s].toWs = "done" /\ session[s].toTls = "done"
    /\ Return(s)

(* What the handler does without anybody's help. *)
SessionStep(s) ==
    \/ ReadRequestFails(s) \/ Dial(s) \/ ExchangeX224(s) \/ HandshakeTlsFails(s)
    \/ SendResponse(s) \/ HandlerReturns(s) \/ Gone(s)

------------------------------------------------------------------------------
DesktopNext ==
    \/ \E i \in Guests : GuestStarts(i) \/ GuestStops(i) \/ Forward(i)
    \/ StrayEffect \/ StrayDies
    \/ \E e \in Enables :
          \/ \E i \in Guests, c \in Secrets : HandleRDPEnable(e, i, c)
          \/ EnableStep(e) \/ HangEnds(e)
    \/ \E s \in Sessions :
          \/ \E i \in Guests : HandleRDPProxy(s, i)
          \/ BrowserLeaves(s) \/ ReadRequest(s) \/ HandshakeTls(s)
          \/ SessionStep(s)
          \/ ToWsReadFails(s) \/ ToWsWriteFails(s)
          \/ ToTlsReadFails(s) \/ ToTlsWriteFails(s)

DesktopSpec == DesktopInit /\ [][DesktopNext]_dvars

(* A timeout ends the detection, the dial and the X.224 exchange, and      *)
(* limactl with every command, though not the ssh of a command that hangs; *)
(* a blocked read ends when the other side goes away.  A guest may never   *)
(* answer the TLS handshake.                                               *)
DesktopFairness ==
    /\ \A e \in Enables : WF_dvars(EnableStep(e))
    /\ \A s \in Sessions :
          /\ WF_dvars(SessionStep(s))
          /\ WF_dvars(ToWsReadFails(s))
          /\ WF_dvars(ToTlsReadFails(s))

DesktopFairSpec == DesktopSpec /\ DesktopFairness

------------------------------------------------------------------------------
(* Properties *)

(* GNOME's server never serves a guest without credentials, whichever      *)
(* command fails or times out and however requests interleave: EnableGRD   *)
(* sets them before it starts the server and stops at the first error.     *)
CredentialsFirst ==
    \A i \in Guests : GrdServes(i) => secret[i] # NoSecret

(* The answer "enabled" to a request that had the guest to itself is true: *)
(* the whole configuration is in effect, with that request's credentials.  *)
EnabledIsTrue ==
    \A e \in Enables :
        LET q == enable[e] IN
        q.pc = "ok" /\ q.alone =>
            IF q.type = "grd"
            THEN /\ {"enable", "disable-view-only", "start-grd"}
                        \subseteq settings[q.inst]
                 /\ secret[q.inst] = q.secret
            ELSE "start-xrdp" \in settings[q.inst]

(* Every enable request is answered, whichever command fails or its guest  *)
(* stops, unless the guest keeps the ssh of a command open for ever: the   *)
(* timeout of a command does not end that.                                 *)
EnableAnswered ==
    \A e \in Enables :
        \/ enable[e].pc # "idle" ~> enable[e].pc = "idle"
        \/ <>[]Hangs(enable[e])

(* A session whose browser or guest has gone away ends in every phase, its *)
(* goroutines and connections with it, unless it is waiting for a guest    *)
(* that does not answer the TLS handshake.                                 *)
SessionEnds ==
    \A s \in Sessions :
        /\ session[s].pc # "idle" /\ ~session[s].client
             ~> \/ session[s] = NoSession
                \/ session[s].pc = "tls" /\ Connected(s)
        /\ session[s].pc \in {"x224", "tls", "respond", "relay"} /\ ~Connected(s)
             ~> session[s] = NoSession
=============================================================================
