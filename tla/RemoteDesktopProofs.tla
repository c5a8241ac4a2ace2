-------------------------- MODULE RemoteDesktopProofs --------------------------
(***************************************************************************)
(* Proofs about RemoteDesktop for any number of guests, requests, stray    *)
(* commands and sessions.                                                  *)
(***************************************************************************)
EXTENDS RemoteDesktop, TLAPS

(* A request in the guest knows what it is asked for and runs the commands *)
(* of the server it found, of which xrdp has only one.                     *)
RequestInv ==
    \A e \in Enables :
        LET q == enable[e] IN
        /\ q.pc # "idle" => q.inst \in Guests /\ q.secret \in Secrets
        /\ q.pc \in {"check", "run", "ok"} => q.type \in {"grd", "xrdp"}
        /\ q.pc \in {"detect", "check"} \/ q.type # "grd" => q.step = 1

(* The credentials are there before the command that starts GNOME's server *)
(* runs, or is left running, and nothing ever takes them away.             *)
CredentialsInv ==
    /\ \A k \in strays : k.cmd = "set-credentials" => k.secret \in Secrets
    /\ \A k \in strays : k.cmd = "start-grd" => secret[k.inst] # NoSecret
    /\ \A i \in Guests : "start-grd" \in settings[i] => secret[i] # NoSecret
    /\ \A e \in Enables :
          LET q == enable[e] IN
          q.pc = "run" /\ q.type = "grd" /\ q.step = 4
          => secret[q.inst] # NoSecret

(* A request that is alone has no other request and, unless a command of   *)
(* its own failed or hangs, no stray command at its guest.                 *)
AloneInv ==
    \A e \in Enables :
        enable[e].alone =>
          /\ enable[e].pc # "idle"
          /\ \A f \in Enables : enable[f].inst = enable[e].inst => f = e
          /\ enable[e].pc \notin {"failed", "hung"} => ~StraysAt(enable[e].inst)

(* How far a request that is alone has brought its guest. *)
ProgressInv ==
    \A e \in Enables :
        LET q == enable[e] IN
        q.alone /\ q.pc = "run" /\ q.type = "grd" =>
          /\ q.step > 1 => "enable" \in settings[q.inst]
          /\ q.step > 2 => "disable-view-only" \in settings[q.inst]
          /\ q.step > 3 => secret[q.inst] = q.secret

DesktopInv ==
    /\ DesktopTypeOK /\ RequestInv /\ CredentialsInv /\ AloneInv
    /\ ProgressInv /\ EnabledIsTrue


------------------------------------------------------------------------------
(* The commands of the two servers *)

LEMMA GrdLength == Len(GrdCommands) = 4 /\ Len(XrdpCommands) = 1
BY DEF GrdCommands, XrdpCommands

(* Which command a step is, and when it is the last. *)
LEMMA CommandFacts ==
    ASSUME NEW e \in Enables, NEW q, q = enable[e]
    PROVE  /\ q.type = "grd" =>
                /\ q.step = 1 => CommandOf(e) = "enable"
                /\ q.step = 2 => CommandOf(e) = "disable-view-only"
                /\ q.step = 3 => CommandOf(e) = "set-credentials"
                /\ q.step = 4 => CommandOf(e) = "start-grd"
                /\ LastStep(e) <=> q.step = 4
           /\ q.type # "grd" =>
                /\ q.step = 1 => CommandOf(e) = "start-xrdp"
                /\ LastStep(e) <=> q.step = 1
BY GrdLength DEF CommandOf, LastStep, CommandsOf, GrdCommands, XrdpCommands

(* A request at work runs one of the five commands. *)
LEMMA CommandTyped ==
    ASSUME DesktopTypeOK, RequestInv, NEW e \in Enables, enable[e].pc = "run"
    PROVE  /\ CommandOf(e) \in Settings \cup {"set-credentials"}
           /\ enable[e].inst \in Guests /\ enable[e].secret \in Secrets
           /\ enable[e].step \in 1..4
<1>1. enable[e] \in Enable
      BY DEF DesktopTypeOK
<1>2. enable[e].step \in 1..4
      BY <1>1, GrdLength DEF Enable
<1> QED
      BY <1>2, CommandFacts DEF RequestInv, Settings

(* What a command does in its guest, and that it does nothing elsewhere. *)
LEMMA EffectFacts ==
    ASSUME DesktopTypeOK, NEW i \in Guests,
           NEW cmd \in Settings \cup {"set-credentials"},
           NEW c \in Secrets \cup {NoSecret}, Effect(i, cmd, c)
    PROVE  /\ up' = up
           /\ settings' \in [Guests -> SUBSET Settings]
           /\ secret' \in [Guests -> Secrets \cup {NoSecret}]
           /\ cmd = "set-credentials" => settings' = settings /\ secret'[i] = c
           /\ cmd # "set-credentials" => secret' = secret
           /\ cmd # "set-credentials" => settings'[i] = settings[i] \cup {cmd}
           /\ \A j \in Guests : j # i =>
                 settings'[j] = settings[j] /\ secret'[j] = secret[j]
BY DEF DesktopTypeOK, Effect

------------------------------------------------------------------------------
(* The proxy and the port forward do not touch what requests work on. *)

SessionAction(s) ==
    \/ \E i \in Guests : HandleRDPProxy(s, i)
    \/ BrowserLeaves(s) \/ ReadRequest(s) \/ HandshakeTls(s)
    \/ SessionStep(s)
    \/ ToWsReadFails(s) \/ ToWsWriteFails(s)
    \/ ToTlsReadFails(s) \/ ToTlsWriteFails(s)

LEMMA SessionSteps ==
    ASSUME NEW s \in Sessions, SessionAction(s), DesktopTypeOK
    PROVE  \E q \in Session : Become(s, q)
<1>1. session[s] \in Session
      BY DEF DesktopTypeOK
<1>2. NoSession \in Session
      BY DEF NoSession, Session, Relay
<1>3. ASSUME NEW i \in Guests, HandleRDPProxy(s, i)
      PROVE  \E q \in Session : Become(s, q)
  <2>1. [NoSession EXCEPT !.pc = "request", !.inst = i, !.client = TRUE]
           \in Session
        BY DEF NoSession, Session, Relay
  <2> QED
        BY <1>3, <2>1 DEF HandleRDPProxy
<1>4. ASSUME NEW pc, To(s, pc),
             pc \in {"dial", "x224", "tls", "respond", "relay", "closed"}
      PROVE  \E q \in Session : Become(s, q)
  <2>1. [session[s] EXCEPT !.pc = pc] \in Session
        BY <1>1, <1>4 DEF Session
  <2> QED
        BY <1>4, <2>1 DEF To
<1>5. ASSUME Return(s)
      PROVE  \E q \in Session : Become(s, q)
      BY <1>2, <1>5 DEF Return
<1>6. CASE BrowserLeaves(s)
  <2>1. [session[s] EXCEPT !.client = FALSE] \in Session
        BY <1>1 DEF Session
  <2> QED
        BY <1>6, <2>1 DEF BrowserLeaves
<1>7. CASE Dial(s)
  <2>1. [session[s] EXCEPT !.pc = "x224", !.target = forward] \in Session
        BY <1>1 DEF Session, DesktopTypeOK
  <2> QED
        BY <1>5, <1>7, <2>1 DEF Dial
<1>8. CASE SendResponse(s)
  <2>1. [session[s] EXCEPT !.pc = "relay", !.toWs = "copying",
                           !.toTls = "copying"] \in Session
        BY <1>1 DEF Session, Relay
  <2> QED
        BY <1>5, <1>8, <2>1 DEF SendResponse
<1>9. CASE \/ ToWsReadFails(s) \/ ToWsWriteFails(s)
           \/ ToTlsReadFails(s) \/ ToTlsWriteFails(s)
  <2>1. /\ [session[s] EXCEPT !.toWs = "done"] \in Session
        /\ [session[s] EXCEPT !.toTls = "done"] \in Session
        BY <1>1 DEF Session, Relay
  <2> QED
        BY <1>9, <2>1
        DEF ToWsReadFails, ToWsWriteFails, ToTlsReadFails, ToTlsWriteFails
<1>10. CASE ReadRequest(s) \/ ReadRequestFails(s) \/ HandshakeTls(s)
               \/ HandshakeTlsFails(s)
       BY <1>4, <1>5, <1>10 DEF ReadRequest, ReadRequestFails, HandshakeTls,
             HandshakeTlsFails
<1>11. CASE ExchangeX224(s) \/ HandlerReturns(s) \/ Gone(s)
       BY <1>4, <1>5, <1>11 DEF ExchangeX224, HandlerReturns, Gone
<1> QED
    BY <1>3, <1>6, <1>7, <1>8, <1>9, <1>10, <1>11 DEF SessionAction, SessionStep

------------------------------------------------------------------------------
(* What a request's arrival and its steps change. *)

LEMMA Arrival ==
    ASSUME DesktopTypeOK, NEW e \in Enables, NEW i \in Guests,
           NEW c \in Secrets, HandleRDPEnable(e, i, c)
    PROVE  /\ enable' \in [Enables -> Enable]
           /\ enable'[e].pc = "detect" /\ enable'[e].inst = i
           /\ enable'[e].secret = c /\ enable'[e].type = "none"
           /\ enable'[e].step = 1
           /\ enable'[e].alone => ~AtGuest(i) /\ ~StraysAt(i)
           /\ \A f \in Enables : f # e =>
                 /\ enable'[f].pc = enable[f].pc
                 /\ enable'[f].inst = enable[f].inst
                 /\ enable'[f].secret = enable[f].secret
                 /\ enable'[f].type = enable[f].type
                 /\ enable'[f].step = enable[f].step
                 /\ enable'[f].alone => enable[f].alone /\ enable[f].inst # i
           /\ UNCHANGED <<guestVars, strays, proxyVars>>
<1> DEFINE free == ~AtGuest(i) /\ ~StraysAt(i)
           new == [NoEnable EXCEPT !.pc = "detect", !.inst = i, !.secret = c,
                                   !.alone = free]
<1>1. free \in BOOLEAN
      BY DEF AtGuest, StraysAt
<1> HIDE DEF free
<1>2. /\ new \in Enable /\ new.pc = "detect" /\ new.inst = i
      /\ new.secret = c /\ new.type = "none" /\ new.alone = free
      /\ new.step = 1
  <2>1. NoEnable \in Enable /\ NoEnable.type = "none" /\ NoEnable.step = 1
        BY GrdLength DEF NoEnable, Enable
  <2> QED
        BY <1>1, <2>1 DEF Enable
<1>3. enable' = [f \in Enables |->
                   IF f = e THEN new
                   ELSE IF enable[f].inst = i
                   THEN [enable[f] EXCEPT !.alone = FALSE]
                   ELSE enable[f]]
      BY DEF HandleRDPEnable, free
<1> HIDE DEF new
<1>4. \A f \in Enables : enable[f] \in Enable
      BY DEF DesktopTypeOK
<1>5. \A q \in Enable :
        /\ [q EXCEPT !.alone = FALSE] \in Enable
        /\ [q EXCEPT !.alone = FALSE].pc = q.pc
        /\ [q EXCEPT !.alone = FALSE].inst = q.inst
        /\ [q EXCEPT !.alone = FALSE].secret = q.secret
        /\ [q EXCEPT !.alone = FALSE].type = q.type
        /\ [q EXCEPT !.alone = FALSE].step = q.step
        /\ ~[q EXCEPT !.alone = FALSE].alone
      BY DEF Enable
<1>6. enable' \in [Enables -> Enable]
      BY <1>2, <1>3, <1>4, <1>5
<1>7. enable'[e] = new
      BY <1>3
<1>8. \A f \in Enables : f # e =>
         enable'[f] \in {enable[f], [enable[f] EXCEPT !.alone = FALSE]}
      BY <1>3
<1>9. \A f \in Enables : f # e /\ enable[f].inst = i =>
         enable'[f] = [enable[f] EXCEPT !.alone = FALSE]
      BY <1>3
<1>10. \A f \in Enables : f # e =>
         /\ enable'[f].pc = enable[f].pc
         /\ enable'[f].inst = enable[f].inst
         /\ enable'[f].secret = enable[f].secret
         /\ enable'[f].type = enable[f].type
         /\ enable'[f].step = enable[f].step
       BY <1>4, <1>5, <1>8
<1>11. \A f \in Enables : f # e =>
         (enable'[f].alone => enable[f].alone /\ enable[f].inst # i)
       BY <1>4, <1>5, <1>8, <1>9
<1>12. UNCHANGED <<guestVars, strays, proxyVars>>
       BY DEF HandleRDPEnable
<1> QED
    BY <1>2, <1>6, <1>7, <1>10, <1>11, <1>12 DEF free

(* Detection settles on one of the two servers or gives up. *)
LEMMA StatusStep ==
    ASSUME DesktopTypeOK, RequestInv, NEW e \in Enables, GetRDPStatus(e)
    PROVE  /\ enable' \in [Enables -> Enable]
           /\ \A f \in Enables : f # e => enable'[f] = enable[f]
           /\ enable[e].pc = "detect"
           /\ enable'[e].inst = enable[e].inst
           /\ enable'[e].secret = enable[e].secret
           /\ enable'[e].alone = enable[e].alone
           /\ enable'[e].step = enable[e].step
           /\ \/ /\ enable'[e].pc \in {"run", "check"}
                 /\ enable'[e].type \in {"grd", "xrdp"}
              \/ enable'[e].pc = "failed" /\ enable'[e].type = enable[e].type
           /\ UNCHANGED <<guestVars, strays, proxyVars>>
<1>1. /\ enable[e] \in Enable /\ enable \in [Enables -> Enable]
      /\ enable[e].pc = "detect"
      BY DEF DesktopTypeOK, GetRDPStatus
<1>2. Has[enable[e].inst] \subseteq {"grd", "xrdp"}
      BY <1>1, DesktopAssumption DEF RequestInv
<1>3. ASSUME NEW new \in Enable, enable' = [enable EXCEPT ![e] = new]
      PROVE  /\ enable' \in [Enables -> Enable] /\ enable'[e] = new
             /\ \A f \in Enables : f # e => enable'[f] = enable[f]
      BY <1>1, <1>3
<1>4. ASSUME NEW type \in {"grd", "xrdp"}, NEW pc \in {"run", "check"},
             enable' = [enable EXCEPT ![e] =
                          [@ EXCEPT !.pc = pc, !.type = type]]
      PROVE  /\ enable' \in [Enables -> Enable]
             /\ enable'[e] = [enable[e] EXCEPT !.pc = pc, !.type = type]
             /\ \A f \in Enables : f # e => enable'[f] = enable[f]
  <2>1. [enable[e] EXCEPT !.pc = pc, !.type = type] \in Enable
        BY <1>1 DEF Enable
  <2> QED
        BY <1>3, <1>4, <2>1
<1>6. CASE enable' = [enable EXCEPT ![e].pc = "failed"]
      BY <1>1, <1>6 DEF Enable, GetRDPStatus
<1>7. ASSUME NEW type \in {"grd", "xrdp"}, NEW pc \in {"run", "check"},
             enable' = [enable EXCEPT ![e] =
                          [@ EXCEPT !.pc = pc, !.type = type]]
      PROVE  /\ enable'[e].pc = pc /\ enable'[e].type = type
             /\ enable'[e].inst = enable[e].inst
             /\ enable'[e].secret = enable[e].secret
             /\ enable'[e].alone = enable[e].alone
             /\ enable'[e].step = enable[e].step
  <2>1. enable'[e] = [enable[e] EXCEPT !.pc = pc, !.type = type]
        BY <1>4, <1>7
  <2> QED
        BY <1>1, <2>1 DEF Enable
<1> QED
    BY <1>1, <1>2, <1>4, <1>6, <1>7 DEF GetRDPStatus

(* A request's steps change its own record only, and in it neither the     *)
(* guest, nor the credentials, nor the history, until it is answered.      *)
LEMMA RequestStep ==
    ASSUME DesktopTypeOK, RequestInv, NEW e \in Enables, EnableStep(e)
    PROVE  /\ enable' \in [Enables -> Enable]
           /\ \A f \in Enables : f # e => enable'[f] = enable[f]
           /\ \/ enable'[e] = NoEnable
              \/ /\ enable'[e].inst = enable[e].inst
                 /\ enable'[e].secret = enable[e].secret
                 /\ enable'[e].alone = enable[e].alone
                 /\ enable[e].pc # "idle" /\ enable'[e].pc # "idle"
           /\ UNCHANGED proxyVars
<1>1. enable[e] \in Enable /\ enable \in [Enables -> Enable]
      BY DEF DesktopTypeOK
<1>2. NoEnable \in Enable
      BY GrdLength DEF NoEnable, Enable
<1>3. CASE GetRDPStatus(e)
      BY <1>3, StatusStep
<1>4. CASE CommandSucceeds(e)
  <2>1. LastStep(e) \/ enable[e].step + 1 \in 1..Len(GrdCommands)
    <3>1. enable[e].step \in 1..4
          BY <1>1, GrdLength DEF Enable
    <3>2. enable[e].type \in {"grd", "xrdp"}
          BY <1>4 DEF CommandSucceeds, RequestInv
    <3>3. enable[e].type = "grd" => (LastStep(e) <=> enable[e].step = 4)
          BY CommandFacts
    <3>4. enable[e].type # "grd" => LastStep(e)
          BY CommandFacts DEF RequestInv
    <3> QED
          BY <3>1, <3>2, <3>3, <3>4, GrdLength
  <2>2. \/ enable' = [enable EXCEPT ![e].pc = "ok"]
        \/ /\ enable[e].step + 1 \in 1..Len(GrdCommands)
           /\ enable' = [enable EXCEPT ![e].step = enable[e].step + 1]
        BY <1>4, <2>1 DEF CommandSucceeds, Advance
  <2>3. enable[e].pc = "run" /\ UNCHANGED proxyVars
        BY <1>4 DEF CommandSucceeds
  <2> QED
        BY <1>1, <2>2, <2>3 DEF Enable
<1>5. CASE CommandFails(e) \/ CommandHangs(e)
      BY <1>1, <1>5 DEF CommandFails, CommandHangs, Enable
<1>6. CASE Answer(e)
      BY <1>1, <1>2, <1>6 DEF Answer
<1> QED
    BY <1>3, <1>4, <1>5, <1>6 DEF EnableStep

(* A request's steps change the guest and the strays by one command: it    *)
(* takes effect, or is left running, or neither.                           *)
LEMMA RequestActs ==
    ASSUME DesktopTypeOK, RequestInv, NEW e \in Enables, EnableStep(e)
    PROVE  \/ UNCHANGED <<guestVars, strays>>
           \/ /\ enable[e].pc = "run" /\ strays' = strays
              /\ Effect(enable[e].inst, CommandOf(e), enable[e].secret)
           \/ /\ enable[e].pc = "run" /\ UNCHANGED guestVars
              /\ enable'[e].pc \in {"failed", "hung"}
              /\ strays' = strays \cup {[inst |-> enable[e].inst,
                                          cmd |-> CommandOf(e),
                                          secret |-> SecretFor(e)]}
<1>1. CASE GetRDPStatus(e) \/ Answer(e)
      BY <1>1 DEF GetRDPStatus, Answer
<1>2. CASE CommandSucceeds(e)
      BY <1>2 DEF CommandSucceeds
<1>3. CASE CommandFails(e) \/ CommandHangs(e)
  <2>1. enable'[e].pc \in {"failed", "hung"}
        BY <1>3 DEF CommandFails, CommandHangs, DesktopTypeOK, Enable
  <2> QED
        BY <1>3, <2>1 DEF CommandFails, CommandHangs, CommandBreaks
<1> QED
    BY <1>1, <1>2, <1>3 DEF EnableStep

(* A guest that stops, and the end of a hanging command, let requests go   *)
(* on: from a status check to the first command, from a command to its     *)
(* failure.  They change nothing in the guests.                            *)
LetGo == (\E i \in Guests : GuestStops(i)) \/ (\E e \in Enables : HangEnds(e))

LEMMA LettingGo ==
    ASSUME DesktopTypeOK, LetGo
    PROVE  /\ enable' \in [Enables -> Enable]
           /\ \A e \in Enables :
                 /\ enable'[e].inst = enable[e].inst
                 /\ enable'[e].secret = enable[e].secret
                 /\ enable'[e].type = enable[e].type
                 /\ enable'[e].step = enable[e].step
                 /\ enable'[e].alone = enable[e].alone
                 /\ \/ enable'[e].pc = enable[e].pc
                    \/ enable[e].pc = "check" /\ enable'[e].pc = "run"
                    \/ enable[e].pc = "hung" /\ enable'[e].pc = "failed"
           /\ strays' \subseteq strays /\ UNCHANGED <<settings, secret>>
<1>1. enable \in [Enables -> Enable]
      BY DEF DesktopTypeOK
<1>2. \A q \in Enable : Hangs(q) =>
         /\ Released(q) \in Enable
         /\ Released(q).inst = q.inst /\ Released(q).secret = q.secret
         /\ Released(q).type = q.type /\ Released(q).step = q.step
         /\ Released(q).alone = q.alone
         /\ \/ q.pc = "check" /\ Released(q).pc = "run"
            \/ q.pc = "hung" /\ Released(q).pc = "failed"
      BY DEF Hangs, Released, Enable
<1>3. ASSUME \A e \in Enables :
                \/ enable'[e] = enable[e]
                \/ Hangs(enable[e]) /\ enable'[e] = Released(enable[e]),
             enable' = [e \in Enables |-> enable'[e]],
             strays' \subseteq strays, UNCHANGED <<settings, secret>>
      PROVE  /\ enable' \in [Enables -> Enable]
             /\ \A e \in Enables :
                   /\ enable'[e].inst = enable[e].inst
                   /\ enable'[e].secret = enable[e].secret
                   /\ enable'[e].type = enable[e].type
                   /\ enable'[e].step = enable[e].step
                   /\ enable'[e].alone = enable[e].alone
                   /\ \/ enable'[e].pc = enable[e].pc
                      \/ enable[e].pc = "check" /\ enable'[e].pc = "run"
                      \/ enable[e].pc = "hung" /\ enable'[e].pc = "failed"
             /\ strays' \subseteq strays /\ UNCHANGED <<settings, secret>>
  <2>1. \A e \in Enables : enable[e] \in Enable
        BY <1>1
  <2>2. \A e \in Enables : enable'[e] \in Enable
        BY <1>2, <1>3, <2>1
  <2>3. enable' \in [Enables -> Enable]
        BY <1>3, <2>2
  <2> QED
        BY <1>2, <1>3, <2>1, <2>3
<1>4. ASSUME NEW i \in Guests, GuestStops(i)
      PROVE  /\ enable' = [e \in Enables |-> enable'[e]]
             /\ strays' \subseteq strays /\ UNCHANGED <<settings, secret>>
             /\ \A e \in Enables :
                   \/ enable'[e] = enable[e]
                   \/ Hangs(enable[e]) /\ enable'[e] = Released(enable[e])
      BY <1>4 DEF GuestStops
<1>5. ASSUME NEW f \in Enables, HangEnds(f)
      PROVE  /\ enable' = [e \in Enables |-> enable'[e]]
             /\ strays' \subseteq strays /\ UNCHANGED <<settings, secret>>
             /\ \A e \in Enables :
                   \/ enable'[e] = enable[e]
                   \/ Hangs(enable[e]) /\ enable'[e] = Released(enable[e])
      BY <1>1, <1>5 DEF HangEnds, guestVars
<1> QED
    BY <1>3, <1>4, <1>5 DEF LetGo

(* The cases of the next-state relation, the session's as one. *)
LEMMA Cases ==
    ASSUME DesktopTypeOK, [DesktopNext]_dvars,
           NEW P,
           ASSUME UNCHANGED dvars PROVE P,
           ASSUME NEW i \in Guests, GuestStarts(i) \/ Forward(i) PROVE P,
           ASSUME LetGo PROVE P,
           ASSUME StrayEffect \/ StrayDies PROVE P,
           ASSUME NEW e \in Enables, NEW i \in Guests, NEW c \in Secrets,
                  HandleRDPEnable(e, i, c)
           PROVE  P,
           ASSUME NEW e \in Enables, EnableStep(e) PROVE P,
           ASSUME NEW s \in Sessions, NEW q \in Session, Become(s, q) PROVE P
    PROVE  P
<1>1. ASSUME NEW s \in Sessions, SessionAction(s) PROVE P
      BY <1>1, SessionSteps
<1> QED
    BY <1>1 DEF DesktopNext, SessionAction, LetGo

------------------------------------------------------------------------------
(* Typing *)

LEMMA TypeInit == DesktopInit => DesktopTypeOK
<1>1. NoEnable \in Enable
      BY GrdLength DEF NoEnable, Enable
<1>2. NoSession \in Session
      BY DEF NoSession, Session, Relay
<1> QED
    BY <1>1, <1>2 DEF DesktopInit, DesktopTypeOK, Settings

LEMMA TypeStep ==
    DesktopTypeOK /\ RequestInv /\ [DesktopNext]_dvars => DesktopTypeOK'
<1> SUFFICES ASSUME DesktopTypeOK, RequestInv, [DesktopNext]_dvars
             PROVE  DesktopTypeOK'
    OBVIOUS
<1>1. ASSUME UNCHANGED dvars PROVE DesktopTypeOK'
      BY <1>1 DEF dvars, DesktopTypeOK
<1>2. ASSUME NEW i \in Guests, GuestStarts(i) \/ Forward(i)
      PROVE  DesktopTypeOK'
      BY <1>2 DEF GuestStarts, Forward, DesktopTypeOK, guestVars, proxyVars
<1>7. ASSUME LetGo PROVE DesktopTypeOK'
  <2>1. /\ enable' \in [Enables -> Enable]
        /\ strays' \subseteq strays /\ UNCHANGED <<settings, secret>>
        BY <1>7, LettingGo
  <2>2. ASSUME NEW i \in Guests, GuestStops(i)
        PROVE  /\ session' \in [Sessions -> Session] /\ up' \subseteq Guests
               /\ forward' \in Guests \cup {NoGuest}
        BY <2>2 DEF GuestStops, DesktopTypeOK, Session
  <2>3. ASSUME NEW e \in Enables, HangEnds(e)
        PROVE  /\ session' \in [Sessions -> Session] /\ up' \subseteq Guests
               /\ forward' \in Guests \cup {NoGuest}
        BY <2>3 DEF HangEnds, DesktopTypeOK, guestVars, proxyVars
  <2>4. /\ session' \in [Sessions -> Session] /\ up' \subseteq Guests
        /\ forward' \in Guests \cup {NoGuest}
        BY <1>7, <2>2, <2>3 DEF LetGo
  <2> QED
        BY <2>1, <2>4 DEF DesktopTypeOK
<1>3. ASSUME StrayEffect \/ StrayDies PROVE DesktopTypeOK'
  <2>1. CASE StrayDies
        BY <2>1 DEF StrayDies, DesktopTypeOK, guestVars, proxyVars
  <2>2. CASE StrayEffect
    <3>1. PICK k \in strays : /\ Effect(k.inst, k.cmd, k.secret)
                              /\ strays' = strays \ {k}
                              /\ UNCHANGED <<enable, proxyVars>>
          BY <2>2 DEF StrayEffect
    <3>2. /\ k.inst \in Guests /\ k.cmd \in Settings \cup {"set-credentials"}
          /\ k.secret \in Secrets \cup {NoSecret}
          BY DEF DesktopTypeOK, Stray
    <3>3. /\ up' = up
          /\ settings' \in [Guests -> SUBSET Settings]
          /\ secret' \in [Guests -> Secrets \cup {NoSecret}]
          BY <3>1, <3>2, EffectFacts
    <3> QED
          BY <3>1, <3>3 DEF DesktopTypeOK, proxyVars
  <2> QED
        BY <1>3, <2>1, <2>2
<1>4. ASSUME NEW e \in Enables, NEW i \in Guests, NEW c \in Secrets,
             HandleRDPEnable(e, i, c)
      PROVE  DesktopTypeOK'
  <2>1. /\ enable' \in [Enables -> Enable]
        /\ UNCHANGED <<guestVars, strays, proxyVars>>
        BY <1>4, Arrival
  <2> QED
        BY <2>1 DEF DesktopTypeOK, guestVars, proxyVars
<1>5. ASSUME NEW e \in Enables, EnableStep(e) PROVE DesktopTypeOK'
  <2>1. enable' \in [Enables -> Enable] /\ UNCHANGED proxyVars
        BY <1>5, RequestStep
  <2>2. /\ up' \subseteq Guests /\ strays' \subseteq Stray
        /\ settings' \in [Guests -> SUBSET Settings]
        /\ secret' \in [Guests -> Secrets \cup {NoSecret}]
    <3>1. CASE UNCHANGED <<guestVars, strays>>
          BY <3>1 DEF DesktopTypeOK, guestVars
    <3>2. CASE /\ enable[e].pc = "run" /\ strays' = strays
               /\ Effect(enable[e].inst, CommandOf(e), enable[e].secret)
          BY <3>2, CommandTyped, EffectFacts DEF DesktopTypeOK
    <3>3. CASE /\ enable[e].pc = "run" /\ UNCHANGED guestVars
               /\ strays' = strays \cup {[inst |-> enable[e].inst,
                                           cmd |-> CommandOf(e),
                                           secret |-> SecretFor(e)]}
      <4>1. SecretFor(e) \in Secrets \cup {NoSecret}
            BY <3>3, CommandTyped DEF SecretFor
      <4> QED
            BY <3>3, <4>1, CommandTyped DEF DesktopTypeOK, Stray, guestVars
    <3> QED
          BY <1>5, <3>1, <3>2, <3>3, RequestActs
  <2> QED
        BY <2>1, <2>2 DEF DesktopTypeOK, proxyVars
<1>6. ASSUME NEW s \in Sessions, NEW q \in Session, Become(s, q)
      PROVE  DesktopTypeOK'
      BY <1>6 DEF Become, DesktopTypeOK, guestVars
<1> HIDE DEF DesktopTypeOK
<1> QED
    BY <1>1, <1>2, <1>3, <1>4, <1>5, <1>6, <1>7, Cases

(* Only arrivals, a request's own steps and LetGo change the requests. *)
LEMMA RequestsKept ==
    ASSUME \/ UNCHANGED dvars
           \/ \E i \in Guests : GuestStarts(i) \/ Forward(i)
           \/ StrayEffect \/ StrayDies
           \/ \E s \in Sessions, q \in Session : Become(s, q)
    PROVE  enable' = enable
BY DEF dvars, GuestStarts, Forward, StrayEffect, StrayDies, Become

LEMMA RequestInvStep ==
    DesktopTypeOK /\ RequestInv /\ [DesktopNext]_dvars => RequestInv'
<1> SUFFICES ASSUME DesktopTypeOK, RequestInv, [DesktopNext]_dvars
             PROVE  RequestInv'
    OBVIOUS
<1>1. ASSUME enable' = enable PROVE RequestInv'
      BY <1>1 DEF RequestInv
<1>2. ASSUME NEW e \in Enables, NEW i \in Guests, NEW c \in Secrets,
             HandleRDPEnable(e, i, c)
      PROVE  RequestInv'
  <2>1. /\ enable'[e].pc = "detect" /\ enable'[e].inst = i
        /\ enable'[e].secret = c /\ enable'[e].type = "none"
        /\ enable'[e].step = 1
        /\ \A f \in Enables : f # e =>
              /\ enable'[f].pc = enable[f].pc
              /\ enable'[f].inst = enable[f].inst
              /\ enable'[f].secret = enable[f].secret
              /\ enable'[f].type = enable[f].type
              /\ enable'[f].step = enable[f].step
        BY <1>2, Arrival
  <2> QED
        BY <2>1 DEF RequestInv
<1>3. ASSUME NEW e \in Enables, EnableStep(e) PROVE RequestInv'
  <2>1. \A f \in Enables : f # e => enable'[f] = enable[f]
        BY <1>3, RequestStep
  <2>2. /\ enable'[e].pc # "idle" =>
              enable'[e].inst \in Guests /\ enable'[e].secret \in Secrets
        BY <1>3, RequestStep DEF RequestInv, NoEnable
  <2>3. /\ enable'[e].pc \in {"check", "run", "ok"} =>
              enable'[e].type \in {"grd", "xrdp"}
        /\ enable'[e].pc \in {"detect", "check"} \/ enable'[e].type # "grd" =>
              enable'[e].step = 1
    <3>0. enable[e] \in Enable /\ enable \in [Enables -> Enable]
          BY DEF DesktopTypeOK
    <3>1. CASE GetRDPStatus(e)
          BY <3>1, StatusStep DEF RequestInv
    <3>2. CASE CommandSucceeds(e)
      <4>1. enable[e].type # "grd" => LastStep(e)
            BY CommandFacts DEF RequestInv
      <4> QED
            BY <3>0, <3>2, <4>1 DEF CommandSucceeds, Advance, Enable, RequestInv
    <3>3. CASE CommandFails(e) \/ CommandHangs(e)
          BY <3>0, <3>3 DEF CommandFails, CommandHangs, Enable, RequestInv
    <3>4. CASE Answer(e)
          BY <3>0, <3>4 DEF Answer, NoEnable
    <3> QED
          BY <1>3, <3>1, <3>2, <3>3, <3>4 DEF EnableStep
  <2> QED
        BY <2>1, <2>2, <2>3 DEF RequestInv
<1>4. ASSUME LetGo PROVE RequestInv'
      BY <1>4, LettingGo DEF RequestInv
<1> HIDE DEF RequestInv
<1> QED
    BY <1>1, <1>2, <1>3, <1>4, RequestsKept, Cases

------------------------------------------------------------------------------
(* Credentials *)

(* A command keeps every guest's credentials, and where the server is      *)
(* started they are there.                                                 *)
LEMMA EffectCredentials ==
    ASSUME DesktopTypeOK, CredentialsInv, NEW i \in Guests,
           NEW cmd \in Settings \cup {"set-credentials"},
           NEW c \in Secrets \cup {NoSecret}, Effect(i, cmd, c),
           cmd = "set-credentials" => c \in Secrets,
           cmd = "start-grd" => secret[i] # NoSecret
    PROVE  /\ \A j \in Guests : secret[j] # NoSecret => secret'[j] # NoSecret
           /\ \A j \in Guests :
                 "start-grd" \in settings'[j] => secret'[j] # NoSecret
           /\ cmd = "set-credentials" => secret'[i] # NoSecret
<1>1. \A j \in Guests : j # i =>
         settings'[j] = settings[j] /\ secret'[j] = secret[j]
      BY EffectFacts
<1>2. CASE cmd = "set-credentials"
  <2>1. settings' = settings /\ secret'[i] = c /\ c # NoSecret
        BY <1>2, EffectFacts, DesktopAssumption
  <2> QED
        BY <1>1, <1>2, <2>1 DEF CredentialsInv
<1>3. CASE cmd # "set-credentials"
  <2>1. secret' = secret /\ settings'[i] = settings[i] \cup {cmd}
        BY <1>3, EffectFacts
  <2> QED
        BY <1>1, <1>3, <2>1 DEF CredentialsInv
<1> QED
    BY <1>2, <1>3

LEMMA CredentialsStep ==
    DesktopTypeOK /\ RequestInv /\ CredentialsInv /\ [DesktopNext]_dvars
    => CredentialsInv'
<1> SUFFICES ASSUME DesktopTypeOK, RequestInv, CredentialsInv,
                    [DesktopNext]_dvars
             PROVE  CredentialsInv'
    OBVIOUS
<1>1. ASSUME enable' = enable, settings' = settings, secret' = secret,
             strays' \subseteq strays
      PROVE  CredentialsInv'
      BY <1>1 DEF CredentialsInv
<1>2. ASSUME UNCHANGED dvars PROVE CredentialsInv'
      BY <1>1, <1>2 DEF dvars
<1>3. ASSUME NEW i \in Guests, GuestStarts(i) \/ Forward(i)
      PROVE  CredentialsInv'
      BY <1>1, <1>3 DEF GuestStarts, Forward, guestVars
<1>8. ASSUME LetGo PROVE CredentialsInv'
      BY <1>8, LettingGo DEF CredentialsInv, RequestInv
<1>4. ASSUME StrayEffect \/ StrayDies PROVE CredentialsInv'
  <2>1. CASE StrayDies
        BY <1>1, <2>1 DEF StrayDies, guestVars
  <2>2. CASE StrayEffect
    <3>1. PICK k \in strays : /\ Effect(k.inst, k.cmd, k.secret)
                              /\ strays' = strays \ {k}
                              /\ UNCHANGED <<enable, proxyVars>>
          BY <2>2 DEF StrayEffect
    <3>2. /\ k.inst \in Guests /\ k.cmd \in Settings \cup {"set-credentials"}
          /\ k.secret \in Secrets \cup {NoSecret}
          BY DEF DesktopTypeOK, Stray
    <3>3. /\ k.cmd = "set-credentials" => k.secret \in Secrets
          /\ k.cmd = "start-grd" => secret[k.inst] # NoSecret
          BY DEF CredentialsInv
    <3>4. /\ \A j \in Guests : secret[j] # NoSecret => secret'[j] # NoSecret
          /\ \A j \in Guests :
                "start-grd" \in settings'[j] => secret'[j] # NoSecret
          BY <3>1, <3>2, <3>3, EffectCredentials
    <3>5. \A m \in strays : m.inst \in Guests
          BY DEF DesktopTypeOK, Stray
    <3> QED
          BY <3>1, <3>4, <3>5 DEF CredentialsInv, RequestInv
  <2> QED
        BY <1>4, <2>1, <2>2
<1>5. ASSUME NEW e \in Enables, NEW i \in Guests, NEW c \in Secrets,
             HandleRDPEnable(e, i, c)
      PROVE  CredentialsInv'
  <2>1. /\ enable'[e].pc = "detect"
        /\ \A f \in Enables : f # e =>
              /\ enable'[f].pc = enable[f].pc
              /\ enable'[f].inst = enable[f].inst
              /\ enable'[f].type = enable[f].type
              /\ enable'[f].step = enable[f].step
        /\ UNCHANGED <<guestVars, strays>>
        BY <1>5, Arrival
  <2> QED
        BY <2>1 DEF CredentialsInv, guestVars
<1>6. ASSUME NEW e \in Enables, EnableStep(e) PROVE CredentialsInv'
  <2> DEFINE i == enable[e].inst
  <2>1. \A f \in Enables : f # e => enable'[f] = enable[f]
        BY <1>6, RequestStep
  <2>2. /\ \A j \in Guests : secret[j] # NoSecret => secret'[j] # NoSecret
        /\ \A j \in Guests :
              "start-grd" \in settings'[j] => secret'[j] # NoSecret
        /\ \A k \in strays' : k.cmd = "set-credentials" => k.secret \in Secrets
        /\ \A k \in strays' : k.cmd = "start-grd" => secret'[k.inst] # NoSecret
    <3>1. CASE UNCHANGED <<guestVars, strays>>
          BY <3>1 DEF CredentialsInv, guestVars
    <3>2. ASSUME enable[e].pc = "run"
          PROVE  /\ CommandOf(e) = "start-grd" => secret[i] # NoSecret
                 /\ i \in Guests /\ enable[e].secret \in Secrets
                 /\ CommandOf(e) \in Settings \cup {"set-credentials"}
      <4>1. CommandOf(e) = "start-grd" =>
               enable[e].type = "grd" /\ enable[e].step = 4
            BY <3>2, CommandTyped, CommandFacts DEF RequestInv
      <4> QED
            BY <3>2, <4>1, CommandTyped DEF CredentialsInv
    <3>3. CASE /\ enable[e].pc = "run" /\ strays' = strays
               /\ Effect(i, CommandOf(e), enable[e].secret)
      <4>1. /\ \A j \in Guests : secret[j] # NoSecret => secret'[j] # NoSecret
            /\ \A j \in Guests :
                  "start-grd" \in settings'[j] => secret'[j] # NoSecret
            BY <3>2, <3>3, EffectCredentials
      <4>2. \A m \in strays : m.inst \in Guests
            BY DEF DesktopTypeOK, Stray
      <4> QED
            BY <3>3, <4>1, <4>2 DEF CredentialsInv
    <3>4. CASE /\ enable[e].pc = "run" /\ UNCHANGED guestVars
               /\ strays' = strays \cup {[inst |-> i, cmd |-> CommandOf(e),
                                           secret |-> SecretFor(e)]}
          BY <3>2, <3>4 DEF CredentialsInv, guestVars, SecretFor
    <3> QED
          BY <1>6, <3>1, <3>3, <3>4, RequestActs
  <2>3. /\ enable'[e].pc = "run" /\ enable'[e].type = "grd"
        /\ enable'[e].step = 4
        => secret'[enable'[e].inst] # NoSecret
    <3>0. /\ enable[e] \in Enable /\ enable \in [Enables -> Enable]
          /\ secret \in [Guests -> Secrets \cup {NoSecret}]
          BY DEF DesktopTypeOK
    <3>1. CASE GetRDPStatus(e)
          BY <3>1, StatusStep DEF RequestInv
    <3>2. CASE CommandSucceeds(e)
      <4>1. SUFFICES ASSUME enable'[e].pc = "run", enable'[e].type = "grd",
                            enable'[e].step = 4
                     PROVE  secret'[enable'[e].inst] # NoSecret
            OBVIOUS
      <4>2. /\ enable[e].type = "grd" /\ enable[e].step + 1 = 4
            /\ enable'[e].inst = i
            BY <3>0, <3>2, <4>1 DEF CommandSucceeds, Advance, Enable
      <4>3. enable[e].step = 3
            BY <3>2, <4>2, CommandTyped DEF CommandSucceeds
      <4>4. CommandOf(e) = "set-credentials"
            BY <4>2, <4>3, CommandFacts
      <4>5. /\ Effect(i, CommandOf(e), enable[e].secret)
            /\ i \in Guests /\ enable[e].secret \in Secrets
            BY <3>2, CommandTyped DEF CommandSucceeds
      <4> QED
            BY <4>2, <4>4, <4>5, EffectCredentials
    <3>3. CASE CommandFails(e) \/ CommandHangs(e)
          BY <3>0, <3>3 DEF CommandFails, CommandHangs, Enable
    <3>4. CASE Answer(e)
          BY <3>0, <3>4 DEF Answer, NoEnable
    <3> QED
          BY <1>6, <3>1, <3>2, <3>3, <3>4 DEF EnableStep
  <2> HIDE DEF i
  <2> QED
        BY <2>1, <2>2, <2>3 DEF CredentialsInv, RequestInv
<1>7. ASSUME NEW s \in Sessions, NEW q \in Session, Become(s, q)
      PROVE  CredentialsInv'
      BY <1>1, <1>7 DEF Become, guestVars
<1> HIDE DEF CredentialsInv
<1> QED
    BY <1>2, <1>3, <1>4, <1>5, <1>6, <1>7, <1>8, Cases

(* GNOME's server has credentials whenever it serves, for any number of    *)
(* guests, requests and strays, whichever command fails or times out.      *)
THEOREM CredentialsComeFirst == DesktopSpec => []CredentialsFirst
<1>1. DesktopInit => RequestInv /\ CredentialsInv
      BY DEF DesktopInit, RequestInv, CredentialsInv, NoEnable
<1>2. CredentialsInv => CredentialsFirst
      BY DEF CredentialsInv, CredentialsFirst, GrdServes
<1> QED
    BY <1>1, <1>2, TypeInit, TypeStep, RequestInvStep, CredentialsStep, PTL
    DEF DesktopSpec

(* Every reachable state has the types of DesktopTypeOK. *)
THEOREM DesktopTypeCorrect == DesktopSpec => []DesktopTypeOK
<1>1. DesktopInit => RequestInv
      BY DEF DesktopInit, RequestInv, NoEnable
<1> QED
    BY <1>1, TypeInit, TypeStep, RequestInvStep, PTL DEF DesktopSpec

------------------------------------------------------------------------------
(* Requests that have their guest to themselves *)

LEMMA AloneStep ==
    /\ DesktopTypeOK /\ RequestInv /\ AloneInv /\ [DesktopNext]_dvars
    => AloneInv'
<1> SUFFICES ASSUME DesktopTypeOK, RequestInv, AloneInv, [DesktopNext]_dvars
             PROVE  AloneInv'
    OBVIOUS
<1>1. ASSUME enable' = enable, strays' \subseteq strays
      PROVE  AloneInv'
      BY <1>1 DEF AloneInv, StraysAt
<1>2. ASSUME UNCHANGED dvars PROVE AloneInv'
      BY <1>1, <1>2 DEF dvars
<1>3. ASSUME NEW i \in Guests, GuestStarts(i) \/ Forward(i)
      PROVE  AloneInv'
      BY <1>1, <1>3 DEF GuestStarts, Forward
<1>8. ASSUME LetGo PROVE AloneInv'
      BY <1>8, LettingGo DEF AloneInv, StraysAt
<1>4. ASSUME StrayEffect \/ StrayDies PROVE AloneInv'
      BY <1>1, <1>4 DEF StrayEffect, StrayDies
<1>5. ASSUME NEW e \in Enables, NEW i \in Guests, NEW c \in Secrets,
             HandleRDPEnable(e, i, c)
      PROVE  AloneInv'
  <2>1. /\ enable'[e].pc = "detect" /\ enable'[e].inst = i
        /\ enable'[e].alone => ~AtGuest(i) /\ ~StraysAt(i)
        /\ \A f \in Enables : f # e =>
              /\ enable'[f].pc = enable[f].pc
              /\ enable'[f].inst = enable[f].inst
              /\ enable'[f].alone => enable[f].alone /\ enable[f].inst # i
        /\ UNCHANGED strays
        BY <1>5, Arrival
  <2> QED
        BY <2>1 DEF AloneInv, AtGuest, StraysAt
<1>6. ASSUME NEW e \in Enables, EnableStep(e) PROVE AloneInv'
  <2>1. \A f \in Enables : f # e => enable'[f] = enable[f]
        BY <1>6, RequestStep
  <2>2. \/ enable'[e] = NoEnable
        \/ /\ enable'[e].inst = enable[e].inst
           /\ enable'[e].alone = enable[e].alone
           /\ enable[e].pc # "idle" /\ enable'[e].pc # "idle"
        BY <1>6, RequestStep
  <2>3. /\ NoEnable.inst = NoGuest /\ ~NoEnable.alone
        /\ \A f \in Enables : enable[f].alone => enable[f].inst # NoGuest
        BY DesktopAssumption DEF NoEnable, AloneInv, RequestInv
  <2>4. enable[e].pc \in {"failed", "hung"} => enable'[e] = NoEnable
    <3>1. enable[e].pc \in {"failed", "hung"} => Answer(e)
          BY <1>6 DEF EnableStep, GetRDPStatus, CommandSucceeds, CommandFails,
                CommandHangs
    <3> QED
          BY <3>1 DEF Answer, DesktopTypeOK
  <2>5. \/ strays' = strays
        \/ /\ enable'[e].pc \in {"failed", "hung"}
           /\ \A k \in strays' \ strays : k.inst = enable[e].inst
        BY <1>6, RequestActs
  <2>6. ASSUME NEW g \in Enables, enable'[g].alone
        PROVE  /\ enable[g].alone /\ enable'[g].inst = enable[g].inst
               /\ enable'[g].pc # "idle"
               /\ enable'[g].pc \notin {"failed", "hung"} =>
                     enable[g].pc \notin {"failed", "hung"}
        BY <2>1, <2>2, <2>3, <2>4, <2>6 DEF AloneInv
  <2>7. ASSUME NEW g \in Enables, enable'[g].alone, NEW f \in Enables,
               enable'[f].inst = enable'[g].inst
        PROVE  f = g
    <3>1. enable[f].inst = enable[g].inst
          BY <2>1, <2>2, <2>3, <2>6, <2>7
    <3> QED
          BY <2>6, <2>7, <3>1 DEF AloneInv
  <2>8. ASSUME NEW g \in Enables, enable'[g].alone,
               enable'[g].pc \notin {"failed", "hung"},
               NEW k \in strays', k.inst = enable'[g].inst
        PROVE  FALSE
    <3>1. k \notin strays
          BY <2>6, <2>8 DEF AloneInv, StraysAt
    <3>2. /\ enable'[e].pc \in {"failed", "hung"}
          /\ enable[e].inst = enable[g].inst
          BY <2>5, <2>6, <2>8, <3>1
    <3> QED
          BY <2>6, <2>8, <3>2 DEF AloneInv
  <2> QED
        BY <2>6, <2>7, <2>8 DEF AloneInv, StraysAt
<1>7. ASSUME NEW s \in Sessions, NEW q \in Session, Become(s, q)
      PROVE  AloneInv'
      BY <1>1, <1>7 DEF Become
<1> HIDE DEF AloneInv
<1> QED
    BY <1>2, <1>3, <1>4, <1>5, <1>6, <1>7, <1>8, Cases

(* The progress of a request that runs commands, and its end. *)
Reached(q) ==
    /\ q.pc = "run" /\ q.type = "grd" =>
          /\ q.step > 1 => "enable" \in settings[q.inst]
          /\ q.step > 2 => "disable-view-only" \in settings[q.inst]
          /\ q.step > 3 => secret[q.inst] = q.secret
    /\ q.pc = "ok" =>
          IF q.type = "grd"
          THEN /\ {"enable", "disable-view-only", "start-grd"}
                      \subseteq settings[q.inst]
               /\ secret[q.inst] = q.secret
          ELSE "start-xrdp" \in settings[q.inst]

LEMMA ReachedIsInv ==
    /\ ProgressInv /\ EnabledIsTrue
    <=> \A e \in Enables : enable[e].alone => Reached(enable[e])
BY DEF ProgressInv, EnabledIsTrue, Reached

(* A successful command takes its own request one step further. *)
LEMMA CommandReaches ==
    ASSUME DesktopTypeOK, RequestInv, NEW e \in Enables, CommandSucceeds(e),
           Reached(enable[e])
    PROVE  Reached(enable[e])'
<1> DEFINE q == enable[e]
           i == enable[e].inst
<1>1. /\ q \in Enable /\ enable \in [Enables -> Enable]
      /\ settings \in [Guests -> SUBSET Settings]
      BY DEF DesktopTypeOK
<1>2. /\ q.pc = "run" /\ i \in Guests /\ q.secret \in Secrets
      /\ q.step \in 1..4 /\ q.type \in {"grd", "xrdp"}
      /\ CommandOf(e) \in Settings \cup {"set-credentials"}
      /\ Effect(i, CommandOf(e), q.secret)
      BY CommandTyped DEF CommandSucceeds, RequestInv
<1>3. /\ enable'[e].inst = i /\ enable'[e].secret = q.secret
      /\ enable'[e].type = q.type
      /\ LastStep(e) => enable'[e].pc = "ok"
      /\ ~LastStep(e) => enable'[e].pc = "run" /\ enable'[e].step = q.step + 1
      BY <1>1, <1>2 DEF CommandSucceeds, Advance, Enable
<1>4. /\ CommandOf(e) = "set-credentials" =>
            settings'[i] = settings[i] /\ secret'[i] = q.secret
      /\ CommandOf(e) # "set-credentials" =>
            settings'[i] = settings[i] \cup {CommandOf(e)} /\ secret'[i] = secret[i]
      BY <1>2, EffectFacts
<1>5. CASE q.type = "grd"
  <2>1. /\ q.step = 1 => CommandOf(e) = "enable"
        /\ q.step = 2 => CommandOf(e) = "disable-view-only"
        /\ q.step = 3 => CommandOf(e) = "set-credentials"
        /\ q.step = 4 => CommandOf(e) = "start-grd"
        /\ LastStep(e) <=> q.step = 4
        BY <1>5, CommandFacts
  <2>2. /\ q.step > 1 => "enable" \in settings[i]
        /\ q.step > 2 => "disable-view-only" \in settings[i]
        /\ q.step > 3 => secret[i] = q.secret
        BY <1>2, <1>5 DEF Reached
  <2>3. CASE q.step = 4
        BY <1>3, <1>4, <1>5, <2>1, <2>2, <2>3 DEF Reached
  <2>4. CASE q.step \in 1..3
    <3>1. /\ enable'[e].pc = "run" /\ enable'[e].step = q.step + 1
          BY <1>3, <2>1, <2>4
    <3>2. /\ q.step + 1 > 1 => "enable" \in settings'[i]
          /\ q.step + 1 > 2 => "disable-view-only" \in settings'[i]
          /\ q.step + 1 > 3 => secret'[i] = q.secret
          BY <1>4, <2>1, <2>2, <2>4
    <3> HIDE DEF q, i
    <3> QED
          BY <1>3, <3>1, <3>2 DEF Reached
  <2> QED
        BY <1>2, <2>3, <2>4
<1>6. CASE q.type = "xrdp"
  <2>1. LastStep(e) /\ CommandOf(e) = "start-xrdp"
        BY <1>6, CommandFacts DEF RequestInv
  <2> QED
        BY <1>3, <1>4, <1>6, <2>1 DEF Reached
<1> QED
    BY <1>2, <1>5, <1>6

LEMMA ProgressStep ==
    /\ DesktopTypeOK /\ RequestInv /\ AloneInv /\ ProgressInv /\ EnabledIsTrue
    /\ [DesktopNext]_dvars
    => ProgressInv' /\ EnabledIsTrue'
<1> SUFFICES ASSUME DesktopTypeOK, RequestInv, AloneInv, [DesktopNext]_dvars,
                    \A e \in Enables : enable[e].alone => Reached(enable[e]),
                    NEW g \in Enables, enable'[g].alone
             PROVE  Reached(enable[g])'
  <2>1. (/\ ProgressInv /\ EnabledIsTrue
         <=> \A e \in Enables : enable[e].alone => Reached(enable[e]))'
        BY DEF ProgressInv, EnabledIsTrue, Reached
  <2> QED
        BY <2>1, ReachedIsInv
<1> DEFINE i == enable[g].inst
(* The request keeps its progress when it and its guest are left alone. *)
<1>1. ASSUME enable'[g] = enable[g],
             enable[g].pc \in {"run", "ok"} =>
                settings'[i] = settings[i] /\ secret'[i] = secret[i]
      PROVE  Reached(enable[g])'
      BY <1>1 DEF Reached
<1>2. ASSUME UNCHANGED dvars PROVE Reached(enable[g])'
      BY <1>1, <1>2 DEF dvars
<1>3. ASSUME NEW j \in Guests, GuestStarts(j) \/ Forward(j)
      PROVE  Reached(enable[g])'
      BY <1>1, <1>3 DEF GuestStarts, Forward, guestVars
<1>8. ASSUME LetGo PROVE Reached(enable[g])'
  <2>1. /\ enable[g].alone /\ UNCHANGED <<settings, secret>>
        /\ enable'[g].inst = enable[g].inst
        /\ enable'[g].secret = enable[g].secret
        /\ enable'[g].type = enable[g].type
        /\ enable'[g].step = enable[g].step
        /\ \/ enable'[g].pc = enable[g].pc
           \/ enable[g].pc = "check" /\ enable'[g].pc = "run"
           \/ enable[g].pc = "hung" /\ enable'[g].pc = "failed"
        BY <1>8, LettingGo
  <2>2. Reached(enable[g]) /\ (enable[g].pc = "check" => enable[g].step = 1)
        BY <2>1 DEF RequestInv
  <2> QED
        BY <2>1, <2>2 DEF Reached
<1>4. ASSUME StrayEffect \/ StrayDies PROVE Reached(enable[g])'
  <2>1. CASE StrayDies
        BY <1>1, <2>1 DEF StrayDies, guestVars
  <2>2. CASE StrayEffect
    <3>1. PICK k \in strays : /\ Effect(k.inst, k.cmd, k.secret)
                              /\ strays' = strays \ {k}
                              /\ UNCHANGED <<enable, proxyVars>>
          BY <2>2 DEF StrayEffect
    <3>2. /\ k.inst \in Guests /\ k.cmd \in Settings \cup {"set-credentials"}
          /\ k.secret \in Secrets \cup {NoSecret}
          BY DEF DesktopTypeOK, Stray
    <3>3. enable[g].pc \notin {"failed", "hung"} => k.inst # i
          BY <3>1 DEF AloneInv, StraysAt
    <3>4. enable[g].pc \in {"run", "ok"} =>
             settings'[i] = settings[i] /\ secret'[i] = secret[i]
          BY <3>1, <3>2, <3>3, EffectFacts DEF RequestInv
    <3> QED
          BY <1>1, <3>1, <3>4
  <2> QED
        BY <1>4, <2>1, <2>2
<1>5. ASSUME NEW e \in Enables, NEW j \in Guests, NEW c \in Secrets,
             HandleRDPEnable(e, j, c)
      PROVE  Reached(enable[g])'
  <2>1. CASE g = e
    <3>1. enable'[e].pc = "detect"
          BY <1>5, Arrival
    <3> QED
          BY <2>1, <3>1 DEF Reached
  <2>2. CASE g # e
    <3>1. /\ enable'[g].pc = enable[g].pc
          /\ enable'[g].inst = enable[g].inst
          /\ enable'[g].secret = enable[g].secret
          /\ enable'[g].type = enable[g].type
          /\ enable'[g].step = enable[g].step
          /\ enable[g].alone
          /\ settings' = settings /\ secret' = secret
          BY <1>5, <2>2, Arrival DEF guestVars
    <3> QED
          BY <3>1 DEF Reached
  <2> QED
        BY <2>1, <2>2
<1>6. ASSUME NEW e \in Enables, EnableStep(e) PROVE Reached(enable[g])'
  <2>1. CASE g = e
    <3>1. enable[e].alone
          BY <1>6, <2>1, RequestStep DEF NoEnable
    <3>2. CASE CommandSucceeds(e)
          BY <2>1, <3>1, <3>2, CommandReaches
    <3>3. CASE GetRDPStatus(e)
      <4>1. /\ enable'[e].step = 1
            /\ enable'[e].pc \in {"run", "check", "failed"}
            BY <3>3, StatusStep DEF RequestInv
      <4> QED
            BY <2>1, <4>1 DEF Reached
    <3>4. CASE CommandFails(e) \/ CommandHangs(e)
      <4>1. enable'[e].pc \in {"failed", "hung"}
            BY <3>4 DEF CommandFails, CommandHangs, DesktopTypeOK, Enable
      <4> QED
            BY <2>1, <4>1 DEF Reached
    <3>5. CASE Answer(e)
      <4>1. enable'[e].pc = "idle"
            BY <3>5 DEF Answer, DesktopTypeOK, NoEnable
      <4> QED
            BY <2>1, <4>1 DEF Reached
    <3> QED
          BY <1>6, <3>2, <3>3, <3>4, <3>5 DEF EnableStep
  <2>2. CASE g # e
    <3>1. enable'[g] = enable[g]
          BY <1>6, <2>2, RequestStep
    <3>2. enable[e].inst # i
          BY <2>2, <3>1 DEF AloneInv
    <3>3. enable[g].pc \in {"run", "ok"} => i \in Guests
          BY DEF RequestInv
    <3>4. enable[g].pc \in {"run", "ok"} =>
             settings'[i] = settings[i] /\ secret'[i] = secret[i]
      <4>1. CASE UNCHANGED guestVars
            BY <4>1 DEF guestVars
      <4>2. CASE /\ enable[e].pc = "run"
                 /\ Effect(enable[e].inst, CommandOf(e), enable[e].secret)
            BY <3>2, <3>3, <4>2, CommandTyped, EffectFacts
      <4> QED
            BY <1>6, <4>1, <4>2, RequestActs
    <3> QED
          BY <1>1, <3>1, <3>4
  <2> QED
        BY <2>1, <2>2
<1>7. ASSUME NEW s \in Sessions, NEW q \in Session, Become(s, q)
      PROVE  Reached(enable[g])'
      BY <1>1, <1>7 DEF Become, guestVars
<1> QED
    BY <1>2, <1>3, <1>4, <1>5, <1>6, <1>7, <1>8, Cases

(* DesktopInv, and with it the truth of "enabled": the whole configuration *)
(* of a guest that one request had to itself is in effect, with that       *)
(* request's credentials, when the request succeeds.                       *)
THEOREM EnabledAnswersAreTrue == DesktopSpec => []EnabledIsTrue
<1>1. DesktopInit => DesktopInv
      BY TypeInit DEF DesktopInit, DesktopInv, RequestInv, CredentialsInv,
            AloneInv, ProgressInv, EnabledIsTrue, NoEnable
<1>2. DesktopInv /\ [DesktopNext]_dvars => DesktopInv'
      BY TypeStep, RequestInvStep, CredentialsStep, AloneStep, ProgressStep
      DEF DesktopInv
<1>3. DesktopInv => EnabledIsTrue
      BY DEF DesktopInv
<1> QED
    BY <1>1, <1>2, <1>3, PTL DEF DesktopSpec
=============================================================================
