---------------------------- MODULE ShellWsProofs ----------------------------
(***************************************************************************)
(* Proofs about ShellWs for any number of terminals.  A terminal asks      *)
(* limactl and changes nothing of the server, so the invariants of         *)
(* LimaWebProofs hold under SSpec.                                         *)
(***************************************************************************)
EXTENDS ShellWs, LimaWebProofs

(* One step of the terminal t, with what it becomes. *)
TerminalStep(t) ==
    \/ \E i \in Instances : CheckRunning(t, i)
    \/ Handle(t)         \/ ReadFrame(t)
    \/ ReadPtyFails(t)   \/ WriteFrameFails(t)
    \/ ShellExits(t)     \/ ShellLosesMachine(t)
    \/ ShellHangs(t)     \/ ShellRecovers(t)
    \/ BrowserLeaves(t)  \/ SilenceTimeout(t)

LEMMA TerminalSteps ==
    ASSUME NEW t \in Terminals, TerminalStep(t)
    PROVE  UNCHANGED vars
BY DEF TerminalStep, Set, CheckRunning, Handle, UpgradeShell, StartShell,
       WritePty, ReadFrameFails, WaitShell, TerminalGone, ReadFrame,
       ReadPtyFails, WriteFrameFails, ShellExits, ShellLosesMachine,
       ShellHangs, ShellRecovers, BrowserLeaves, SilenceTimeout

(* Every step of the composition is a step of the server or none. *)
LEMMA ServerSteps == [SNext]_svars => [Next]_vars
BY TerminalSteps DEF SNext, TerminalStep, ShellServer, ShellCrash, Next, svars

(* Serving terminals keeps everything the server promises (ShellWS calls   *)
(* nothing of LimaCtl but Get, and nothing of the registry).               *)
THEOREM ShellKeepsServer == SSpec => Spec
<1>1. SInit => Init
      BY DEF SInit
<1> QED
    BY <1>1, ServerSteps, PTL DEF SSpec, Spec

------------------------------------------------------------------------------
(* Terminals *)

(* The handler kills its shell before it waits for it, so that Wait does   *)
(* not block; the output goroutine is there from the start of the shell on; *)
(* nobody is left to read what comes after the handler's deferred calls.   *)
Reaped(q) ==
    /\ q.pc = "killed" => q.shell = "ended"
    /\ q.out = "none" <=> q.pc \in {"idle", "checked", "upgraded"}
    /\ q.pc \in {"killed", "closed"} => ~q.client

ReapInv == \A t \in Terminals : Reaped(term[t])

ShellInv == ShellTypeOK /\ ReapInv

(* What the invariant says of one terminal. *)
Sound(q) ==
    /\ q \in Terminal
    /\ q.shell # "none" <=> q.pc \in {"relay", "write", "killed"}
    /\ Reaped(q)

LEMMA SoundTerminals ==
    ShellInv <=> /\ term \in [Terminals -> Terminal]
                 /\ \A t \in Terminals : Sound(term[t])
BY DEF ShellInv, ShellTypeOK, ReapInv, Sound, Reaped

LEMMA EmptyTerminal == Sound(NoTerminal)
BY DEF Sound, Reaped, NoTerminal, Terminal, TermPcs

(* Every step makes one sound terminal of another. *)
LEMMA StepIsSound ==
    ASSUME NEW t \in Terminals, Sound(term[t]), TerminalStep(t)
    PROVE  \E new : Sound(new) /\ term' = [term EXCEPT ![t] = new]
<1> DEFINE q == term[t]
<1> USE DEF Set
<1>1. ASSUME NEW i \in Instances, CheckRunning(t, i)
      PROVE  \E new : Sound(new) /\ term' = [term EXCEPT ![t] = new]
  <2> DEFINE new == [NoTerminal EXCEPT !.pc = "checked", !.inst = i,
                                       !.client = TRUE]
  <2>1. Sound(new)
        BY DEF Sound, Reaped, NoTerminal, Terminal, TermPcs
  <2>2. term' = [term EXCEPT ![t] = new]
        BY <1>1 DEF CheckRunning
  <2> QED
        BY <2>1, <2>2
<1>2. ASSUME NEW new, Sound(new), Set(t, new)
      PROVE  \E n : Sound(n) /\ term' = [term EXCEPT ![t] = n]
      BY <1>2
<1>3. CASE UpgradeShell(t)
  <2>1. Sound([q EXCEPT !.pc = "upgraded"])
        BY <1>3 DEF UpgradeShell, Sound, Reaped, Terminal, TermPcs
  <2> QED
        BY <1>2, <1>3, <2>1, EmptyTerminal DEF UpgradeShell
<1>4. CASE StartShell(t)
  <2>1. Sound([q EXCEPT !.pc = "relay", !.shell = "live", !.out = "copying"])
        BY <1>4 DEF StartShell, Sound, Reaped, Terminal, TermPcs
  <2> QED
        BY <1>2, <1>4, <2>1, EmptyTerminal DEF StartShell
<1>5. CASE ReadFrame(t)
  <2>1. Sound([q EXCEPT !.pc = "write"])
        BY <1>5 DEF ReadFrame, Sound, Reaped, Terminal, TermPcs
  <2> QED
        BY <1>2, <1>5, <2>1 DEF ReadFrame
<1>6. CASE WritePty(t)
  <2>1. Sound([q EXCEPT !.pc = "relay"])
        BY <1>6 DEF WritePty, Sound, Reaped, Terminal, TermPcs
  <2> QED
        BY <1>2, <1>6, <2>1 DEF WritePty
<1>7. CASE ReadFrameFails(t)
  <2>1. Sound([q EXCEPT !.pc = "killed", !.shell = "ended"])
        BY <1>7 DEF ReadFrameFails, Sound, Reaped, Terminal, TermPcs
  <2> QED
        BY <1>2, <1>7, <2>1 DEF ReadFrameFails
<1>8. CASE WaitShell(t)
  <2>1. Sound([q EXCEPT !.pc = "closed", !.shell = "none"])
        BY <1>8 DEF WaitShell, Sound, Reaped, Terminal, TermPcs
  <2> QED
        BY <1>2, <1>8, <2>1 DEF WaitShell
<1>9. CASE ReadPtyFails(t) \/ WriteFrameFails(t)
  <2>1. Sound([q EXCEPT !.out = "done"])
        BY <1>9 DEF ReadPtyFails, WriteFrameFails, Sound, Reaped, Terminal, TermPcs
  <2> QED
        BY <1>2, <1>9, <2>1 DEF ReadPtyFails, WriteFrameFails
<1>10. CASE TerminalGone(t)
      BY <1>2, <1>10, EmptyTerminal DEF TerminalGone
<1>11. CASE ShellExits(t) \/ ShellLosesMachine(t)
  <2>1. Sound([q EXCEPT !.shell = "ended"])
        BY <1>11 DEF ShellExits, ShellLosesMachine, Attached, Sound, Reaped, Terminal
  <2> QED
        BY <1>2, <1>11, <2>1 DEF ShellExits, ShellLosesMachine
<1>12. CASE ShellHangs(t)
  <2>1. Sound([q EXCEPT !.shell = "hung"])
        BY <1>12 DEF ShellHangs, Sound, Reaped, Terminal
  <2> QED
        BY <1>2, <1>12, <2>1 DEF ShellHangs
<1>13. CASE ShellRecovers(t)
  <2>1. Sound([q EXCEPT !.shell = "live"])
        BY <1>13 DEF ShellRecovers, Sound, Reaped, Terminal
  <2> QED
        BY <1>2, <1>13, <2>1 DEF ShellRecovers
<1>14. CASE BrowserLeaves(t) \/ SilenceTimeout(t)
  <2>1. Sound([q EXCEPT !.client = FALSE])
        BY <1>14 DEF BrowserLeaves, SilenceTimeout, Sound, Reaped, Terminal
  <2> QED
        BY <1>2, <1>14, <2>1 DEF BrowserLeaves, SilenceTimeout
<1> QED
    BY <1>1, <1>3, <1>4, <1>5, <1>6, <1>7, <1>8, <1>9, <1>10, <1>11, <1>12,
       <1>13, <1>14 DEF TerminalStep, Handle

LEMMA ShellStep == ShellInv /\ [SNext]_svars => ShellInv'
<1> SUFFICES ASSUME ShellInv, [SNext]_svars PROVE ShellInv'
    OBVIOUS
<1>1. ASSUME NEW t \in Terminals, TerminalStep(t) PROVE ShellInv'
  <2>1. PICK new : Sound(new) /\ term' = [term EXCEPT ![t] = new]
        BY <1>1, StepIsSound, SoundTerminals
  <2>2. term' \in [Terminals -> Terminal]
        BY <2>1, SoundTerminals DEF Sound
  <2>3. \A u \in Terminals : Sound(term'[u])
        BY <2>1, SoundTerminals
  <2> QED
        BY <2>2, <2>3 DEF ShellInv, ShellTypeOK, ReapInv, Sound
<1>2. CASE ShellCrash
  <2>1. /\ term' \in [Terminals -> Terminal]
        /\ \A u \in Terminals : Sound(term'[u])
        BY <1>2, EmptyTerminal DEF ShellCrash, Sound
  <2> QED
        BY <2>1 DEF ShellInv, ShellTypeOK, ReapInv, Sound
<1>3. CASE ShellServer \/ UNCHANGED svars
      BY <1>3 DEF ShellInv, ShellTypeOK, ReapInv, ShellServer, svars
<1> QED
    BY <1>1, <1>2, <1>3 DEF SNext, TerminalStep

LEMMA ShellInitHolds == SInit => ShellInv
BY EmptyTerminal DEF SInit, ShellInv, ShellTypeOK, ReapInv, Sound, Reaped

(* A handler holds a shell exactly between pty.Start and Wait, whichever   *)
(* of shell, browser, machine or server goes away first (ShellWS).         *)
THEOREM ShellTypeCorrect == SSpec => []ShellTypeOK
<1>1. ShellInv => ShellTypeOK
      BY DEF ShellInv
<1> QED
    BY <1>1, ShellInitHolds, ShellStep, PTL DEF SSpec

(* ShellWS never waits for a shell that it has not killed, and its output  *)
(* goroutine is there from the start of the shell on.                      *)
THEOREM ShellsAreReaped == SSpec => []ReapInv
<1>1. ShellInv => ReapInv
      BY DEF ShellInv
<1> QED
    BY <1>1, ShellInitHolds, ShellStep, PTL DEF SSpec
=============================================================================
