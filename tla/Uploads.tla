------------------------------ MODULE Uploads ------------------------------
(***************************************************************************)
(* Creating a VM from a file (upload.go): the client uploads an image or a *)
(* template, or names a URL that a goroutine downloads after the answer.   *)
(* The file is saved under the millisecond and the client's name for it, a *)
(* template that was uploaded is copied to where lima-up looks for it, and *)
(* lima-up (lima-up.sh) writes a template for an image or an ISO, makes    *)
(* limactl create or start an instance, detects a VNC port and points the  *)
(* noVNC bridge at it.                                                     *)
(*                                                                         *)
(* What a file holds is the set of transfers whose bytes are in it.        *)
(***************************************************************************)
EXTENDS Naturals, FiniteSetsExt

CONSTANTS
    Transfers,   \* goroutines that serve an upload or a fetch
    Files,       \* file names clients use
    Type,        \* what a file name's extension says: image, iso, template
    Stem,        \* the file name without its extension, as an instance name
    Names,       \* instance names, in the order of the shell's globbing
    Ports,       \* VNC ports
    MaxMs,       \* bound on the clock
    Touched,     \* instances that others start, stop and delete
    NoFile,      \* a file that does not exist, or is of no use
    Default,     \* what limactl's default template makes an instance of
    NoPort       \* no display, no vncdisplay file or no port chosen yet

ASSUME UploadAssumption ==
    /\ Type \in [Files -> {"image", "iso", "template"}]
    /\ Names \subseteq Nat /\ Names # {}
    /\ \A p \in Ports : p \in Nat /\ p < 65536   \* TCP ports
    /\ NoPort \notin Nat
    /\ Stem \in [Files -> Names]
    /\ Touched \subseteq Names
    /\ MaxMs \in Nat
    /\ NoFile \notin Files /\ Default # NoFile
    /\ \A c \in SUBSET Transfers : c # NoFile /\ c # Default

VARIABLES
    clock,      \* time.Now().UnixMilli()
    store,      \* the upload directory
    templates,  \* /usr/local/share/lima/templates
    generated,  \* lima-up's templates in /tmp: the saved file they refer to
    transfer,   \* what each goroutine does
    vm,         \* limactl's status of each instance
    port,       \* the port its QEMU listens on
    display,    \* its vncdisplay file, as a port
    bridge,     \* /run/lima-vnc-port
    found,      \* the port that a transfer's lima-up has detected
    made,       \* history: what the instance a transfer created was made of
    moved       \* history: the transfers whose machine, or an earlier one,
                \* has changed since their lima-up detected the port

uvars == <<clock, store, templates, generated, transfer, vm, port, display,
           bridge, found, made, moved>>
disk == <<store, templates, generated>>
machine == <<vm, port, display, moved>>
novnc == <<bridge, found>>

Ms == 0..MaxMs
Content == (SUBSET Transfers) \cup {NoFile}

AfterOpen == {"copy", "install", "fill", "up", "start", "detect", "use"}
Work == {"download", "save"} \cup AfterOpen

Transfer == [pc       : Work \cup {"idle", "done"},
             kind     : {"upload", "fetch"},
             file     : Files \cup {NoFile},
             name     : Names,
             ms       : Ms,
             saved    : BOOLEAN,   \* its file is the one in the directory
             existing : BOOLEAN,   \* lima-up found an instance of that name
             shared   : BOOLEAN]   \* history: another transfer used its file
                                   \* in the directory or a template of it

Idle == [pc |-> "idle", kind |-> "upload", file |-> NoFile,
         name |-> Min(Names), ms |-> 0, saved |-> FALSE, existing |-> FALSE,
         shared |-> FALSE]

(* What is left of a transfer that has succeeded, failed or been lost. *)
Done(t) == [Idle EXCEPT !.pc = "done", !.file = t.file, !.ms = t.ms,
                        !.saved = t.saved, !.existing = t.existing,
                        !.shared = t.shared]

UploadTypeOK ==
    /\ clock \in Ms
    /\ store \in [Ms \X Files -> Content]
    /\ templates \in [Files -> Content]
    /\ generated \in [Ms \X Names -> Files \cup {NoFile}]
    /\ transfer \in [Transfers -> Transfer]
    /\ vm \in [Names -> {"absent", "Stopped", "Running"}]
    /\ port \in [Names -> Ports \cup {NoPort}]
    /\ display \in [Names -> Ports \cup {NoPort}]
    /\ bridge \in Ports \cup {NoPort}
    /\ found \in [Transfers -> Ports \cup {NoPort}]
    /\ made \in [Transfers -> Content \cup {Default}]
    /\ moved \subseteq Transfers
    /\ \A u \in Transfers :   \* a file that was opened stays, if not shared
          transfer[u].pc \in AfterOpen /\ ~transfer[u].shared => transfer[u].saved

UploadInit ==
    /\ clock = 0
    /\ store = [k \in Ms \X Files |-> NoFile]
    /\ templates = [f \in Files |-> NoFile]
    /\ generated = [s \in Ms \X Names |-> NoFile]
    /\ transfer = [u \in Transfers |-> Idle]
    /\ vm = [n \in Names |-> "absent"]
    /\ port = [n \in Names |-> NoPort]
    /\ display = [n \in Names |-> NoPort]
    /\ bridge = NoPort
    /\ found = [u \in Transfers |-> NoPort]
    /\ made = [u \in Transfers |-> NoFile]
    /\ moved = {}

Tick ==
    /\ clock < MaxMs
    /\ clock' = clock + 1
    /\ UNCHANGED <<disk, transfer, machine, novnc, made>>

------------------------------------------------------------------------------
(* Requests; bad forms, URLs and extensions are refused at once. *)

Key(u) == <<transfer[u].ms, transfer[u].file>>

At(u, pc) == transfer[u].pc = pc

Goto(u, pc) == transfer' = [transfer EXCEPT ![u].pc = pc]

(* Success, or a failure that only an upload's client hears of. *)
End(u) == transfer' = [transfer EXCEPT ![u] = Done(@)]

Accept(u, kind, f, n, pc) ==
    /\ transfer[u] = Idle
    /\ transfer' = [transfer EXCEPT ![u] =
                      [@ EXCEPT !.pc = pc, !.kind = kind, !.file = f, !.name = n]]
    /\ UNCHANGED <<clock, disk, machine, novnc, made>>

HandleUploadImage(u, f, n) == Accept(u, "upload", f, n, "save")

(* The answer is 202; the goroutine goes on with the download. *)
HandleFetchImage(u, f, n) == Accept(u, "fetch", f, n, "download")

(* The request, its answer or its status may be an error. *)
Download(u) ==
    /\ At(u, "download")
    /\ Goto(u, "save") \/ End(u)
    /\ UNCHANGED <<clock, disk, machine, novnc, made>>

------------------------------------------------------------------------------
(* SaveFile *)

Others(u, k) == {v \in Transfers \ {u} : transfer[v].saved /\ Key(v) = k}

(* Mutant: the error of os.Create is dropped. *)
CreateFile_NoReturn(u) ==
    /\ At(u, "save")
    /\ \E ok \in BOOLEAN :
          /\ store' = IF ok THEN [store EXCEPT ![<<clock, transfer[u].file>>] = {}]
                            ELSE store
          /\ transfer' = [transfer EXCEPT ![u] =
                            [@ EXCEPT !.pc = "copy", !.ms = clock, !.saved = ok]]
    /\ UNCHANGED <<clock, templates, generated, machine, novnc, made>>

(* Those that have saved k or still write to a file that had its name. *)
Users(u, k) == Others(u, k) \cup {v \in Transfers \ {u} : At(v, "copy") /\ Key(v) = k}

(* os.Create truncates a file that is there, under the feet of those that  *)
(* have it open or have saved it.                                          *)
CreateFile(u) ==
    LET k == <<clock, transfer[u].file>>
        users == Users(u, k)
    IN  /\ At(u, "save")
        /\ \/ /\ store' = [store EXCEPT ![k] = {}]
              /\ transfer' = [v \in Transfers |->
                   IF v = u
                   THEN [transfer[v] EXCEPT !.pc = "copy", !.ms = clock,
                                            !.saved = TRUE,
                                            !.shared = users # {}]
                   ELSE [transfer[v] EXCEPT !.shared = @ \/ v \in users]]
           \/ End(u) /\ UNCHANGED store
        /\ UNCHANGED <<clock, templates, generated, machine, novnc, made>>

AfterSave(u) ==
    IF transfer[u].kind = "upload" /\ Type[transfer[u].file] = "template"
    THEN "install" ELSE "up"

(* Mutant: a failed copy leaves what it has written. *)
CopyFile_KeepsPart(u) ==
    LET written == IF transfer[u].saved
                   THEN [store EXCEPT ![Key(u)] = @ \cup {u}] ELSE store
    IN  /\ At(u, "copy")
        /\ store' = written
        /\ \/ Goto(u, AfterSave(u))
           \/ transfer' = [transfer EXCEPT
                             ![u] = Done([@ EXCEPT !.saved = FALSE])]
        /\ UNCHANGED <<clock, templates, generated, machine, novnc, made>>

(* The bytes go to the file that was opened, which may have been removed.  *)
(* A failed copy (a full disk, a lost connection, the end of the two hours  *)
(* of a download) removes whatever has that name.                           *)
CopyFile(u) ==
    LET k == Key(u)
        lost == [v \in Transfers |-> IF v \in Others(u, k)
                                     THEN [transfer[v] EXCEPT !.saved = FALSE]
                                     ELSE transfer[v]]
    IN  /\ At(u, "copy")
        /\ \/ /\ store' = IF transfer[u].saved
                          THEN [store EXCEPT ![k] = @ \cup {u}] ELSE store
              /\ Goto(u, AfterSave(u))
           \/ /\ store' = [store EXCEPT ![k] = NoFile]
              /\ transfer' = [lost EXCEPT ![u] = Done([@ EXCEPT !.saved = FALSE])]
        /\ UNCHANGED <<clock, templates, generated, machine, novnc, made>>

------------------------------------------------------------------------------
(* copyFile, for a template that was uploaded: its destination is named    *)
(* after the client's file alone.                                          *)

(* Those that still write to the template of u's name, or whose lima-up is *)
(* about to read it.                                                       *)
TemplateUsers(u) ==
    {v \in Transfers \ {u} : /\ transfer[v].file = transfer[u].file
                             /\ transfer[v].kind = "upload"
                             /\ transfer[v].pc \in {"fill", "up", "start"}}

(* Mutant: the error of copyFile is dropped. *)
CreateTemplate_NoReturn(u) ==
    /\ At(u, "install")
    /\ UNCHANGED templates
    /\ Goto(u, "up")
    /\ UNCHANGED <<clock, store, generated, machine, novnc, made>>

(* os.Open and os.Create, which truncates the template that is there. *)
CreateTemplate(u) ==
    LET users == TemplateUsers(u)
        writing == \E v \in users : At(v, "fill")
    IN  /\ At(u, "install")
        /\ \/ /\ store[Key(u)] # NoFile
              /\ templates' = [templates EXCEPT ![transfer[u].file] = {}]
              /\ transfer' = [v \in Transfers |->
                   IF v = u
                   THEN [transfer[v] EXCEPT !.pc = "fill",
                                            !.shared = @ \/ writing]
                   ELSE [transfer[v] EXCEPT !.shared = @ \/ v \in users]]
           \/ End(u) /\ UNCHANGED templates
        /\ UNCHANGED <<clock, store, generated, machine, novnc, made>>

(* io.Copy, from the saved file as it was opened, which may have been      *)
(* removed; it may fail half way.                                          *)
FillTemplate(u) ==
    /\ At(u, "fill")
    /\ \E c \in SUBSET Transfers :
          /\ store[Key(u)] \in {c, NoFile}
          /\ \/ /\ templates' = [templates EXCEPT ![transfer[u].file] = @ \cup c]
                /\ Goto(u, "up")
             \/ /\ templates' \in {templates,
                       [templates EXCEPT ![transfer[u].file] = @ \cup c]}
                /\ End(u)
    /\ UNCHANGED <<clock, store, generated, machine, novnc, made>>

(* The file lima-up is given. *)
TargetIn(u) == IF AfterSave(u) = "install" THEN templates[transfer[u].file]
                                           ELSE store[Key(u)]

------------------------------------------------------------------------------
(* lima-up *)

IsTemplate(u) == Type[transfer[u].file] = "template"

(* A template is used as it is; one that was uploaded is named after an    *)
(* instance when there is one of its name.                                 *)
PrepareLimaUp(u) ==
    LET named == AfterSave(u) = "install"
                 /\ vm[Stem[transfer[u].file]] # "absent"
    IN  /\ At(u, "up") /\ IsTemplate(u)
        /\ \/ /\ TargetIn(u) # NoFile
              /\ transfer' = [transfer EXCEPT ![u] =
                                [@ EXCEPT !.pc = "start", !.existing = named]]
           \/ End(u)
        /\ UNCHANGED <<clock, disk, machine, novnc, made>>

(* The template in /tmp for a disk image or an ISO is named after the saved *)
(* file without its extension, which no instance is.                       *)
Slot(u) == <<transfer[u].ms, Stem[transfer[u].file]>>

(* Those whose limactl is about to read that template. *)
SlotUsers(u) == {v \in Transfers \ {u} : /\ At(v, "start") /\ ~IsTemplate(v)
                                        /\ Slot(v) = Slot(u)}

(* lima-up may fail before it writes the template, while it does, and      *)
(* after it.                                                               *)
GenerateTemplate(u) ==
    LET seen == [v \in Transfers |-> IF v \in SlotUsers(u)
                                     THEN [transfer[v] EXCEPT !.shared = TRUE]
                                     ELSE transfer[v]]
        written(f) == [generated EXCEPT ![Slot(u)] = f]
    IN  /\ At(u, "up") /\ ~IsTemplate(u)
        /\ \/ /\ TargetIn(u) # NoFile
              /\ generated' = written(transfer[u].file)
              /\ transfer' = [seen EXCEPT ![u].pc = "start"]
           \/ /\ TargetIn(u) # NoFile
              /\ generated' \in {written(transfer[u].file), written(NoFile)}
              /\ transfer' = [seen EXCEPT ![u] = Done(@)]
           \/ End(u) /\ UNCHANGED generated
        /\ UNCHANGED <<clock, store, templates, machine, novnc, made>>

InUse == {port[n] : n \in Names} \ {NoPort}

(* The machine n comes up, with a display or without. *)
Launch(n) ==
    /\ vm' = [vm EXCEPT ![n] = "Running"]
    /\ \E p \in (Ports \ InUse) \cup {NoPort} :
          /\ port' = [port EXCEPT ![n] = p]
          /\ display' = [display EXCEPT ![n] = p]

(* A change of the machine n, as those see it that have detected a port. *)
Moves(n) ==
    moved' = moved \cup {v \in Transfers : At(v, "use") /\ n <= transfer[v].name}

(* The saved file f as a disk; the machine of an ISO has a blank one. *)
DiskOf(ms, f) == IF f = NoFile THEN NoFile
                 ELSE IF Type[f] = "iso" THEN {} ELSE store[<<ms, f>>]

(* What the template that limactl is given makes an instance of. *)
SourceOf(u) == IF IsTemplate(u) THEN TargetIn(u)
               ELSE DiskOf(transfer[u].ms, generated[Slot(u)])

(* limactl start --name (external): it creates an instance of a new name,   *)
(* starts the one it was told to start, or that has the name, and refuses   *)
(* when both are given and differ.  One that it was told to start and that  *)
(* is gone is created of its default template.  It may fail after it has    *)
(* taken effect.                                                            *)
StartVm(u) ==
    LET n == transfer[u].name IN
    /\ At(u, "start")
    /\ \/ /\ ~transfer[u].existing /\ vm[n] = "absent"
          /\ SourceOf(u) # NoFile
          /\ Launch(n) /\ Moves(n)
          /\ made' = [made EXCEPT ![u] = SourceOf(u)]
          /\ Goto(u, "detect") \/ End(u)
       \/ /\ transfer[u].existing /\ vm[n] = "absent"
          /\ Stem[transfer[u].file] = n
          /\ Launch(n) /\ Moves(n)
          /\ made' = [made EXCEPT ![u] = Default]
          /\ Goto(u, "detect") \/ End(u)
       \/ /\ vm[n] # "absent"
          /\ transfer[u].existing => Stem[transfer[u].file] = n
          /\ IF vm[n] = "Running" THEN UNCHANGED machine
             ELSE Launch(n) /\ Moves(n)
          /\ UNCHANGED made
          /\ Goto(u, "detect") \/ End(u)
       \/ End(u) /\ UNCHANGED <<machine, made>>
    /\ UNCHANGED <<clock, disk, novnc>>

(* Mutant: only the listening sockets are looked at. *)
DetectedPort_Sockets == IF InUse # {} THEN Max(InUse) ELSE NoPort

(* The first vncdisplay file in globbing order, whoever's, or else the     *)
(* highest VNC port somebody listens on, or nothing.                       *)
DetectedPort ==
    LET shown == {n \in Names : display[n] # NoPort} IN
    IF shown # {} THEN display[Min(shown)]
    ELSE IF InUse # {} THEN Max(InUse) ELSE NoPort

(* lima-detect-vnc-port; without a port the bridge is left as it is.  What  *)
(* follows a lima-up, StartVNC, is in LimaWeb.                             *)
DetectPort(u) ==
    /\ At(u, "detect")
    /\ IF DetectedPort = NoPort
       THEN End(u) /\ UNCHANGED found
       ELSE Goto(u, "use") /\ found' = [found EXCEPT ![u] = DetectedPort]
    /\ UNCHANGED <<clock, disk, machine, bridge, made>>

(* lima-use-vnc-port, whatever has become of the port meanwhile. *)
UsePort(u) ==
    /\ At(u, "use")
    /\ bridge' = found[u]
    /\ End(u)
    /\ found' = [found EXCEPT ![u] = NoPort]
    /\ moved' = moved \ {u}
    /\ UNCHANGED <<clock, disk, vm, port, display, made>>

(* Its file cannot be written: lima-up, and the transfer with it, fails. *)
UsePortFails(u) ==
    /\ At(u, "use")
    /\ End(u)
    /\ found' = [found EXCEPT ![u] = NoPort]
    /\ moved' = moved \ {u}
    /\ UNCHANGED <<clock, disk, vm, port, display, bridge, made>>

------------------------------------------------------------------------------
(* Others start, create, stop and delete instances; a stopped one keeps its *)
(* vncdisplay file.                                                         *)
OutsideStart(n) ==
    /\ n \in Touched /\ vm[n] # "Running"
    /\ Launch(n) /\ Moves(n)
    /\ UNCHANGED <<clock, disk, transfer, novnc, made>>

OutsideStop(n) ==
    /\ n \in Touched /\ vm[n] = "Running"
    /\ vm' = [vm EXCEPT ![n] = "Stopped"]
    /\ port' = [port EXCEPT ![n] = NoPort]
    /\ Moves(n)
    /\ UNCHANGED <<clock, disk, transfer, display, novnc, made>>

OutsideDelete(n) ==
    /\ n \in Touched /\ vm[n] # "absent"
    /\ vm' = [vm EXCEPT ![n] = "absent"]
    /\ port' = [port EXCEPT ![n] = NoPort]
    /\ display' = [display EXCEPT ![n] = NoPort]
    /\ Moves(n)
    /\ UNCHANGED <<clock, disk, transfer, novnc, made>>

(* lima-web ends: its goroutines are gone, the files stay. *)
UploadCrash ==
    /\ transfer' = [u \in Transfers |->
                      IF transfer[u].pc \in Work
                      THEN Done(transfer[u]) ELSE transfer[u]]
    /\ found' = [u \in Transfers |-> NoPort]
    /\ moved' = {}
    /\ UNCHANGED <<clock, disk, vm, port, display, bridge, made>>

TransferStep(u) ==
    \/ Download(u) \/ CreateFile(u) \/ CopyFile(u)
    \/ CreateTemplate(u) \/ FillTemplate(u)
    \/ PrepareLimaUp(u) \/ GenerateTemplate(u) \/ StartVm(u)
    \/ DetectPort(u) \/ UsePort(u) \/ UsePortFails(u)

UploadNext ==
    \/ Tick
    \/ \E u \in Transfers, f \in Files, n \in Names :
          HandleUploadImage(u, f, n) \/ HandleFetchImage(u, f, n)
    \/ \E u \in Transfers : TransferStep(u)
    \/ \E n \in Names : OutsideStart(n) \/ OutsideStop(n) \/ OutsideDelete(n)
    \/ UploadCrash

UploadSpec == UploadInit /\ [][UploadNext]_uvars

------------------------------------------------------------------------------
(* Properties *)

(* What the instance of a transfer has to be made of. *)
OwnSource(u) == IF Type[transfer[u].file] = "iso" THEN {} ELSE {u}

(* The instance a transfer created is made of the bytes its own client    *)
(* sent, all of them and no others, although saved files are named by      *)
(* client and millisecond, lima-up's templates do without the extension,   *)
(* and uploaded templates are named by client alone: unless another        *)
(* transfer wrote to a file of one of these names meanwhile, nobody        *)
(* truncates, removes or replaces what lima-up and limactl read.  Only an  *)
(* instance that lima-up has found and others delete before it starts it   *)
(* comes back as something else.                                           *)
VmIsMadeOfItsUpload ==
    \A u \in Transfers :
        LET t == transfer[u] IN
        ~t.shared =>
          /\ t.pc = "up" => TargetIn(u) = {u}
          /\ t.pc = "start" => SourceOf(u) = OwnSource(u)
          /\ made[u] # NoFile =>
                made[u] = IF t.existing THEN Default ELSE OwnSource(u)

(* What is in the upload directory is the file of a transfer whose save    *)
(* has not failed: a failing copy takes what it wrote with it, also when     *)
(* another transfer had opened or removed the same file in between.        *)
NoPartIsLeftBehind ==
    \A k \in Ms \X Files :
        store[k] # NoFile =>
            \E u \in Transfers : transfer[u].saved /\ Key(u) = k

(* lima-up leaves the noVNC bridge on the machine that it has started,     *)
(* unless an instance that comes earlier in the globbing order has a       *)
(* vncdisplay file, left behind or not, or the machine has no display, or  *)
(* one of these machines changes between the detection of the port and its *)
(* use: what others do to later instances, and other transfers, whose own  *)
(* lima-up runs at the same time, never get in between.                    *)
BridgeFollowsLimaUp ==
    [][\A u \in Transfers :
          LET n == transfer[u].name IN
          /\ UsePort(u) /\ u \notin moved
          /\ port[n] # NoPort
          /\ \A m \in Names : m < n => display[m] = NoPort
          => bridge' = port[n]]_uvars
=============================================================================
