---------------------------- MODULE UploadsProofs ----------------------------
(***************************************************************************)
(* Proofs about Uploads for any number of transfers, files and instances.  *)
(***************************************************************************)
EXTENDS Uploads, WellFoundedInduction, TLAPS

(* A transfer at work has a file name; one that has not opened its file    *)
(* has saved nothing, only an uploaded template is copied, to a file that  *)
(* stays, and only a transfer that has been through lima-up has made an    *)
(* instance.                                                               *)
Place(u) ==
    LET t == transfer[u] IN
    /\ t.pc \in Work \/ t.saved => t.file \in Files
    /\ t.pc \in {"idle", "download", "save"} => ~t.saved
    /\ t.pc \in {"install", "fill"} => AfterSave(u) = "install"
    /\ t.pc = "fill" => templates[t.file] # NoFile
    /\ made[u] # NoFile => t.pc \in {"detect", "use", "done"} /\ t.file \in Files

PlaceInv == \A u \in Transfers : Place(u)

(* The file of a transfer whose save has not failed is in the directory.   *)
SavedInv == \A u \in Transfers : transfer[u].saved => store[Key(u)] # NoFile

(* Another transfer that writes to the template of u's name. *)
Fills(v, u) == At(v, "fill") /\ transfer[v].file = transfer[u].file

(* The template that has been made of u's file, while it is made or used. *)
OwnTemplate(u) ==
    LET t == transfer[u] IN
    t.pc \in {"fill", "up", "start"} /\ AfterSave(u) = "install" =>
      /\ \A v \in Transfers \ {u} : ~Fills(v, u)
      /\ templates[t.file] = IF t.pc = "fill" THEN {} ELSE {u}

(* The template that lima-up has written for u's file. *)
OwnGenerated(u) ==
    At(u, "start") /\ ~IsTemplate(u) => generated[Slot(u)] = transfer[u].file

(* The saved file is u's alone and holds what has been copied. *)
OwnFile(u) ==
    /\ transfer[u].saved
    /\ \A v \in Transfers \ {u} :
          transfer[v].saved \/ At(v, "copy") => Key(v) # Key(u)
    /\ store[Key(u)] = IF transfer[u].pc = "copy" THEN {} ELSE {u}

Owns(u) == OwnFile(u) /\ OwnTemplate(u) /\ OwnGenerated(u)

(* A transfer that has a file of its own is the only one that has it, or   *)
(* that writes to one of its name, and so are the templates of that file.  *)
OwnInv ==
    \A u \in Transfers :
        transfer[u].pc \in AfterOpen /\ ~transfer[u].shared => Owns(u)

Made(u) ==
    made[u] # NoFile /\ ~transfer[u].shared
    => made[u] = IF transfer[u].existing THEN Default ELSE OwnSource(u)

MadeInv == \A u \in Transfers : Made(u)

UploadInv ==
    /\ UploadTypeOK /\ PlaceInv /\ SavedInv /\ OwnInv /\ MadeInv
    /\ NoPartIsLeftBehind

(* The vncdisplay file of an instance with a display names its port. *)
DisplayInv == \A n \in Names : port[n] # NoPort => display[n] = port[n]

(* What lima-up has detected is its machine's port, if that has a display, *)
(* none comes earlier and none of these has changed.                       *)
FoundInv ==
    \A u \in Transfers :
        LET n == transfer[u].name IN
        /\ At(u, "use") /\ u \notin moved
        /\ port[n] # NoPort
        /\ \A m \in Names : m < n => display[m] = NoPort
        => found[u] = port[n]

------------------------------------------------------------------------------
(* Minima and maxima *)

LEMMA MinIsLeast ==
    ASSUME NEW S \in SUBSET Nat, S # {}
    PROVE  Min(S) \in S /\ \A x \in S : Min(S) <= x
<1> DEFINE R == {ss \in Nat \X Nat : ss[1] < ss[2]}
<1>1. IsWellFoundedOn(R, Nat)
      BY NatLessThanWellFounded DEF OpToRel
<1> HIDE DEF R
<1>2. PICK m \in S : \A x \in S : ~(<<x, m>> \in R)
  <2>1. S \subseteq Nat
        OBVIOUS
  <2> QED
        BY <1>1, <2>1, WFMin, Zenon
<1>3. ASSUME NEW x \in S PROVE m <= x
  <2>1. x \in Nat /\ m \in Nat
        OBVIOUS
  <2>2. ~(x < m)
        BY <1>2, <2>1 DEF R
  <2> QED
        BY <2>1, <2>2
<1> QED
    BY <1>3 DEF Min

LEMMA MaxIsGreatest ==
    ASSUME NEW b \in Nat, NEW S \in SUBSET (0..b), S # {}
    PROVE  Max(S) \in S /\ \A x \in S : x <= Max(S)
<1> DEFINE T == {y \in 0..b : b - y \in S}
<1>1. PICK s \in S : TRUE
      OBVIOUS
<1>2. b - s \in T
  <2>1. s \in 0..b /\ b - s \in 0..b /\ b - (b - s) = s
        OBVIOUS
  <2> QED
        BY <2>1
<1>3. T \in SUBSET Nat
      OBVIOUS
<1>4. PICK m \in T : \A y \in T : m <= y
      BY <1>2, <1>3, MinIsLeast
<1>5. ASSUME NEW x \in S PROVE x <= b - m
  <2>1. x \in 0..b /\ b - x \in 0..b /\ b - (b - x) = x
        OBVIOUS
  <2>2. b - x \in T
        BY <2>1
  <2> HIDE DEF T
  <2> QED
        BY <1>3, <1>4, <2>1, <2>2
<1>6. b - m \in S
      OBVIOUS
<1> HIDE DEF T
<1> QED
    BY <1>5, <1>6 DEF Max

------------------------------------------------------------------------------
(* Transfers *)

LEMMA IdleTyped == Idle \in Transfer
<1>1. Min(Names) \in Names
  <2>1. Names \in SUBSET Nat /\ Names # {}
        BY UploadAssumption
  <2> QED
        BY <2>1, MinIsLeast
<1>2. 0 \in Ms
      BY UploadAssumption DEF Ms
<1> QED
    BY <1>1, <1>2 DEF Idle, Transfer

LEMMA DoneFacts ==
    ASSUME NEW t \in Transfer
    PROVE  /\ Done(t) \in Transfer /\ Done(t).pc = "done"
           /\ Done(t).file = t.file /\ Done(t).ms = t.ms
           /\ Done(t).saved = t.saved /\ Done(t).shared = t.shared
           /\ Done(t).existing = t.existing
BY IdleTyped DEF Done, Transfer

LEMMA FieldTypes ==
    ASSUME UploadTypeOK, NEW u \in Transfers
    PROVE  /\ transfer[u] \in Transfer
           /\ transfer[u].pc \in Work \cup {"idle", "done"}
           /\ transfer[u].file \in Files \cup {NoFile}
           /\ transfer[u].name \in Names
           /\ transfer[u].ms \in Ms
           /\ transfer[u].saved \in BOOLEAN /\ transfer[u].shared \in BOOLEAN
           /\ transfer[u].existing \in BOOLEAN
BY DEF UploadTypeOK, Transfer

(* An ended transfer keeps its file and the history. *)
LEMMA EndFacts ==
    ASSUME UploadTypeOK, NEW u \in Transfers, End(u)
    PROVE  /\ transfer' \in [Transfers -> Transfer]
           /\ transfer'[u].pc = "done"
           /\ transfer'[u].file = transfer[u].file
           /\ transfer'[u].ms = transfer[u].ms
           /\ transfer'[u].saved = transfer[u].saved
           /\ transfer'[u].shared = transfer[u].shared
           /\ transfer'[u].existing = transfer[u].existing
           /\ \A v \in Transfers : v # u => transfer'[v] = transfer[v]
<1>1. transfer' = [transfer EXCEPT ![u] = Done(transfer[u])]
      BY DEF End
<1>2. transfer \in [Transfers -> Transfer] /\ transfer[u] \in Transfer
      BY DEF UploadTypeOK
<1> QED
    BY <1>1, <1>2, DoneFacts

LEMMA GotoFacts ==
    ASSUME UploadTypeOK, NEW u \in Transfers, NEW pc \in Work, Goto(u, pc)
    PROVE  /\ transfer' \in [Transfers -> Transfer]
           /\ transfer'[u].pc = pc
           /\ transfer'[u].file = transfer[u].file
           /\ transfer'[u].ms = transfer[u].ms
           /\ transfer'[u].kind = transfer[u].kind
           /\ transfer'[u].saved = transfer[u].saved
           /\ transfer'[u].shared = transfer[u].shared
           /\ transfer'[u].name = transfer[u].name
           /\ transfer'[u].existing = transfer[u].existing
           /\ \A v \in Transfers : v # u => transfer'[v] = transfer[v]
BY DEF UploadTypeOK, Transfer, Goto

LEMMA PrepareFacts ==
    ASSUME UploadTypeOK, NEW u \in Transfers, PrepareLimaUp(u), ~End(u)
    PROVE  /\ transfer' \in [Transfers -> Transfer]
           /\ transfer'[u].pc = "start"
           /\ transfer'[u].file = transfer[u].file
           /\ transfer'[u].ms = transfer[u].ms
           /\ transfer'[u].kind = transfer[u].kind
           /\ transfer'[u].saved = transfer[u].saved
           /\ transfer'[u].shared = transfer[u].shared
           /\ transfer'[u].name = transfer[u].name
           /\ \A v \in Transfers : v # u => transfer'[v] = transfer[v]
<1> DEFINE named == AfterSave(u) = "install"
                    /\ vm[Stem[transfer[u].file]] # "absent"
           new == [transfer[u] EXCEPT !.pc = "start", !.existing = named]
<1>1. transfer' = [transfer EXCEPT ![u] = new]
      BY DEF PrepareLimaUp
<1>2. named \in BOOLEAN
      OBVIOUS
<1>3. transfer \in [Transfers -> Transfer] /\ transfer[u] \in Transfer
      BY DEF UploadTypeOK
<1> HIDE DEF named
<1>4. /\ new \in Transfer /\ new.pc = "start"
      /\ new.file = transfer[u].file /\ new.ms = transfer[u].ms
      /\ new.kind = transfer[u].kind /\ new.saved = transfer[u].saved
      /\ new.shared = transfer[u].shared /\ new.name = transfer[u].name
      BY <1>2, <1>3 DEF Transfer, Work, AfterOpen
<1> HIDE DEF new
<1> QED
    BY <1>1, <1>3, <1>4

LEMMA AcceptFacts ==
    ASSUME UploadTypeOK, NEW u \in Transfers, NEW f \in Files, NEW n \in Names,
           HandleUploadImage(u, f, n) \/ HandleFetchImage(u, f, n)
    PROVE  /\ transfer' \in [Transfers -> Transfer]
           /\ transfer[u].pc = "idle"
           /\ transfer'[u].pc \in {"save", "download"}
           /\ transfer'[u].file = f
           /\ ~transfer'[u].saved /\ ~transfer'[u].shared
           /\ \A v \in Transfers : v # u => transfer'[v] = transfer[v]
           /\ UNCHANGED <<clock, disk, machine, novnc, made>>
<1>1. PICK kind \in {"upload", "fetch"}, pc \in {"save", "download"} :
             Accept(u, kind, f, n, pc)
      BY DEF HandleUploadImage, HandleFetchImage
<1> DEFINE new == [Idle EXCEPT !.pc = pc, !.kind = kind, !.file = f, !.name = n]
<1>2. transfer' = [transfer EXCEPT ![u] = new]
      BY <1>1 DEF Accept
<1>3. /\ new \in Transfer /\ new.pc = pc /\ new.file = f
      /\ new.saved = Idle.saved /\ new.shared = Idle.shared
      BY IdleTyped DEF Transfer, Work
<1>4. ~Idle.saved /\ ~Idle.shared /\ Idle.pc = "idle"
      BY DEF Idle
<1> HIDE DEF new
<1> QED
    BY <1>1, <1>2, <1>3, <1>4 DEF Accept, UploadTypeOK

------------------------------------------------------------------------------
(* Steps *)

Quiets(u) == \/ Download(u) \/ PrepareLimaUp(u) \/ StartVm(u)
             \/ DetectPort(u) \/ UsePort(u) \/ UsePortFails(u)

Outside(n) == OutsideStart(n) \/ OutsideStop(n) \/ OutsideDelete(n)

LEMMA Cases ==
    ASSUME [UploadNext]_uvars,
           NEW P,
           ASSUME UNCHANGED uvars \/ Tick PROVE P,
           ASSUME NEW u \in Transfers, NEW f \in Files, NEW n \in Names,
                  HandleUploadImage(u, f, n) \/ HandleFetchImage(u, f, n)
           PROVE  P,
           ASSUME NEW u \in Transfers, CreateFile(u) PROVE P,
           ASSUME NEW u \in Transfers, CopyFile(u) PROVE P,
           ASSUME NEW u \in Transfers, CreateTemplate(u) PROVE P,
           ASSUME NEW u \in Transfers, FillTemplate(u) PROVE P,
           ASSUME NEW u \in Transfers, GenerateTemplate(u) PROVE P,
           ASSUME NEW u \in Transfers, Quiets(u) PROVE P,
           ASSUME NEW n \in Names, Outside(n) PROVE P,
           ASSUME UploadCrash PROVE P
    PROVE  P
BY DEF UploadNext, TransferStep, Quiets, Outside

(* What a transfer does apart from the files: it goes on, ends or is lost. *)
GoesOn(t, s) ==
    /\ s.file = t.file /\ s.ms = t.ms /\ s.saved = t.saved
    /\ s.shared = t.shared
    /\ t.pc # "up" => s.existing = t.existing
    /\ \/ s.pc = "done"
       \/ /\ s.kind = t.kind /\ s.name = t.name
          /\ \/ s.pc = t.pc
             \/ t.pc = "download" /\ s.pc = "save"
             \/ t.pc = "up" /\ s.pc = "start"
             \/ t.pc = "start" /\ s.pc = "detect"
             \/ t.pc = "detect" /\ s.pc = "use"

(* What limactl start makes an instance of for u, if it makes one. *)
NewSource(u) == IF transfer[u].existing THEN Default ELSE SourceOf(u)

(* A step that leaves the files alone. *)
Quiet ==
    /\ UNCHANGED disk
    /\ transfer' \in [Transfers -> Transfer]
    /\ \A v \in Transfers : GoesOn(transfer[v], transfer'[v])
    /\ \A v \in Transfers : At(v, "up") /\ At(v, "start")' => IsTemplate(v)
    /\ made' \in [Transfers -> Content \cup {Default}]
    /\ \A v \in Transfers :
          \/ made'[v] = made[v]
          \/ /\ transfer[v].pc = "start" /\ made'[v] = NewSource(v)
             /\ transfer'[v].pc \in {"detect", "done"}

LEMMA SourceTyped ==
    ASSUME UploadTypeOK, NEW u \in Transfers, transfer[u].file \in Files
    PROVE  TargetIn(u) \in Content /\ SourceOf(u) \in Content
<1>1. Key(u) \in Ms \X Files /\ transfer[u].ms \in Ms
      BY FieldTypes DEF Key
<1>2. TargetIn(u) \in Content
      BY <1>1 DEF UploadTypeOK, TargetIn
<1>3. Slot(u) \in Ms \X Names
      BY <1>1, UploadAssumption DEF Slot
<1>4. generated[Slot(u)] \in Files \cup {NoFile}
      BY <1>3 DEF UploadTypeOK
<1>5. ASSUME NEW f \in Files \cup {NoFile}
      PROVE  DiskOf(transfer[u].ms, f) \in Content
  <2>1. f \in Files => store[<<transfer[u].ms, f>>] \in Content
        BY <1>1 DEF UploadTypeOK
  <2> QED
      BY <2>1 DEF DiskOf, Content
<1> QED
    BY <1>2, <1>4, <1>5 DEF SourceOf

LEMMA StartedFacts ==
    ASSUME UploadTypeOK, PlaceInv, NEW u \in Transfers, StartVm(u)
    PROVE  /\ transfer[u].pc = "start" /\ UNCHANGED <<clock, disk, novnc>>
           /\ transfer[u].name \in Names
           /\ Goto(u, "detect") \/ End(u)
           /\ made' = made \/ made' = [made EXCEPT ![u] = NewSource(u)]
           /\ NewSource(u) \in Content \cup {Default}
           /\ \/ UNCHANGED machine
              \/ Launch(transfer[u].name) /\ Moves(transfer[u].name)
<1>1. transfer[u].pc = "start" /\ UNCHANGED <<clock, disk, novnc>>
      BY DEF StartVm, At
<1>2. SourceOf(u) \in Content
      BY <1>1, SourceTyped DEF PlaceInv, Place, Work, AfterOpen
<1>3. transfer[u].name \in Names /\ transfer[u].existing \in BOOLEAN
      BY FieldTypes
<1>4. made' = made \/ made' = [made EXCEPT ![u] = NewSource(u)]
  <2>1. CASE transfer[u].existing
    <3>1. NewSource(u) = Default
          BY <2>1 DEF NewSource
    <3> QED
        BY <2>1, <3>1, Zenon DEF StartVm
  <2>2. CASE ~transfer[u].existing
    <3>1. NewSource(u) = SourceOf(u)
          BY <2>2 DEF NewSource
    <3> QED
        BY <2>2, <3>1, Zenon DEF StartVm
  <2> QED
      BY <2>1, <2>2
<1>5. Goto(u, "detect") \/ End(u)
      BY Zenon DEF StartVm
<1>6. UNCHANGED machine \/ (Launch(transfer[u].name) /\ Moves(transfer[u].name))
      BY Zenon DEF StartVm
<1>7. NewSource(u) \in Content \cup {Default}
      BY <1>2 DEF NewSource
<1> QED
    BY <1>1, <1>3, <1>4, <1>5, <1>6, <1>7

LEMMA QuietStep ==
    ASSUME UploadTypeOK, PlaceInv, NEW u \in Transfers, Quiets(u)
    PROVE  Quiet
<1>0. /\ transfer \in [Transfers -> Transfer]
      /\ made \in [Transfers -> Content \cup {Default}]
      /\ \A v \in Transfers : GoesOn(transfer[v], transfer[v])
      BY DEF UploadTypeOK, GoesOn
<1>1. ASSUME End(u)
      PROVE  /\ transfer' \in [Transfers -> Transfer]
             /\ \A v \in Transfers : GoesOn(transfer[v], transfer'[v])
             /\ transfer'[u].pc = "done"
             /\ \A v \in Transfers : At(v, "up") /\ At(v, "start")' => IsTemplate(v)
      BY <1>0, <1>1, EndFacts DEF GoesOn, At
<1>2. CASE Download(u)
  <2>1. CASE Goto(u, "save")
    <3>1. "save" \in Work
          BY DEF Work
    <3> QED
        BY <1>0, <1>2, <2>1, <3>1, GotoFacts DEF Download, At, Quiet, GoesOn
  <2> QED
      BY <1>0, <1>1, <1>2, <2>1 DEF Download, Quiet
<1>3. CASE PrepareLimaUp(u)
  <2>1. CASE ~End(u)
        BY <1>0, <1>3, <2>1, PrepareFacts DEF PrepareLimaUp, At, Quiet, GoesOn
  <2> QED
      BY <1>0, <1>1, <1>3, <2>1 DEF PrepareLimaUp, Quiet
<1>4. CASE DetectPort(u)
  <2>1. CASE Goto(u, "use")
    <3>1. "use" \in Work
          BY DEF Work, AfterOpen
    <3> QED
        BY <1>0, <1>4, <2>1, <3>1, GotoFacts DEF DetectPort, At, Quiet, GoesOn
  <2>2. End(u) \/ Goto(u, "use")
        BY <1>4 DEF DetectPort
  <2> QED
      BY <1>0, <1>1, <1>4, <2>1, <2>2 DEF DetectPort, Quiet
<1>5. CASE UsePort(u) \/ UsePortFails(u)
      BY <1>0, <1>1, <1>5 DEF UsePort, UsePortFails, Quiet
<1>6. CASE StartVm(u)
  <2>1. /\ transfer[u].pc = "start" /\ UNCHANGED disk
        /\ Goto(u, "detect") \/ End(u)
        /\ made' = made \/ made' = [made EXCEPT ![u] = NewSource(u)]
        /\ NewSource(u) \in Content \cup {Default}
        BY <1>6, StartedFacts
  <2>2. /\ transfer' \in [Transfers -> Transfer]
        /\ \A v \in Transfers : GoesOn(transfer[v], transfer'[v])
        /\ transfer'[u].pc \in {"detect", "done"}
        /\ \A v \in Transfers : At(v, "up") /\ At(v, "start")' => IsTemplate(v)
    <3>1. CASE Goto(u, "detect")
      <4>1. "detect" \in Work
            BY DEF Work, AfterOpen
      <4> QED
          BY <1>0, <2>1, <3>1, <4>1, GotoFacts DEF GoesOn, At
    <3> QED
        BY <1>1, <2>1, <3>1
  <2> QED
      BY <1>0, <2>1, <2>2 DEF Quiet
<1> QED
    BY <1>2, <1>3, <1>4, <1>5, <1>6 DEF Quiets

LEMMA QuietOthers ==
    ASSUME UploadTypeOK,
           \/ UNCHANGED uvars \/ Tick \/ UploadCrash
           \/ \E n \in Names : Outside(n)
    PROVE  Quiet
<1>0. /\ transfer \in [Transfers -> Transfer]
      /\ made \in [Transfers -> Content \cup {Default}]
      /\ \A v \in Transfers : GoesOn(transfer[v], transfer[v])
      BY DEF UploadTypeOK, GoesOn
<1>1. CASE UploadCrash
  <2>1. ASSUME NEW v \in Transfers
        PROVE  /\ transfer'[v] \in Transfer
               /\ GoesOn(transfer[v], transfer'[v])
               /\ At(v, "up") => ~At(v, "start")'
    <3>1. transfer[v] \in Transfer
          BY <1>0
    <3>2. transfer'[v] = Done(transfer[v]) \/ transfer'[v] = transfer[v]
          BY <1>1 DEF UploadCrash
    <3> QED
        BY <1>0, <3>1, <3>2, DoneFacts DEF GoesOn, At
  <2>2. transfer' \in [Transfers -> Transfer]
    <3>1. transfer' = [v \in Transfers |-> transfer'[v]]
          BY <1>1 DEF UploadCrash
    <3> QED
        BY <2>1, <3>1
  <2> QED
      BY <1>0, <1>1, <2>1, <2>2 DEF UploadCrash, Quiet
<1>2. CASE ~UploadCrash
  <2>1. UNCHANGED <<disk, transfer, made>>
        BY <1>2 DEF uvars, Tick, Outside, OutsideStart, OutsideStop,
                    OutsideDelete, disk
  <2> QED
      BY <1>0, <2>1 DEF Quiet, At
<1> QED
    BY <1>1, <1>2

------------------------------------------------------------------------------
(* Typing *)

(* The history of a transfer whose file is in use is only ever set. *)
OpenInv ==
    \A u \in Transfers :
        transfer[u].pc \in AfterOpen /\ ~transfer[u].shared => transfer[u].saved

MachineOK ==
    /\ vm \in [Names -> {"absent", "Stopped", "Running"}]
    /\ port \in [Names -> Ports \cup {NoPort}]
    /\ display \in [Names -> Ports \cup {NoPort}]

BridgeOK ==
    /\ bridge \in Ports \cup {NoPort}
    /\ found \in [Transfers -> Ports \cup {NoPort}]
    /\ moved \subseteq Transfers

FilesOK ==
    /\ store \in [Ms \X Files -> Content]
    /\ templates \in [Files -> Content]
    /\ generated \in [Ms \X Names -> Files \cup {NoFile}]

LEMMA TypeParts ==
    UploadTypeOK <=> /\ clock \in Ms
                     /\ FilesOK
                     /\ transfer \in [Transfers -> Transfer]
                     /\ MachineOK
                     /\ BridgeOK
                     /\ made \in [Transfers -> Content \cup {Default}]
                     /\ OpenInv
BY DEF UploadTypeOK, FilesOK, MachineOK, BridgeOK, OpenInv

LEMMA LaunchTyped ==
    ASSUME MachineOK, NEW n \in Names, Launch(n)
    PROVE  MachineOK'
<1>1. PICK p \in (Ports \ InUse) \cup {NoPort} :
             /\ port' = [port EXCEPT ![n] = p]
             /\ display' = [display EXCEPT ![n] = p]
      BY DEF Launch
<1>2. vm' = [vm EXCEPT ![n] = "Running"]
      BY DEF Launch
<1> QED
    BY <1>1, <1>2 DEF MachineOK

LEMMA OutsideTyped ==
    ASSUME MachineOK, NEW n \in Names, Outside(n)
    PROVE  MachineOK'
BY LaunchTyped DEF Outside, OutsideStart, OutsideStop, OutsideDelete, MachineOK

LEMMA DetectedTyped ==
    ASSUME MachineOK
    PROVE  DetectedPort \in Ports \cup {NoPort}
<1> DEFINE shown == {n \in Names : display[n] # NoPort}
<1>1. CASE shown # {}
  <2>1. shown \in SUBSET Nat
    <3>1. Names \in SUBSET Nat
          BY UploadAssumption
    <3> QED
        BY <3>1
  <2>2. Min(shown) \in shown
        BY <1>1, <2>1, MinIsLeast
  <2>3. DetectedPort = display[Min(shown)]
        BY <1>1 DEF DetectedPort
  <2> HIDE DEF shown
  <2>4. Min(shown) \in Names
        BY <2>2 DEF shown
  <2> QED
      BY <2>3, <2>4 DEF MachineOK
<1>2. CASE shown = {} /\ InUse # {}
  <2>1. InUse \subseteq Ports
        BY DEF InUse, MachineOK
  <2>2. PICK b \in Nat : b = 65536
        OBVIOUS
  <2>3. InUse \in SUBSET (0..b)
    <3>1. \A p \in Ports : p \in Nat /\ p < 65536
          BY UploadAssumption
    <3>2. \A p \in Ports : p \in Nat /\ p < b
          BY <2>2, <3>1
    <3> QED
        BY <2>1, <3>2
  <2>4. Max(InUse) \in InUse
        BY <1>2, <2>3, MaxIsGreatest
  <2> QED
      BY <1>2, <2>1, <2>4 DEF DetectedPort
<1>3. CASE shown = {} /\ InUse = {}
      BY <1>3 DEF DetectedPort
<1> QED
    BY <1>1, <1>2, <1>3

LEMMA QuietTyped ==
    ASSUME UploadTypeOK, Quiet, clock' \in Ms, MachineOK', BridgeOK'
    PROVE  UploadTypeOK'
<1>1. /\ FilesOK' /\ transfer' \in [Transfers -> Transfer]
      /\ made' \in [Transfers -> Content \cup {Default}]
      BY TypeParts DEF Quiet, disk, FilesOK
<1>2. OpenInv'
  <2>1. ASSUME NEW v \in Transfers, transfer'[v].pc \in AfterOpen
        PROVE  /\ transfer[v].pc \in AfterOpen
               /\ transfer'[v].shared = transfer[v].shared
               /\ transfer'[v].saved = transfer[v].saved
    <3>1. GoesOn(transfer[v], transfer'[v])
          BY DEF Quiet
    <3> QED
        BY <2>1, <3>1 DEF GoesOn, AfterOpen
  <2>2. OpenInv
        BY TypeParts
  <2>3. ASSUME NEW v \in Transfers,
               transfer'[v].pc \in AfterOpen, ~transfer'[v].shared
        PROVE  transfer'[v].saved
    <3>1. transfer[v].pc \in AfterOpen /\ ~transfer[v].shared
          BY <2>1, <2>3
    <3>2. transfer[v].saved
          BY <2>2, <3>1 DEF OpenInv
    <3> QED
        BY <2>1, <2>3, <3>2
  <2> QED
      BY <2>3 DEF OpenInv
<1> QED
    BY <1>1, <1>2, Zenon DEF UploadTypeOK, FilesOK, MachineOK, BridgeOK, OpenInv

LEMMA QuietTypeStep ==
    ASSUME UploadTypeOK, PlaceInv,
           \/ UNCHANGED uvars \/ Tick \/ UploadCrash
           \/ \E u \in Transfers : Quiets(u)
           \/ \E n \in Names : Outside(n)
    PROVE  UploadTypeOK'
<1>0. clock \in Ms /\ MachineOK /\ BridgeOK
      BY TypeParts
<1>1. ASSUME UNCHANGED <<vm, port, display>> PROVE MachineOK'
      BY <1>0, <1>1 DEF MachineOK
<1>2. ASSUME UNCHANGED <<bridge, found, moved>> PROVE BridgeOK'
      BY <1>0, <1>2 DEF BridgeOK
<1>3. ASSUME NEW n \in Names, UNCHANGED novnc, Moves(n) PROVE BridgeOK'
      BY <1>0, <1>3 DEF BridgeOK, novnc, Moves
<1>4. CASE UNCHANGED uvars
      BY <1>0, <1>1, <1>2, <1>4, QuietOthers, QuietTyped DEF uvars
<1>5. CASE UploadCrash
  <2>1. BridgeOK'
        BY <1>0, <1>5 DEF UploadCrash, BridgeOK
  <2> QED
      BY <1>0, <1>1, <1>5, <2>1, QuietOthers, QuietTyped DEF UploadCrash
<1>6. CASE Tick
  <2>1. clock' \in Ms
        BY <1>0, <1>6, UploadAssumption DEF Tick, Ms
  <2> QED
      BY <1>1, <1>2, <1>6, <2>1, QuietOthers, QuietTyped DEF Tick, machine, novnc
<1>7. ASSUME NEW n \in Names, Outside(n) PROVE UploadTypeOK'
  <2>1. MachineOK'
        BY <1>0, <1>7, OutsideTyped
  <2>2. clock' = clock /\ UNCHANGED novnc /\ Moves(n)
        BY <1>7 DEF Outside, OutsideStart, OutsideStop, OutsideDelete
  <2> QED
      BY <1>0, <1>3, <1>7, <2>1, <2>2, QuietOthers, QuietTyped
<1>8. ASSUME NEW u \in Transfers, Quiets(u) PROVE UploadTypeOK'
  <2>1. Quiet
        BY <1>8, QuietStep
  <2>2. CASE StartVm(u)
    <3>1. /\ clock' = clock /\ UNCHANGED novnc /\ transfer[u].name \in Names
          /\ \/ UNCHANGED machine
             \/ Launch(transfer[u].name) /\ Moves(transfer[u].name)
          BY <2>2, StartedFacts
    <3>2. MachineOK'
          BY <1>0, <1>1, <3>1, LaunchTyped DEF machine
    <3>3. BridgeOK'
          BY <1>2, <1>3, <3>1 DEF machine, novnc
    <3> QED
        BY <1>0, <2>1, <3>1, <3>2, <3>3, QuietTyped
  <2>3. CASE DetectPort(u)
    <3>1. BridgeOK'
          BY <1>0, <2>3, DetectedTyped DEF DetectPort, BridgeOK, machine
    <3> QED
        BY <1>0, <1>1, <2>1, <2>3, <3>1, QuietTyped DEF DetectPort, machine
  <2>4. CASE UsePort(u) \/ UsePortFails(u)
    <3>1. BridgeOK'
          BY <1>0, <2>4 DEF UsePort, UsePortFails, BridgeOK
    <3> QED
        BY <1>0, <1>1, <2>1, <2>4, <3>1, QuietTyped DEF UsePort, UsePortFails
  <2>5. CASE Download(u) \/ PrepareLimaUp(u)
        BY <1>0, <1>1, <1>2, <2>1, <2>5, QuietTyped
        DEF Download, PrepareLimaUp, machine, novnc
  <2> QED
      BY <1>8, <2>2, <2>3, <2>4, <2>5 DEF Quiets
<1> QED
    BY <1>4, <1>5, <1>6, <1>7, <1>8

------------------------------------------------------------------------------
(* What the steps that touch files do *)

(* s differs from t at most in what others do to it: its file may be       *)
(* removed or shared.                                                      *)
Same(t, s) == /\ s.pc = t.pc /\ s.kind = t.kind /\ s.file = t.file
              /\ s.ms = t.ms /\ s.name = t.name /\ s.existing = t.existing

Seen(t, s) == Same(t, s) /\ s.saved = t.saved

LEMMA CreateFacts ==
    ASSUME UploadTypeOK, PlaceInv, NEW u \in Transfers, CreateFile(u), ~End(u),
           NEW k, k = <<clock, transfer[u].file>>
    PROVE  /\ k \in Ms \X Files /\ transfer[u].pc = "save"
           /\ store' = [store EXCEPT ![k] = {}]
           /\ UNCHANGED <<clock, templates, generated, machine, novnc, made>>
           /\ transfer' \in [Transfers -> Transfer]
           /\ transfer'[u].pc = "copy" /\ Key(u)' = k
           /\ transfer'[u].file = transfer[u].file
           /\ transfer'[u].saved
           /\ ~transfer'[u].shared => Users(u, k) = {}
           /\ \A v \in Transfers \ {u} :
                 /\ Seen(transfer[v], transfer'[v])
                 /\ ~transfer'[v].shared
                       => ~transfer[v].shared /\ v \notin Users(u, k)
<1> DEFINE mine == [transfer[u] EXCEPT !.pc = "copy", !.ms = clock,
                                       !.saved = TRUE,
                                       !.shared = Users(u, k) # {}]
           theirs(v) == [transfer[v] EXCEPT !.shared = @ \/ v \in Users(u, k)]
<1>1. /\ store' = [store EXCEPT ![k] = {}]
      /\ transfer' = [v \in Transfers |-> IF v = u THEN mine ELSE theirs(v)]
      /\ transfer[u].pc = "save"
      /\ UNCHANGED <<clock, templates, generated, machine, novnc, made>>
      BY Zenon DEF CreateFile, At
<1>2. transfer[u].file \in Files /\ clock \in Ms
      BY <1>1 DEF PlaceInv, Place, Work, UploadTypeOK
<1>3. /\ mine \in Transfer /\ mine.pc = "copy" /\ mine.ms = clock
      /\ mine.file = transfer[u].file /\ mine.saved = TRUE
      /\ mine.shared = (Users(u, k) # {})
  <2>1. (Users(u, k) # {}) \in BOOLEAN
        OBVIOUS
  <2>2. transfer[u] \in Transfer
        BY FieldTypes
  <2> QED
      BY <1>2, <2>1, <2>2 DEF Transfer, Work, AfterOpen
<1>4. ASSUME NEW v \in Transfers
      PROVE  /\ theirs(v) \in Transfer /\ Seen(transfer[v], theirs(v))
             /\ theirs(v).shared = (transfer[v].shared \/ v \in Users(u, k))
  <2>1. (transfer[v].shared \/ v \in Users(u, k)) \in BOOLEAN
        OBVIOUS
  <2>2. transfer[v] \in Transfer
        BY FieldTypes
  <2> QED
      BY <2>1, <2>2 DEF Transfer, Seen, Same
<1> HIDE DEF mine, theirs
<1>5. /\ transfer' \in [Transfers -> Transfer] /\ transfer'[u] = mine
      /\ \A v \in Transfers \ {u} : transfer'[v] = theirs(v)
      BY <1>1, <1>3, <1>4
<1>6. k \in Ms \X Files /\ Key(u)' = k
      BY <1>2, <1>3, <1>5 DEF Key
<1>7. ~transfer'[u].shared => Users(u, k) = {}
      BY <1>3, <1>5
<1>8. ASSUME NEW v \in Transfers \ {u}
      PROVE  /\ Seen(transfer[v], transfer'[v])
             /\ ~transfer'[v].shared
                   => ~transfer[v].shared /\ v \notin Users(u, k)
      BY <1>4, <1>5
<1> QED
    BY <1>1, <1>3, <1>5, <1>6, <1>7, <1>8

LEMMA CreateEnds ==
    ASSUME NEW u \in Transfers, CreateFile(u), transfer'[u].pc = "done",
           transfer[u].pc = "save", UploadTypeOK
    PROVE  store' = store /\ UNCHANGED <<clock, templates, generated, machine, novnc, made>>
<1> DEFINE mine == [transfer[u] EXCEPT !.pc = "copy", !.ms = clock,
                      !.saved = TRUE,
                      !.shared = Users(u, <<clock, transfer[u].file>>) # {}]
           theirs(v) == [transfer[v] EXCEPT !.shared =
                           @ \/ v \in Users(u, <<clock, transfer[u].file>>)]
<1>1. transfer' # [v \in Transfers |-> IF v = u THEN mine ELSE theirs(v)]
  <2>1. mine.pc = "copy"
        BY FieldTypes DEF Transfer
  <2> HIDE DEF mine, theirs
  <2> QED
      BY <2>1
<1> QED
    BY <1>1, Zenon DEF CreateFile

LEMMA CopyFacts ==
    ASSUME UploadTypeOK, PlaceInv, NEW u \in Transfers, CopyFile(u)
    PROVE  /\ Key(u) \in Ms \X Files /\ transfer[u].pc = "copy"
           /\ UNCHANGED <<clock, templates, generated, machine, novnc, made>>
           /\ transfer' \in [Transfers -> Transfer]
           /\ transfer'[u].file = transfer[u].file
           /\ transfer'[u].ms = transfer[u].ms
           /\ transfer'[u].shared = transfer[u].shared
           /\ \/ /\ store' = IF transfer[u].saved
                             THEN [store EXCEPT ![Key(u)] = @ \cup {u}] ELSE store
                 /\ transfer'[u].pc = AfterSave(u)
                 /\ transfer'[u].kind = transfer[u].kind
                 /\ transfer'[u].saved = transfer[u].saved
                 /\ \A v \in Transfers \ {u} : transfer'[v] = transfer[v]
              \/ /\ store' = [store EXCEPT ![Key(u)] = NoFile]
                 /\ transfer'[u].pc = "done" /\ ~transfer'[u].saved
                 /\ \A v \in Transfers \ {u} :
                       /\ transfer'[v].shared = transfer[v].shared
                       /\ \/ transfer'[v] = transfer[v] /\ v \notin Others(u, Key(u))
                          \/ /\ v \in Others(u, Key(u)) /\ ~transfer'[v].saved
                             /\ Same(transfer[v], transfer'[v])
<1>1. transfer[u].pc = "copy" /\ UNCHANGED <<clock, templates, generated, machine, novnc, made>>
      BY DEF CopyFile, At
<1>2. Key(u) \in Ms \X Files
      BY <1>1, FieldTypes DEF Key, PlaceInv, Place, Work, AfterOpen
<1>3. CASE Goto(u, AfterSave(u)) /\ store' = IF transfer[u].saved
                     THEN [store EXCEPT ![Key(u)] = @ \cup {u}] ELSE store
  <2>1. AfterSave(u) \in Work
        BY DEF AfterSave, Work, AfterOpen
  <2> QED
      BY <1>1, <1>2, <1>3, <2>1, GotoFacts
<1>4. CASE ~(Goto(u, AfterSave(u)) /\ store' = IF transfer[u].saved
                     THEN [store EXCEPT ![Key(u)] = @ \cup {u}] ELSE store)
  <2> DEFINE lost == [v \in Transfers |-> IF v \in Others(u, Key(u))
                                     THEN [transfer[v] EXCEPT !.saved = FALSE]
                                     ELSE transfer[v]]
             part == [transfer[u] EXCEPT !.saved = FALSE]
  <2>1. /\ store' = [store EXCEPT ![Key(u)] = NoFile]
        /\ transfer' = [lost EXCEPT ![u] = Done([@ EXCEPT !.saved = FALSE])]
        BY <1>4, Zenon DEF CopyFile
  <2>2. u \notin Others(u, Key(u)) /\ lost[u] = transfer[u]
        BY DEF Others
  <2>3. /\ part \in Transfer /\ part.file = transfer[u].file
        /\ part.ms = transfer[u].ms /\ part.shared = transfer[u].shared
        /\ part.saved = FALSE
        BY FieldTypes DEF Transfer
  <2>4. ASSUME NEW v \in Transfers
        PROVE  /\ lost[v] \in Transfer /\ lost[v].shared = transfer[v].shared
               /\ \/ lost[v] = transfer[v] /\ v \notin Others(u, Key(u))
                  \/ /\ v \in Others(u, Key(u)) /\ ~lost[v].saved
                     /\ Same(transfer[v], lost[v])
        BY FieldTypes DEF Transfer, Same
  <2>5. lost \in [Transfers -> Transfer]
        BY <2>4
  <2>6. transfer' = [lost EXCEPT ![u] = Done(part)]
        BY <2>1, <2>2
  <2> HIDE DEF lost, part
  <2>7. /\ transfer' \in [Transfers -> Transfer] /\ transfer'[u] = Done(part)
        /\ \A v \in Transfers \ {u} : transfer'[v] = lost[v]
        BY <2>3, <2>5, <2>6, DoneFacts
  <2>8. /\ Done(part).pc = "done" /\ ~Done(part).saved
        /\ Done(part).file = transfer[u].file /\ Done(part).ms = transfer[u].ms
        /\ Done(part).shared = transfer[u].shared
        BY <2>3, DoneFacts
  <2> QED
      BY <1>1, <1>2, <2>1, <2>4, <2>7, <2>8
<1> QED
    BY <1>3, <1>4

(* What a step of u that writes a template does to the transfers. *)
TemplateStep(u, pcs, seen) ==
    /\ transfer' \in [Transfers -> Transfer]
    /\ transfer'[u].file = transfer[u].file /\ transfer'[u].ms = transfer[u].ms
    /\ transfer'[u].saved = transfer[u].saved
    /\ ~transfer'[u].shared => ~transfer[u].shared
    /\ \/ transfer'[u].pc = "done"
       \/ transfer'[u].pc \in pcs /\ transfer'[u].kind = transfer[u].kind
    /\ \A v \in Transfers \ {u} :
          /\ Seen(transfer[v], transfer'[v])
          /\ ~transfer'[v].shared => ~transfer[v].shared
          /\ ~transfer'[v].shared /\ transfer'[u].pc # "done" => v \notin seen

LEMMA EndOfTemplate ==
    ASSUME UploadTypeOK, NEW u \in Transfers, NEW pcs, NEW seen, End(u)
    PROVE  TemplateStep(u, pcs, seen)
BY EndFacts DEF TemplateStep, Seen, Same

LEMMA CreateTemplateFacts ==
    ASSUME UploadTypeOK, PlaceInv, NEW u \in Transfers, CreateTemplate(u),
           NEW f, f = transfer[u].file
    PROVE  /\ f \in Files /\ transfer[u].pc = "install"
           /\ UNCHANGED <<clock, store, generated, machine, novnc, made>>
           /\ TemplateStep(u, {"fill"}, TemplateUsers(u))
           /\ \/ transfer'[u].pc = "done" /\ templates' = templates
              \/ /\ templates' = [templates EXCEPT ![f] = {}]
                 /\ transfer'[u].pc = "fill"
                 /\ ~transfer'[u].shared
                       => \A v \in TemplateUsers(u) : ~At(v, "fill")
<1> DEFINE writing == \E v \in TemplateUsers(u) : At(v, "fill")
           mine == [transfer[u] EXCEPT !.pc = "fill", !.shared = @ \/ writing]
           theirs(v) == [transfer[v] EXCEPT !.shared = @ \/ v \in TemplateUsers(u)]
<1>1. transfer[u].pc = "install"
      /\ UNCHANGED <<clock, store, generated, machine, novnc, made>>
      BY DEF CreateTemplate, At
<1>2. f \in Files
      BY <1>1, FieldTypes DEF PlaceInv, Place, Work, AfterOpen
<1>3. CASE End(u) /\ templates' = templates
      BY <1>1, <1>2, <1>3, EndOfTemplate, EndFacts
<1>4. CASE ~(End(u) /\ templates' = templates)
  <2>1. /\ templates' = [templates EXCEPT ![f] = {}]
        /\ transfer' = [v \in Transfers |-> IF v = u THEN mine ELSE theirs(v)]
        BY <1>4, Zenon DEF CreateTemplate
  <2>2. writing \in BOOLEAN /\ transfer[u] \in Transfer
        BY FieldTypes
  <2> HIDE DEF writing
  <2>3. /\ mine \in Transfer /\ mine.pc = "fill" /\ mine.ms = transfer[u].ms
        /\ mine.file = transfer[u].file /\ mine.saved = transfer[u].saved
        /\ mine.kind = transfer[u].kind
        /\ mine.shared = (transfer[u].shared \/ writing)
        BY <2>2 DEF Transfer, Work, AfterOpen
  <2>4. ASSUME NEW v \in Transfers
        PROVE  /\ theirs(v) \in Transfer /\ Seen(transfer[v], theirs(v))
               /\ theirs(v).shared = (transfer[v].shared \/ v \in TemplateUsers(u))
    <3>1. (transfer[v].shared \/ v \in TemplateUsers(u)) \in BOOLEAN
          OBVIOUS
    <3>2. transfer[v] \in Transfer
          BY FieldTypes
    <3> QED
        BY <3>1, <3>2 DEF Transfer, Seen, Same
  <2> HIDE DEF mine, theirs
  <2>5. /\ transfer' \in [Transfers -> Transfer] /\ transfer'[u] = mine
        /\ \A v \in Transfers \ {u} : transfer'[v] = theirs(v)
        BY <2>1, <2>3, <2>4
  <2>6. TemplateStep(u, {"fill"}, TemplateUsers(u))
        BY <2>3, <2>4, <2>5 DEF TemplateStep
  <2>7. ~transfer'[u].shared => ~writing
        BY <2>3, <2>5
  <2> QED
      BY <1>1, <1>2, <2>1, <2>3, <2>5, <2>6, <2>7 DEF writing
<1> QED
    BY <1>3, <1>4

LEMMA FillTemplateFacts ==
    ASSUME UploadTypeOK, PlaceInv, NEW u \in Transfers, FillTemplate(u),
           NEW f, f = transfer[u].file
    PROVE  /\ f \in Files /\ transfer[u].pc = "fill"
           /\ UNCHANGED <<clock, store, generated, machine, novnc, made>>
           /\ TemplateStep(u, {"up"}, {})
           /\ \E c \in SUBSET Transfers :
                 /\ store[Key(u)] \in {c, NoFile}
                 /\ \/ templates' = templates /\ transfer'[u].pc = "done"
                    \/ templates' = [templates EXCEPT ![f] = @ \cup c]
<1>1. transfer[u].pc = "fill"
      /\ UNCHANGED <<clock, store, generated, machine, novnc, made>>
      BY DEF FillTemplate, At
<1>2. f \in Files
      BY <1>1, FieldTypes DEF PlaceInv, Place, Work, AfterOpen
<1>3. PICK c \in SUBSET Transfers :
             /\ store[Key(u)] \in {c, NoFile}
             /\ \/ /\ templates' = [templates EXCEPT ![f] = @ \cup c]
                   /\ Goto(u, "up")
                \/ /\ templates' \in {templates,
                           [templates EXCEPT ![f] = @ \cup c]}
                   /\ End(u)
      BY DEF FillTemplate
<1>4. TemplateStep(u, {"up"}, {})
  <2>1. CASE Goto(u, "up")
    <3>1. "up" \in Work
          BY DEF Work, AfterOpen
    <3> QED
        BY <2>1, <3>1, GotoFacts DEF TemplateStep, Seen, Same
  <2> QED
      BY <1>3, <2>1, EndOfTemplate
<1>5. End(u) => transfer'[u].pc = "done"
      BY EndFacts
<1> QED
    BY <1>1, <1>2, <1>3, <1>4, <1>5

LEMMA GenerateFacts ==
    ASSUME UploadTypeOK, PlaceInv, NEW u \in Transfers, GenerateTemplate(u),
           NEW s, s = Slot(u)
    PROVE  /\ s \in Ms \X Names /\ transfer[u].pc = "up" /\ ~IsTemplate(u)
           /\ transfer[u].file \in Files
           /\ UNCHANGED <<clock, store, templates, machine, novnc, made>>
           /\ TemplateStep(u, {"start"}, {})
           /\ \/ transfer'[u].pc = "done" /\ generated' = generated
              \/ /\ transfer'[u].pc \in {"done", "start"}
                 /\ \E g \in {transfer[u].file, NoFile} :
                       generated' = [generated EXCEPT ![s] = g]
                 /\ transfer'[u].pc = "start"
                       => generated' = [generated EXCEPT ![s] = transfer[u].file]
                 /\ \A v \in SlotUsers(u) : transfer'[v].shared
<1> DEFINE seen == [v \in Transfers |-> IF v \in SlotUsers(u)
                                        THEN [transfer[v] EXCEPT !.shared = TRUE]
                                        ELSE transfer[v]]
           written(g) == [generated EXCEPT ![s] = g]
<1>1. transfer[u].pc = "up" /\ ~IsTemplate(u)
      /\ UNCHANGED <<clock, store, templates, machine, novnc, made>>
      BY DEF GenerateTemplate, At
<1>2. transfer[u].file \in Files /\ s \in Ms \X Names
      BY <1>1, FieldTypes, UploadAssumption DEF Slot, PlaceInv, Place, Work, AfterOpen
<1>3. u \notin SlotUsers(u) /\ seen[u] = transfer[u]
      BY DEF SlotUsers
<1>4. ASSUME NEW v \in Transfers
      PROVE  /\ seen[v] \in Transfer /\ Seen(transfer[v], seen[v])
             /\ ~seen[v].shared => ~transfer[v].shared /\ v \notin SlotUsers(u)
  <2>1. transfer[v] \in Transfer
        BY FieldTypes
  <2>2. CASE v \in SlotUsers(u)
        BY <2>1, <2>2 DEF Transfer, Seen, Same
  <2> QED
      BY <2>1, <2>2 DEF Seen, Same
<1>5. seen \in [Transfers -> Transfer]
      BY <1>4
<1>6. transfer[u] \in Transfer
      BY FieldTypes
<1>7. SlotUsers(u) \subseteq Transfers \ {u}
      BY DEF SlotUsers
<1>8. CASE generated' = written(transfer[u].file)
           /\ transfer' = [seen EXCEPT ![u].pc = "start"]
  <2> DEFINE mine == [transfer[u] EXCEPT !.pc = "start"]
  <2>1. /\ mine \in Transfer /\ mine.pc = "start" /\ mine.file = transfer[u].file
        /\ mine.ms = transfer[u].ms /\ mine.saved = transfer[u].saved
        /\ mine.shared = transfer[u].shared /\ mine.kind = transfer[u].kind
        BY <1>6 DEF Transfer, Work, AfterOpen
  <2>2. transfer' = [seen EXCEPT ![u] = mine]
        BY <1>3, <1>8
  <2> HIDE DEF seen, mine
  <2>3. /\ transfer' \in [Transfers -> Transfer] /\ transfer'[u] = mine
        /\ \A v \in Transfers \ {u} : transfer'[v] = seen[v]
        BY <1>5, <2>1, <2>2
  <2>4. TemplateStep(u, {"start"}, {})
        BY <1>4, <2>1, <2>3 DEF TemplateStep
  <2>5. \A v \in SlotUsers(u) : transfer'[v].shared
    <3>1. ASSUME NEW v \in SlotUsers(u) PROVE transfer'[v].shared
      <4>1. v \in Transfers /\ transfer'[v] = seen[v]
            BY <1>7, <2>3
      <4> QED
          BY <1>4, <4>1
    <3> QED
        BY <3>1
  <2> QED
      BY <1>1, <1>2, <1>8, <2>1, <2>3, <2>4, <2>5
<1>9. CASE generated' \in {written(transfer[u].file), written(NoFile)}
           /\ transfer' = [seen EXCEPT ![u] = Done(@)]
  <2>1. transfer' = [seen EXCEPT ![u] = Done(transfer[u])]
        BY <1>3, <1>9
  <2> HIDE DEF seen
  <2>2. /\ transfer' \in [Transfers -> Transfer]
        /\ transfer'[u] = Done(transfer[u])
        /\ \A v \in Transfers \ {u} : transfer'[v] = seen[v]
        BY <1>5, <1>6, <2>1, DoneFacts
  <2>3. TemplateStep(u, {"start"}, {})
        BY <1>4, <1>6, <2>2, DoneFacts DEF TemplateStep
  <2>4. \A v \in SlotUsers(u) : transfer'[v].shared
    <3>1. ASSUME NEW v \in SlotUsers(u) PROVE transfer'[v].shared
      <4>1. v \in Transfers /\ transfer'[v] = seen[v]
            BY <1>7, <2>2
      <4> QED
          BY <1>4, <4>1
    <3> QED
        BY <3>1
  <2>5. transfer'[u].pc = "done"
        BY <1>6, <2>2, DoneFacts
  <2> QED
      BY <1>1, <1>2, <1>9, <2>3, <2>4, <2>5
<1>10. CASE End(u) /\ generated' = generated
       BY <1>1, <1>2, <1>10, EndOfTemplate, EndFacts
<1> QED
    BY <1>8, <1>9, <1>10 DEF GenerateTemplate

------------------------------------------------------------------------------
(* What belongs to one transfer *)

LEMMA OwnSourceOf ==
    ASSUME PlaceInv, OwnInv, NEW u \in Transfers, ~transfer[u].shared,
           transfer[u].pc \in {"up", "start"}
    PROVE  /\ TargetIn(u) = {u}
           /\ transfer[u].pc = "start" => SourceOf(u) = OwnSource(u)
<1>1. transfer[u].pc \in AfterOpen /\ transfer[u].pc \notin {"copy", "fill"}
      BY DEF AfterOpen
<1>2. Owns(u)
      BY <1>1 DEF OwnInv
<1>3. store[Key(u)] = {u}
      BY <1>1, <1>2 DEF Owns, OwnFile
<1>4. TargetIn(u) = {u}
      BY <1>1, <1>2, <1>3 DEF Owns, OwnTemplate, TargetIn
<1>5. ASSUME transfer[u].pc = "start", IsTemplate(u)
      PROVE  SourceOf(u) = OwnSource(u)
      BY <1>4, <1>5 DEF SourceOf, OwnSource, IsTemplate
<1>6. ASSUME transfer[u].pc = "start", ~IsTemplate(u)
      PROVE  SourceOf(u) = OwnSource(u)
  <2>1. generated[Slot(u)] = transfer[u].file
        BY <1>2, <1>6 DEF Owns, OwnGenerated, At
  <2>2. transfer[u].file # NoFile
        BY <1>1, UploadAssumption DEF PlaceInv, Place, Work
  <2> QED
      BY <1>3, <1>6, <2>1, <2>2 DEF SourceOf, OwnSource, DiskOf, Key
<1> QED
    BY <1>4, <1>5, <1>6

LEMMA OwnOpen == OwnInv => OpenInv
BY DEF OwnInv, OpenInv, Owns, OwnFile

(* The parts of the invariant that are not types. *)
FileInv == PlaceInv /\ SavedInv /\ OwnInv /\ MadeInv /\ NoPartIsLeftBehind

LEMMA PlaceKept ==
    ASSUME NEW v \in Transfers, Place(v), Same(transfer[v], transfer'[v]),
           transfer'[v].saved => transfer[v].saved,
           made'[v] = made[v],
           transfer[v].pc = "fill" => templates'[transfer[v].file] # NoFile
    PROVE  Place(v)'
<1>1. AfterSave(v)' = AfterSave(v)
      BY DEF Same, AfterSave
<1> QED
    BY <1>1 DEF Place, Same

LEMMA MadeKept ==
    ASSUME NEW v \in Transfers, Made(v), made'[v] = made[v],
           made[v] # NoFile =>
              /\ transfer'[v].file = transfer[v].file
              /\ transfer'[v].existing = transfer[v].existing
              /\ ~transfer'[v].shared => ~transfer[v].shared
    PROVE  Made(v)'
BY DEF Made, OwnSource

LEMMA OwnKept ==
    ASSUME NEW u \in Transfers, Owns(u), Seen(transfer[u], transfer'[u]),
           store'[Key(u)] = store[Key(u)],
           ASSUME NEW v \in Transfers \ {u},
                  transfer'[v].saved \/ transfer'[v].pc = "copy"
           PROVE  Key(v)' # Key(u),
           ASSUME transfer[u].pc \in {"fill", "up", "start"},
                  AfterSave(u) = "install"
           PROVE  /\ templates'[transfer[u].file] = templates[transfer[u].file]
                  /\ \A v \in Transfers \ {u} : Fills(v, u)' => Fills(v, u),
           ASSUME transfer[u].pc = "start", ~IsTemplate(u)
           PROVE  generated'[Slot(u)] = generated[Slot(u)]
    PROVE  Owns(u)'
<1>1. /\ Key(u)' = Key(u) /\ AfterSave(u)' = AfterSave(u)
      /\ Slot(u)' = Slot(u) /\ IsTemplate(u)' = IsTemplate(u)
      BY DEF Seen, Same, Key, AfterSave, Slot, IsTemplate
<1>2. OwnFile(u)'
  <2>1. transfer'[u].saved
        BY DEF Owns, OwnFile, Seen
  <2>2. store'[Key(u)'] = IF transfer'[u].pc = "copy" THEN {} ELSE {u}
        BY <1>1 DEF Owns, OwnFile, Seen, Same
  <2>3. \A v \in Transfers \ {u} :
           transfer'[v].saved \/ At(v, "copy")' => Key(v)' # Key(u)'
        BY <1>1 DEF At
  <2> QED
      BY <2>1, <2>2, <2>3 DEF OwnFile
<1>3. OwnTemplate(u)'
      BY <1>1 DEF Owns, OwnTemplate, Seen, Same
<1>4. OwnGenerated(u)'
      BY <1>1 DEF Owns, OwnGenerated, At, Seen, Same
<1> QED
    BY <1>2, <1>3, <1>4 DEF Owns

LEMMA QuietFileInv ==
    ASSUME UploadTypeOK, FileInv, Quiet
    PROVE  FileInv'
<1>1. ASSUME NEW v \in Transfers
      PROVE  GoesOn(transfer[v], transfer'[v])
      BY DEF Quiet
<1>2. ASSUME NEW v \in Transfers PROVE Key(v)' = Key(v)
      BY <1>1 DEF GoesOn, Key
<1>3. store' = store /\ templates' = templates /\ generated' = generated
      BY DEF Quiet, disk
<1>4. PlaceInv'
  <2> SUFFICES ASSUME NEW v \in Transfers PROVE Place(v)'
      BY DEF PlaceInv
  <2>0. Place(v)
        BY DEF FileInv, PlaceInv
  <2>1. ASSUME transfer'[v].pc \in Work \/ transfer'[v].saved
        PROVE  transfer'[v].file \in Files
    <3>1. transfer[v].pc \in Work \/ transfer[v].saved
          BY <1>1, <2>1 DEF GoesOn, Work, AfterOpen
    <3> QED
        BY <1>1, <2>0, <3>1 DEF GoesOn, Place
  <2>2. transfer'[v].pc \in {"idle", "download", "save"} => ~transfer'[v].saved
        BY <1>1, <2>0 DEF GoesOn, Place
  <2>3. transfer'[v].pc \in {"install", "fill"} => AfterSave(v)' = "install"
        BY <1>1, <2>0 DEF GoesOn, Place, AfterSave
  <2>4. transfer'[v].pc = "fill" => templates'[transfer'[v].file] # NoFile
        BY <1>1, <1>3, <2>0 DEF GoesOn, Place
  <2>5. ASSUME made'[v] # NoFile
        PROVE  transfer'[v].pc \in {"detect", "use", "done"} /\ transfer'[v].file \in Files
    <3>1. CASE made'[v] = made[v]
          BY <1>1, <2>0, <2>5, <3>1 DEF GoesOn, Place
    <3>2. CASE transfer[v].pc = "start" /\ transfer'[v].pc \in {"detect", "done"}
      <4>1. transfer[v].file \in Files
            BY <2>0, <3>2 DEF Place, Work, AfterOpen
      <4> QED
          BY <1>1, <3>2, <4>1 DEF GoesOn
    <3> QED
        BY <3>1, <3>2 DEF Quiet
  <2> QED
      BY <2>1, <2>2, <2>3, <2>4, <2>5 DEF Place
<1>5. SavedInv'
  <2>1. ASSUME NEW v \in Transfers, transfer'[v].saved
        PROVE  store'[Key(v)'] # NoFile
    <3>1. transfer[v].saved
          BY <1>1, <2>1 DEF GoesOn
    <3> QED
        BY <1>2, <1>3, <3>1 DEF FileInv, SavedInv
  <2> QED
      BY <2>1 DEF SavedInv
<1>6. OwnInv'
  <2>1. ASSUME NEW u \in Transfers,
               transfer'[u].pc \in AfterOpen, ~transfer'[u].shared
        PROVE  Owns(u)'
    <3>1. /\ transfer[u].pc \in AfterOpen /\ transfer'[u].kind = transfer[u].kind
          /\ transfer'[u].pc = "copy" <=> transfer[u].pc = "copy"
          /\ transfer'[u].pc = "fill" <=> transfer[u].pc = "fill"
          /\ transfer'[u].pc \in {"up", "start"} => transfer[u].pc \in {"up", "start"}
          BY <1>1, <2>1 DEF GoesOn, AfterOpen
    <3>2. /\ ~transfer[u].shared /\ transfer'[u].file = transfer[u].file
          /\ transfer'[u].ms = transfer[u].ms
          BY <1>1, <2>1 DEF GoesOn
    <3>3. Owns(u)
          BY <3>1, <3>2 DEF FileInv, OwnInv
    <3>4. /\ AfterSave(u)' = AfterSave(u)
          /\ Slot(u)' = Slot(u) /\ IsTemplate(u)' = IsTemplate(u)
          BY <3>1, <3>2 DEF AfterSave, Slot, IsTemplate
    <3>5. OwnFile(u)'
      <4>1. transfer'[u].saved
            BY <1>1, <3>3 DEF GoesOn, Owns, OwnFile
      <4>2. ASSUME NEW v \in Transfers \ {u}, transfer'[v].saved \/ At(v, "copy")'
            PROVE  Key(v)' # Key(u)'
        <5>1. transfer[v].saved \/ At(v, "copy")
              BY <1>1, <4>2 DEF GoesOn, At
        <5> QED
            BY <1>2, <3>3, <5>1 DEF Owns, OwnFile
      <4>3. store'[Key(u)'] = IF transfer'[u].pc = "copy" THEN {} ELSE {u}
            BY <1>2, <1>3, <3>1, <3>3 DEF Owns, OwnFile
      <4> QED
          BY <4>1, <4>2, <4>3 DEF OwnFile
    <3>6. OwnTemplate(u)'
      <4>1. \A v \in Transfers \ {u} : Fills(v, u)' => Fills(v, u)
            BY <1>1, <3>2 DEF GoesOn, Fills, At
      <4> QED
          BY <1>3, <3>1, <3>2, <3>3, <3>4, <4>1 DEF Owns, OwnTemplate
    <3>7. OwnGenerated(u)'
      <4>1. At(u, "start")' /\ ~IsTemplate(u)' => At(u, "start")
            BY <1>1, <3>4 DEF Quiet, GoesOn, At
      <4> QED
          BY <1>3, <3>2, <3>3, <3>4, <4>1 DEF Owns, OwnGenerated
    <3> QED
        BY <3>5, <3>6, <3>7 DEF Owns
  <2> QED
      BY <2>1 DEF OwnInv
<1>7. MadeInv'
  <2> SUFFICES ASSUME NEW u \in Transfers PROVE Made(u)'
      BY DEF MadeInv
  <2>0. Made(u) /\ Place(u)
        BY DEF FileInv, MadeInv, PlaceInv
  <2>1. CASE made'[u] = made[u]
    <3>1. made[u] # NoFile => transfer[u].pc # "up"
          BY <2>0 DEF Place
    <3> QED
        BY <1>1, <2>0, <2>1, <3>1, MadeKept DEF GoesOn
  <2>2. CASE transfer[u].pc = "start" /\ made'[u] = NewSource(u)
    <3>1. /\ ~transfer'[u].shared => ~transfer[u].shared
          /\ transfer'[u].file = transfer[u].file
          /\ transfer'[u].existing = transfer[u].existing
          BY <1>1, <2>2 DEF GoesOn
    <3>2. ~transfer[u].shared => SourceOf(u) = OwnSource(u)
          BY <2>2, OwnSourceOf DEF FileInv
    <3>3. OwnSource(u)' = OwnSource(u)
          BY <3>1 DEF OwnSource
    <3> QED
        BY <2>2, <3>1, <3>2, <3>3 DEF Made, NewSource
  <2> QED
      BY <2>1, <2>2 DEF Quiet
<1>8. NoPartIsLeftBehind'
  <2>1. ASSUME NEW k \in Ms \X Files, store'[k] # NoFile
        PROVE  \E u \in Transfers : transfer'[u].saved /\ Key(u)' = k
    <3>1. PICK u \in Transfers : transfer[u].saved /\ Key(u) = k
          BY <1>3, <2>1 DEF FileInv, NoPartIsLeftBehind
    <3>2. transfer'[u].saved /\ Key(u)' = k
          BY <1>1, <1>2, <3>1 DEF GoesOn
    <3> QED
        BY <3>2
  <2> QED
      BY <2>1 DEF NoPartIsLeftBehind
<1> QED
    BY <1>4, <1>5, <1>6, <1>7, <1>8 DEF FileInv

LEMMA AcceptFileInv ==
    ASSUME UploadTypeOK, FileInv,
           NEW u \in Transfers, NEW f \in Files, NEW n \in Names,
           HandleUploadImage(u, f, n) \/ HandleFetchImage(u, f, n)
    PROVE  FileInv' /\ OpenInv'
<1>1. /\ transfer[u].pc = "idle"
      /\ transfer'[u].pc \in {"save", "download"}
      /\ transfer'[u].file = f
      /\ ~transfer'[u].saved /\ ~transfer'[u].shared
      /\ \A v \in Transfers : v # u => transfer'[v] = transfer[v]
      /\ store' = store /\ templates' = templates /\ made' = made
      /\ generated' = generated
      BY AcceptFacts DEF disk
<1>2. ~transfer[u].saved /\ made[u] = NoFile
      BY <1>1 DEF FileInv, PlaceInv, Place
<1>3. ASSUME NEW v \in Transfers \ {u}
      PROVE  Key(v)' = Key(v) /\ Seen(transfer[v], transfer'[v])
      BY <1>1 DEF Key, Seen, Same
<1>4. transfer'[u].pc \notin AfterOpen /\ transfer'[u].pc # "copy"
      BY <1>1 DEF AfterOpen
<1>5. PlaceInv'
  <2> SUFFICES ASSUME NEW v \in Transfers PROVE Place(v)'
      BY DEF PlaceInv
  <2>1. CASE v = u
        BY <1>1, <1>2, <2>1 DEF Place
  <2>2. CASE v # u
        BY <1>1, <1>3, <2>2, PlaceKept DEF Seen, FileInv, PlaceInv, Place
  <2> QED
      BY <2>1, <2>2
<1>6. SavedInv'
      BY <1>1, <1>3 DEF FileInv, SavedInv
<1>7. OwnInv'
  <2>1. ASSUME NEW w \in Transfers,
               transfer'[w].pc \in AfterOpen, ~transfer'[w].shared
        PROVE  Owns(w)'
    <3>1. w # u /\ transfer'[w] = transfer[w]
          BY <1>1, <1>4, <2>1
    <3>2. Owns(w)
          BY <2>1, <3>1 DEF FileInv, OwnInv
    <3>3. ASSUME NEW v \in Transfers \ {w},
                 transfer'[v].saved \/ transfer'[v].pc = "copy"
          PROVE  Key(v)' # Key(w)
      <4>1. v # u
            BY <1>1, <1>4, <3>3
      <4> QED
          BY <1>1, <1>3, <3>2, <3>3, <4>1 DEF Owns, OwnFile, At
    <3>4. Seen(transfer[w], transfer'[w])
          BY <3>1 DEF Seen, Same
    <3>5. \A v \in Transfers \ {w} : Fills(v, w)' => Fills(v, w)
          BY <1>1, <3>1 DEF Fills, At
    <3> QED
        BY <1>1, <3>2, <3>3, <3>4, <3>5, OwnKept
  <2> QED
      BY <2>1 DEF OwnInv
<1>8. MadeInv'
  <2> SUFFICES ASSUME NEW v \in Transfers PROVE Made(v)'
      BY DEF MadeInv
  <2>1. made'[v] = made[v] /\ (v # u => transfer'[v] = transfer[v])
        BY <1>1
  <2> QED
      BY <1>2, <2>1, MadeKept DEF FileInv, MadeInv
<1>9. NoPartIsLeftBehind'
  <2>1. ASSUME NEW k \in Ms \X Files, store'[k] # NoFile
        PROVE  \E v \in Transfers : transfer'[v].saved /\ Key(v)' = k
    <3>1. PICK v \in Transfers : transfer[v].saved /\ Key(v) = k
          BY <1>1, <2>1 DEF FileInv, NoPartIsLeftBehind
    <3>2. v # u /\ transfer'[v].saved /\ Key(v)' = k
          BY <1>1, <1>2, <1>3, <3>1
    <3> QED
        BY <3>2
  <2> QED
      BY <2>1 DEF NoPartIsLeftBehind
<1> QED
    BY <1>5, <1>6, <1>7, <1>8, <1>9 DEF FileInv, OwnInv, OpenInv, Owns, OwnFile

LEMMA CreateFileInv ==
    ASSUME UploadTypeOK, FileInv, NEW u \in Transfers, CreateFile(u), ~End(u)
    PROVE  FileInv'
<1> DEFINE k == <<clock, transfer[u].file>>
<1>1. /\ k \in Ms \X Files /\ transfer[u].pc = "save"
      /\ store' = [store EXCEPT ![k] = {}] /\ templates' = templates
      /\ made' = made /\ generated' = generated
      /\ transfer'[u].pc = "copy" /\ Key(u)' = k
      /\ transfer'[u].file = transfer[u].file
      /\ transfer'[u].saved
      /\ ~transfer'[u].shared => Users(u, k) = {}
      /\ \A v \in Transfers \ {u} :
            /\ Seen(transfer[v], transfer'[v])
            /\ ~transfer'[v].shared => ~transfer[v].shared /\ v \notin Users(u, k)
      BY CreateFacts DEF FileInv
<1> HIDE DEF k
<1>2. /\ transfer[u].file \in Files /\ ~transfer[u].saved /\ made[u] = NoFile
      BY <1>1 DEF FileInv, PlaceInv, Place, Work
<1>3. \A v \in Transfers \ {u} : Key(v)' = Key(v)
      BY <1>1 DEF Key, Seen, Same
<1>4. store \in [Ms \X Files -> Content] /\ {} # NoFile
  <2>1. {} # NoFile
        BY UploadAssumption
  <2> QED
      BY <2>1 DEF UploadTypeOK
<1>5. PlaceInv'
  <2> SUFFICES ASSUME NEW v \in Transfers PROVE Place(v)'
      BY DEF PlaceInv
  <2>1. CASE v = u
        BY <1>1, <1>2, <2>1 DEF Place
  <2>2. CASE v # u
    <3>1. Place(v) /\ Seen(transfer[v], transfer'[v]) /\ made'[v] = made[v]
          BY <1>1, <2>2 DEF FileInv, PlaceInv
    <3> QED
        BY <1>1, <3>1, PlaceKept DEF Seen, Place
  <2> QED
      BY <2>1, <2>2
<1>6. SavedInv'
  <2>1. ASSUME NEW v \in Transfers, transfer'[v].saved
        PROVE  store'[Key(v)'] # NoFile
    <3>1. CASE v = u
          BY <1>1, <1>4, <3>1
    <3>2. CASE v # u
      <4>1. transfer[v].saved /\ Key(v)' = Key(v)
            BY <1>1, <1>3, <2>1, <3>2 DEF Seen
      <4>2. store[Key(v)] # NoFile
            BY <4>1 DEF FileInv, SavedInv
      <4>3. Key(v) \in Ms \X Files
            BY <4>1, FieldTypes DEF Key, FileInv, PlaceInv, Place
      <4> QED
          BY <1>1, <1>4, <4>1, <4>2, <4>3
    <3> QED
        BY <3>1, <3>2
  <2> QED
      BY <2>1 DEF SavedInv
<1>7. OwnInv'
  <2>1. ASSUME NEW w \in Transfers,
               transfer'[w].pc \in AfterOpen, ~transfer'[w].shared
        PROVE  Owns(w)'
    <3>1. CASE w = u
      <4>1. ASSUME NEW v \in Transfers \ {u}, transfer'[v].saved \/ At(v, "copy")'
            PROVE  Key(v)' # Key(u)'
        <5>1. transfer[v].saved \/ At(v, "copy")
              BY <1>1, <4>1 DEF Seen, Same, At
        <5>2. v \notin Users(u, k)
              BY <1>1, <2>1, <3>1
        <5>3. Key(v) # k
              BY <5>1, <5>2 DEF Users, Others
        <5> QED
            BY <1>1, <1>3, <5>3
      <4>2. store'[Key(u)'] = {}
            BY <1>1, <1>4
      <4>3. OwnFile(u)'
            BY <1>1, <4>1, <4>2 DEF OwnFile
      <4>4. OwnTemplate(u)' /\ OwnGenerated(u)'
            BY <1>1 DEF OwnTemplate, OwnGenerated, At
      <4> QED
          BY <3>1, <4>3, <4>4 DEF Owns
    <3>2. CASE w # u
      <4>1. Seen(transfer[w], transfer'[w]) /\ ~transfer[w].shared
            BY <1>1, <2>1, <3>2
      <4>2. Owns(w)
            BY <2>1, <4>1 DEF FileInv, OwnInv, Seen, Same
      <4>3. Key(w) # k
        <5>1. w \notin Users(u, k) /\ transfer[w].saved
              BY <1>1, <2>1, <3>2, <4>2 DEF Owns, OwnFile
        <5> QED
            BY <3>2, <5>1 DEF Users, Others
      <4>4. Key(w) \in Ms \X Files
            BY <4>2, FieldTypes DEF Key, FileInv, PlaceInv, Place, Owns, OwnFile
      <4>5. store'[Key(w)] = store[Key(w)]
            BY <1>1, <1>4, <4>3, <4>4
      <4>6. ASSUME NEW v \in Transfers \ {w},
                   transfer'[v].saved \/ transfer'[v].pc = "copy"
            PROVE  Key(v)' # Key(w)
        <5>1. CASE v = u
              BY <1>1, <4>3, <5>1
        <5>2. CASE v # u
          <6>1. transfer[v].saved \/ At(v, "copy")
                BY <1>1, <4>6, <5>2 DEF Seen, Same, At
          <6> QED
              BY <1>3, <4>2, <5>2, <6>1 DEF Owns, OwnFile
        <5> QED
            BY <5>1, <5>2
      <4>7. \A v \in Transfers \ {w} : Fills(v, w)' => Fills(v, w)
            BY <1>1, <4>1 DEF Fills, At, Seen, Same
      <4> QED
          BY <1>1, <4>1, <4>2, <4>5, <4>6, <4>7, OwnKept
    <3> QED
        BY <3>1, <3>2
  <2> QED
      BY <2>1 DEF OwnInv
<1>8. MadeInv'
  <2> SUFFICES ASSUME NEW v \in Transfers PROVE Made(v)'
      BY DEF MadeInv
  <2>1. Made(v) /\ made'[v] = made[v]
        BY <1>1 DEF FileInv, MadeInv
  <2>2. v # u => /\ Seen(transfer[v], transfer'[v])
                 /\ ~transfer'[v].shared => ~transfer[v].shared
        BY <1>1
  <2> QED
      BY <1>2, <2>1, <2>2, MadeKept DEF Seen, Same
<1>9. NoPartIsLeftBehind'
  <2>1. ASSUME NEW j \in Ms \X Files, store'[j] # NoFile, j # k
        PROVE  \E v \in Transfers : transfer'[v].saved /\ Key(v)' = j
    <3>1. store[j] # NoFile
          BY <1>1, <1>4, <2>1
    <3>2. PICK v \in Transfers : transfer[v].saved /\ Key(v) = j
          BY <3>1 DEF FileInv, NoPartIsLeftBehind
    <3>3. v # u /\ transfer'[v].saved /\ Key(v)' = j
          BY <1>1, <1>2, <1>3, <3>2 DEF Seen
    <3> QED
        BY <3>3
  <2> QED
      BY <1>1, <2>1 DEF NoPartIsLeftBehind
<1> QED
    BY <1>5, <1>6, <1>7, <1>8, <1>9 DEF FileInv

LEMMA CopyFileInv ==
    ASSUME UploadTypeOK, FileInv, NEW u \in Transfers, CopyFile(u)
    PROVE  FileInv'
<1> DEFINE k == Key(u)
<1>1. /\ k \in Ms \X Files /\ transfer[u].pc = "copy"
      /\ templates' = templates /\ generated' = generated /\ made' = made
      /\ transfer'[u].file = transfer[u].file
      /\ transfer'[u].ms = transfer[u].ms
      /\ transfer'[u].shared = transfer[u].shared
      BY CopyFacts DEF FileInv
<1>2. transfer[u].file \in Files /\ made[u] = NoFile
      BY <1>1 DEF FileInv, PlaceInv, Place, Work, AfterOpen
<1>3. store \in [Ms \X Files -> Content]
      BY DEF UploadTypeOK
<1>4. Key(u)' = k
      BY <1>1 DEF Key
<1>5. CASE /\ store' = IF transfer[u].saved
                       THEN [store EXCEPT ![k] = @ \cup {u}] ELSE store
           /\ transfer'[u].pc = AfterSave(u)
           /\ transfer'[u].kind = transfer[u].kind
           /\ transfer'[u].saved = transfer[u].saved
           /\ \A v \in Transfers \ {u} : transfer'[v] = transfer[v]
  <2>1. transfer'[u].pc \in {"install", "up"} /\ AfterSave(u)' = AfterSave(u)
        BY <1>1, <1>5 DEF AfterSave
  <2>2. \A v \in Transfers : /\ Key(v)' = Key(v)
                             /\ transfer'[v].saved = transfer[v].saved
                             /\ transfer'[v].shared = transfer[v].shared
                             /\ transfer'[v].file = transfer[v].file
                             /\ v # u => Seen(transfer[v], transfer'[v])
        BY <1>1, <1>5 DEF Key, Seen, Same
  <2>3. /\ transfer[u].saved => store'[k] = store[k] \cup {u}
        /\ \A j \in Ms \X Files : j # k => store'[j] = store[j]
        /\ ~transfer[u].saved => store' = store
        BY <1>1, <1>3, <1>5
  <2> HIDE DEF k
  <2>4. PlaceInv'
    <3> SUFFICES ASSUME NEW v \in Transfers PROVE Place(v)'
        BY DEF PlaceInv
    <3>1. CASE v = u
      <4>1. transfer'[u].saved => transfer[u].file \in Files
            BY <1>2
      <4>2. /\ transfer'[u].pc = "install" => AfterSave(u)' = "install"
            /\ transfer'[u].pc \notin {"idle", "download", "save", "fill"}
            BY <1>5, <2>1
      <4> QED
          BY <1>1, <1>2, <3>1, <4>1, <4>2 DEF Place
    <3>2. CASE v # u
      <4>1. Place(v) /\ Seen(transfer[v], transfer'[v]) /\ made'[v] = made[v]
            BY <1>1, <2>2, <3>2 DEF FileInv, PlaceInv
      <4> QED
          BY <1>1, <4>1, PlaceKept DEF Seen, Place
    <3> QED
        BY <3>1, <3>2
  <2>5. SavedInv'
    <3>1. ASSUME NEW v \in Transfers, transfer'[v].saved
          PROVE  store'[Key(v)'] # NoFile
      <4>1. transfer[v].saved /\ store[Key(v)] # NoFile
            BY <2>2, <3>1 DEF FileInv, SavedInv
      <4>2. Key(v) \in Ms \X Files
            BY <4>1, FieldTypes DEF Key, FileInv, PlaceInv, Place
      <4>3. CASE Key(v) = k /\ transfer[u].saved
        <5>1. store[k] \in SUBSET Transfers
          <6>1. store[k] \in Content
                BY <1>1, <1>3
          <6>2. store[k] # NoFile
                BY <4>1, <4>3
          <6> QED
              BY <6>1, <6>2, Zenon DEF Content
        <5>2. store'[k] \in SUBSET Transfers
              BY <2>3, <4>3, <5>1
        <5>3. store'[k] # NoFile
              BY <5>2, UploadAssumption
        <5> QED
            BY <2>2, <4>3, <5>3
      <4> QED
          BY <2>2, <2>3, <4>1, <4>2, <4>3
    <3> QED
        BY <3>1 DEF SavedInv
  <2>6. OwnInv'
    <3>1. ASSUME NEW w \in Transfers,
                 transfer'[w].pc \in AfterOpen, ~transfer'[w].shared
          PROVE  Owns(w)'
      <4>1. transfer[w].pc \in AfterOpen /\ ~transfer[w].shared
            BY <1>1, <1>5, <2>2, <3>1 DEF AfterOpen
      <4>2. Owns(w)
            BY <4>1 DEF FileInv, OwnInv
      <4>3. ASSUME NEW v \in Transfers \ {w},
                   transfer'[v].saved \/ transfer'[v].pc = "copy"
            PROVE  Key(v)' # Key(w)
        <5>1. transfer[v].saved \/ At(v, "copy")
              BY <1>1, <1>5, <2>2, <4>3 DEF At
        <5> QED
            BY <2>2, <4>2, <5>1 DEF Owns, OwnFile
      <4>4. CASE w = u
        <5>1. store'[Key(u)'] = {u}
              BY <1>1, <1>4, <2>3, <4>2, <4>4 DEF Owns, OwnFile, k
        <5>2. transfer'[u].pc # "copy"
              BY <2>1
        <5>3. /\ transfer'[u].pc \in {"fill", "up", "start"}
                    => AfterSave(u)' # "install"
              /\ transfer'[u].pc # "start"
              BY <1>5, <2>1
        <5>4. transfer'[u].saved
              BY <2>2, <4>2, <4>4 DEF Owns, OwnFile
        <5>5. \A v \in Transfers \ {u} :
                 transfer'[v].saved \/ At(v, "copy")' => Key(v)' # Key(u)'
              BY <2>2, <4>3, <4>4 DEF At
        <5>6. OwnTemplate(u)' /\ OwnGenerated(u)'
              BY <5>3 DEF OwnTemplate, OwnGenerated, At
        <5> QED
            BY <4>4, <5>1, <5>2, <5>4, <5>5, <5>6 DEF Owns, OwnFile
      <4>5. CASE w # u
        <5>1. Seen(transfer[w], transfer'[w])
              BY <2>2, <4>5
        <5>2. Key(w) # k
              BY <1>1, <4>2, <4>5 DEF Owns, OwnFile, At, k
        <5>3. Key(w) \in Ms \X Files
              BY <4>2, FieldTypes DEF Key, FileInv, PlaceInv, Place, Owns, OwnFile
        <5>4. store'[Key(w)] = store[Key(w)]
              BY <2>3, <5>2, <5>3
        <5>5. \A v \in Transfers \ {w} : Fills(v, w)' => Fills(v, w)
          <6>1. transfer'[u].pc # "fill" /\ transfer'[w].file = transfer[w].file
                BY <2>1, <2>2
          <6> QED
              BY <2>2, <6>1 DEF Fills, At, Seen, Same
        <5> QED
            BY <1>1, <4>2, <4>3, <5>1, <5>4, <5>5, OwnKept
      <4> QED
          BY <4>4, <4>5
    <3> QED
        BY <3>1 DEF OwnInv
  <2>7. MadeInv'
    <3> SUFFICES ASSUME NEW v \in Transfers PROVE Made(v)'
        BY DEF MadeInv
    <3>1. Made(v) /\ made'[v] = made[v]
          BY <1>1 DEF FileInv, MadeInv
    <3> QED
        BY <1>2, <2>2, <3>1, MadeKept DEF Seen, Same
  <2>8. NoPartIsLeftBehind'
    <3>1. ASSUME NEW j \in Ms \X Files, store'[j] # NoFile
          PROVE  \E v \in Transfers : transfer'[v].saved /\ Key(v)' = j
      <4>1. CASE j = k /\ transfer[u].saved
            BY <2>2, <4>1 DEF k
      <4>2. CASE ~(j = k /\ transfer[u].saved)
        <5>1. store[j] # NoFile
              BY <2>3, <3>1, <4>2
        <5>2. PICK v \in Transfers : transfer[v].saved /\ Key(v) = j
              BY <5>1 DEF FileInv, NoPartIsLeftBehind
        <5> QED
            BY <2>2, <5>2
      <4> QED
          BY <4>1, <4>2
    <3> QED
        BY <3>1 DEF NoPartIsLeftBehind
  <2> QED
      BY <2>4, <2>5, <2>6, <2>7, <2>8 DEF FileInv
<1>6. CASE /\ store' = [store EXCEPT ![k] = NoFile]
           /\ transfer'[u].pc = "done" /\ ~transfer'[u].saved
           /\ \A v \in Transfers \ {u} :
                 /\ transfer'[v].shared = transfer[v].shared
                 /\ \/ transfer'[v] = transfer[v] /\ v \notin Others(u, k)
                    \/ /\ v \in Others(u, k) /\ ~transfer'[v].saved
                       /\ Same(transfer[v], transfer'[v])
  <2>1. ASSUME NEW v \in Transfers \ {u}
        PROVE  /\ Key(v)' = Key(v)
               /\ transfer'[v].pc = transfer[v].pc
               /\ transfer'[v].file = transfer[v].file
               /\ transfer'[v].shared = transfer[v].shared
               /\ transfer'[v].saved <=> transfer[v].saved /\ Key(v) # k
               /\ Same(transfer[v], transfer'[v])
    <3>1. /\ transfer'[v].pc = transfer[v].pc
          /\ transfer'[v].file = transfer[v].file
          /\ transfer'[v].ms = transfer[v].ms
          /\ transfer'[v].shared = transfer[v].shared
          /\ Same(transfer[v], transfer'[v])
          BY <1>6 DEF Same
    <3>2. transfer'[v].saved <=> transfer[v].saved /\ Key(v) # k
      <4>1. CASE v \in Others(u, k) /\ ~transfer'[v].saved
            BY <4>1 DEF Others
      <4>2. CASE transfer'[v] = transfer[v] /\ v \notin Others(u, k)
            BY <4>2 DEF Others
      <4> QED
          BY <1>6, <4>1, <4>2
    <3> QED
        BY <3>1, <3>2 DEF Key
  <2>2. \A j \in Ms \X Files : j # k => store'[j] = store[j]
        BY <1>1, <1>3, <1>6
  <2>3. store'[k] = NoFile
        BY <1>1, <1>3, <1>6
  <2> HIDE DEF k
  <2>4. PlaceInv'
    <3> SUFFICES ASSUME NEW v \in Transfers PROVE Place(v)'
        BY DEF PlaceInv
    <3>1. CASE v = u
          BY <1>1, <1>2, <1>6, <3>1 DEF Place, Work, AfterOpen
    <3>2. CASE v # u
      <4>1. Place(v) /\ Same(transfer[v], transfer'[v]) /\ made'[v] = made[v]
            BY <1>1, <2>1, <3>2 DEF FileInv, PlaceInv
      <4>2. transfer'[v].saved => transfer[v].saved
            BY <2>1, <3>2
      <4> QED
          BY <1>1, <4>1, <4>2, PlaceKept DEF Place
    <3> QED
        BY <3>1, <3>2
  <2>5. SavedInv'
    <3>1. ASSUME NEW v \in Transfers, transfer'[v].saved
          PROVE  store'[Key(v)'] # NoFile
      <4>1. v # u
            BY <1>6, <3>1
      <4>2. transfer[v].saved /\ Key(v) # k /\ Key(v)' = Key(v)
            BY <2>1, <3>1, <4>1
      <4>3. store[Key(v)] # NoFile
            BY <4>2 DEF FileInv, SavedInv
      <4>4. Key(v) \in Ms \X Files
            BY <4>2, FieldTypes DEF Key, FileInv, PlaceInv, Place
      <4> QED
          BY <2>2, <4>2, <4>3, <4>4
    <3> QED
        BY <3>1 DEF SavedInv
  <2>6. OwnInv'
    <3>1. ASSUME NEW w \in Transfers,
                 transfer'[w].pc \in AfterOpen, ~transfer'[w].shared
          PROVE  Owns(w)'
      <4>1. w # u
            BY <1>6, <3>1 DEF AfterOpen
      <4>2. Owns(w)
            BY <2>1, <3>1, <4>1 DEF FileInv, OwnInv, Same
      <4>3. Key(w) # k
            BY <1>1, <4>1, <4>2 DEF Owns, OwnFile, At, k
      <4>4. Seen(transfer[w], transfer'[w])
        <5>1. w \notin Others(u, k)
              BY <4>3 DEF Others
        <5> QED
            BY <1>6, <4>1, <5>1 DEF Seen, Same
      <4>5. Key(w) \in Ms \X Files
            BY <4>2, FieldTypes DEF Key, FileInv, PlaceInv, Place, Owns, OwnFile
      <4>6. store'[Key(w)] = store[Key(w)]
            BY <2>2, <4>3, <4>5
      <4>7. ASSUME NEW v \in Transfers \ {w},
                   transfer'[v].saved \/ transfer'[v].pc = "copy"
            PROVE  Key(v)' # Key(w)
        <5>1. v # u
              BY <1>6, <4>7
        <5>2. transfer[v].saved \/ At(v, "copy")
              BY <2>1, <4>7, <5>1 DEF At
        <5> QED
            BY <2>1, <4>2, <5>1, <5>2 DEF Owns, OwnFile
      <4>8. \A v \in Transfers \ {w} : Fills(v, w)' => Fills(v, w)
        <5>1. transfer'[u].pc # "fill" /\ transfer'[w].file = transfer[w].file
              BY <1>6, <2>1, <4>1
        <5> QED
            BY <2>1, <5>1 DEF Fills, At
      <4> QED
          BY <1>1, <4>2, <4>4, <4>6, <4>7, <4>8, OwnKept
    <3> QED
        BY <3>1 DEF OwnInv
  <2>7. MadeInv'
    <3> SUFFICES ASSUME NEW v \in Transfers PROVE Made(v)'
        BY DEF MadeInv
    <3>1. Made(v) /\ made'[v] = made[v]
          BY <1>1 DEF FileInv, MadeInv
    <3> QED
        BY <1>2, <2>1, <3>1, MadeKept DEF Same
  <2>8. NoPartIsLeftBehind'
    <3>1. ASSUME NEW j \in Ms \X Files, store'[j] # NoFile
          PROVE  \E v \in Transfers : transfer'[v].saved /\ Key(v)' = j
      <4>1. j # k /\ store[j] # NoFile
            BY <2>2, <2>3, <3>1
      <4>2. PICK v \in Transfers : transfer[v].saved /\ Key(v) = j
            BY <4>1 DEF FileInv, NoPartIsLeftBehind
      <4>3. v # u
            BY <4>1, <4>2 DEF k
      <4> QED
          BY <2>1, <4>1, <4>2, <4>3
    <3> QED
        BY <3>1 DEF NoPartIsLeftBehind
  <2> QED
      BY <2>4, <2>5, <2>6, <2>7, <2>8 DEF FileInv
<1> HIDE DEF k
<1>7. \/ /\ store' = IF transfer[u].saved
                     THEN [store EXCEPT ![k] = @ \cup {u}] ELSE store
         /\ transfer'[u].pc = AfterSave(u)
         /\ transfer'[u].kind = transfer[u].kind
         /\ transfer'[u].saved = transfer[u].saved
         /\ \A v \in Transfers \ {u} : transfer'[v] = transfer[v]
      \/ /\ store' = [store EXCEPT ![k] = NoFile]
         /\ transfer'[u].pc = "done" /\ ~transfer'[u].saved
         /\ \A v \in Transfers \ {u} :
               /\ transfer'[v].shared = transfer[v].shared
               /\ \/ transfer'[v] = transfer[v] /\ v \notin Others(u, k)
                  \/ /\ v \in Others(u, k) /\ ~transfer'[v].saved
                     /\ Same(transfer[v], transfer'[v])
      BY CopyFacts, Zenon DEF FileInv, k
<1> QED
    BY <1>5, <1>6, <1>7

LEMMA TemplateKept ==
    ASSUME NEW w \in Transfers, OwnTemplate(w), Same(transfer[w], transfer'[w]),
           ASSUME transfer[w].pc \in {"fill", "up", "start"},
                  AfterSave(w) = "install"
           PROVE  /\ templates'[transfer[w].file] = templates[transfer[w].file]
                  /\ \A v \in Transfers \ {w} : Fills(v, w)' => Fills(v, w)
    PROVE  OwnTemplate(w)'
<1>1. AfterSave(w)' = AfterSave(w)
      BY DEF Same, AfterSave
<1> QED
    BY <1>1 DEF OwnTemplate, Same

LEMMA GeneratedKept ==
    ASSUME NEW w \in Transfers, OwnGenerated(w), Same(transfer[w], transfer'[w]),
           transfer[w].pc = "start" /\ ~IsTemplate(w)
              => generated'[Slot(w)] = generated[Slot(w)]
    PROVE  OwnGenerated(w)'
<1>1. Slot(w)' = Slot(w) /\ IsTemplate(w)' = IsTemplate(w)
      BY DEF Same, Slot, IsTemplate
<1> QED
    BY <1>1 DEF OwnGenerated, At, Same

(* A step that writes a template disturbs no file and no history. *)
LEMMA TemplateFileInv ==
    ASSUME UploadTypeOK, FileInv, NEW u \in Transfers,
           NEW pcs \in SUBSET {"fill", "up", "start"}, NEW seen,
           TemplateStep(u, pcs, seen),
           transfer[u].pc \in {"install", "fill", "up"},
           store' = store, made' = made,
           transfer'[u].pc = "fill" => AfterSave(u) = "install",
           \A v \in Transfers :
              transfer'[v].pc = "fill" => templates'[transfer[v].file] # NoFile,
           ASSUME NEW w \in Transfers, Owns(w),
                  transfer'[w].pc \in AfterOpen, ~transfer'[w].shared
           PROVE  OwnTemplate(w)' /\ OwnGenerated(w)'
    PROVE  FileInv'
<1>1. /\ transfer'[u].file = transfer[u].file /\ transfer'[u].ms = transfer[u].ms
      /\ transfer'[u].saved = transfer[u].saved
      /\ ~transfer'[u].shared => ~transfer[u].shared
      /\ transfer'[u].pc \in {"fill", "up", "start", "done"}
      /\ transfer'[u].pc # "done" => transfer'[u].kind = transfer[u].kind
      BY DEF TemplateStep
<1>2. ASSUME NEW v \in Transfers \ {u}
      PROVE  /\ Seen(transfer[v], transfer'[v])
             /\ ~transfer'[v].shared => ~transfer[v].shared
      BY DEF TemplateStep
<1>3. transfer[u].file \in Files /\ made[u] = NoFile
      BY DEF FileInv, PlaceInv, Place, Work, AfterOpen
<1>4. ASSUME NEW v \in Transfers
      PROVE  /\ Key(v)' = Key(v) /\ transfer'[v].file = transfer[v].file
             /\ transfer'[v].saved = transfer[v].saved
             /\ ~transfer'[v].shared => ~transfer[v].shared
             /\ transfer'[v].pc = "copy" <=> transfer[v].pc = "copy"
             /\ transfer'[v].pc \in AfterOpen => transfer[v].pc \in AfterOpen
      BY <1>1, <1>2 DEF Key, Seen, Same, AfterOpen
<1>5. PlaceInv'
  <2> SUFFICES ASSUME NEW v \in Transfers PROVE Place(v)'
      BY DEF PlaceInv
  <2>1. CASE v = u
    <3>1. transfer'[u].pc = "fill" =>
             AfterSave(u)' = "install" /\ templates'[transfer'[u].file] # NoFile
          BY <1>1 DEF AfterSave
    <3> QED
        BY <1>1, <1>3, <2>1, <3>1 DEF Place
  <2>2. CASE v # u
    <3>1. Place(v) /\ Seen(transfer[v], transfer'[v]) /\ made'[v] = made[v]
          BY <1>2, <2>2 DEF FileInv, PlaceInv
    <3>2. transfer[v].pc = "fill" => templates'[transfer[v].file] # NoFile
          BY <3>1 DEF Seen, Same
    <3> QED
        BY <3>1, <3>2, PlaceKept DEF Seen
  <2> QED
      BY <2>1, <2>2
<1>6. SavedInv'
      BY <1>4 DEF FileInv, SavedInv
<1>7. OwnInv'
  <2>1. ASSUME NEW w \in Transfers,
               transfer'[w].pc \in AfterOpen, ~transfer'[w].shared
        PROVE  Owns(w)'
    <3>1. Owns(w)
          BY <1>4, <2>1 DEF FileInv, OwnInv
    <3>2. \A v \in Transfers \ {w} :
             transfer'[v].saved \/ At(v, "copy")' => Key(v)' # Key(w)'
          BY <1>4, <3>1 DEF Owns, OwnFile, At
    <3>3. OwnFile(w)'
          BY <1>4, <3>1, <3>2 DEF Owns, OwnFile
    <3>4. OwnTemplate(w)' /\ OwnGenerated(w)'
          BY <2>1, <3>1
    <3> QED
        BY <3>3, <3>4 DEF Owns
  <2> QED
      BY <2>1 DEF OwnInv
<1>8. MadeInv'
  <2> SUFFICES ASSUME NEW v \in Transfers PROVE Made(v)'
      BY DEF MadeInv
  <2>1. Made(v) /\ made'[v] = made[v]
        BY DEF FileInv, MadeInv
  <2> QED
      BY <1>2, <1>3, <1>4, <2>1, MadeKept DEF Seen, Same
<1>9. NoPartIsLeftBehind'
      BY <1>4 DEF FileInv, NoPartIsLeftBehind
<1> QED
    BY <1>5, <1>6, <1>7, <1>8, <1>9 DEF FileInv

LEMMA CreateTemplateInv ==
    ASSUME UploadTypeOK, FileInv, NEW u \in Transfers, CreateTemplate(u)
    PROVE  FileInv' /\ templates' \in [Files -> Content]
<1> DEFINE f == transfer[u].file
<1>1. /\ f \in Files /\ transfer[u].pc = "install"
      /\ store' = store /\ generated' = generated /\ made' = made
      /\ TemplateStep(u, {"fill"}, TemplateUsers(u))
      /\ \/ transfer'[u].pc = "done" /\ templates' = templates
         \/ /\ templates' = [templates EXCEPT ![f] = {}]
            /\ transfer'[u].pc = "fill"
            /\ ~transfer'[u].shared
                  => \A v \in TemplateUsers(u) : ~At(v, "fill")
      BY CreateTemplateFacts DEF FileInv
<1> HIDE DEF f
<1>2. AfterSave(u) = "install"
      BY <1>1 DEF FileInv, PlaceInv, Place
<1>3. templates \in [Files -> Content] /\ {} \in Content
      BY DEF UploadTypeOK, Content
<1>4. {} # NoFile
      BY UploadAssumption
<1>5. ASSUME NEW v \in Transfers \ {u}
      PROVE  /\ Seen(transfer[v], transfer'[v])
             /\ ~transfer'[v].shared /\ transfer'[u].pc # "done"
                   => v \notin TemplateUsers(u)
      BY <1>1 DEF TemplateStep
<1>6. ASSUME NEW v \in Transfers, transfer'[v].pc = "fill"
      PROVE  templates'[transfer[v].file] # NoFile
  <2>1. CASE v = u
        BY <1>1, <1>3, <1>4, <1>6, <2>1 DEF f
  <2>2. CASE v # u
    <3>1. transfer[v].pc = "fill"
          BY <1>5, <1>6, <2>2 DEF Seen, Same
    <3>2. transfer[v].file \in Files /\ templates[transfer[v].file] # NoFile
          BY <3>1 DEF FileInv, PlaceInv, Place, Work, AfterOpen
    <3> QED
        BY <1>1, <1>3, <1>4, <3>2
  <2> QED
      BY <2>1, <2>2
<1>7. ASSUME NEW w \in Transfers, Owns(w),
             transfer'[w].pc \in AfterOpen, ~transfer'[w].shared
      PROVE  OwnTemplate(w)' /\ OwnGenerated(w)'
  <2>1. CASE w = u
    <3>1. transfer'[u].pc = "fill" /\ templates'[f] = {}
          BY <1>1, <1>3, <1>7, <2>1 DEF AfterOpen
    <3>2. ASSUME NEW v \in Transfers \ {u}, Fills(v, u)'
          PROVE  FALSE
      <4>1. transfer[v].pc = "fill" /\ transfer[v].file = f
            BY <1>1, <1>5, <3>2 DEF Fills, At, Seen, Same, TemplateStep, f
      <4>2. transfer[v].kind = "upload"
            BY <4>1 DEF FileInv, PlaceInv, Place, AfterSave
      <4>3. v \in TemplateUsers(u)
            BY <4>1, <4>2 DEF TemplateUsers, f
      <4> QED
          BY <1>1, <1>7, <2>1, <3>1, <4>1, <4>3 DEF At
    <3>3. transfer'[u].file = f
          BY <1>1 DEF TemplateStep, f
    <3> QED
        BY <2>1, <3>1, <3>2, <3>3 DEF OwnTemplate, OwnGenerated, At
  <2>2. CASE w # u
    <3>1. Seen(transfer[w], transfer'[w]) /\ Same(transfer[w], transfer'[w])
          BY <1>5, <2>2 DEF Seen
    <3>2. ASSUME transfer[w].pc \in {"fill", "up", "start"},
                 AfterSave(w) = "install"
          PROVE  /\ templates'[transfer[w].file] = templates[transfer[w].file]
                 /\ \A v \in Transfers \ {w} : Fills(v, w)' => Fills(v, w)
      <4>1. transfer[w].kind = "upload" /\ transfer[w].file \in Files
            BY <3>2 DEF AfterSave, FileInv, PlaceInv, Place, Work, AfterOpen
      <4>2. transfer'[u].pc # "done" => transfer[w].file # f
            BY <1>5, <1>7, <2>2, <3>2, <4>1 DEF TemplateUsers, f
      <4>3. templates'[transfer[w].file] = templates[transfer[w].file]
            BY <1>1, <1>3, <4>1, <4>2
      <4>4. ~Fills(u, w)'
            BY <1>1, <3>1, <4>2 DEF Fills, At, Same, TemplateStep, f
      <4>5. \A v \in Transfers \ {u} : Fills(v, w)' => Fills(v, w)
            BY <1>5, <3>1 DEF Fills, At, Seen, Same
      <4> QED
          BY <4>3, <4>4, <4>5
    <3>3. OwnTemplate(w)'
          BY <1>7, <3>1, <3>2, TemplateKept DEF Owns
    <3>4. OwnGenerated(w)'
          BY <1>1, <1>7, <3>1, GeneratedKept DEF Owns
    <3> QED
        BY <3>3, <3>4
  <2> QED
      BY <2>1, <2>2
<1>8. templates' \in [Files -> Content]
      BY <1>1, <1>3
<1>9. FileInv'
      BY <1>1, <1>2, <1>6, <1>7, TemplateFileInv
<1> QED
    BY <1>8, <1>9

LEMMA FillTemplateInv ==
    ASSUME UploadTypeOK, FileInv, NEW u \in Transfers, FillTemplate(u)
    PROVE  FileInv' /\ templates' \in [Files -> Content]
<1> DEFINE f == transfer[u].file
<1>1. /\ f \in Files /\ transfer[u].pc = "fill"
      /\ store' = store /\ generated' = generated /\ made' = made
      /\ TemplateStep(u, {"up"}, {})
      BY FillTemplateFacts DEF FileInv
<1>2. PICK c \in SUBSET Transfers :
             /\ store[Key(u)] \in {c, NoFile}
             /\ \/ templates' = templates /\ transfer'[u].pc = "done"
                \/ templates' = [templates EXCEPT ![f] = @ \cup c]
      BY FillTemplateFacts DEF FileInv
<1>3. AfterSave(u) = "install" /\ templates[f] # NoFile
      BY <1>1 DEF FileInv, PlaceInv, Place, f
<1> HIDE DEF f
<1>4. templates \in [Files -> Content] /\ templates[f] \in SUBSET Transfers
      BY <1>1, <1>3 DEF UploadTypeOK, Content
<1>5. /\ templates[f] \cup c \in SUBSET Transfers
      /\ templates[f] \cup c \in Content /\ templates[f] \cup c # NoFile
  <2>1. templates[f] \cup c \in SUBSET Transfers
        BY <1>4
  <2> QED
      BY <2>1, UploadAssumption DEF Content
<1>6. transfer'[u].pc \in {"up", "done"} /\ transfer'[u].file = f
      BY <1>1 DEF TemplateStep, f
<1>7. ASSUME NEW v \in Transfers \ {u}
      PROVE  Seen(transfer[v], transfer'[v]) /\ Same(transfer[v], transfer'[v])
      BY <1>1 DEF TemplateStep, Seen
<1>8. ASSUME NEW v \in Transfers, transfer'[v].pc = "fill"
      PROVE  templates'[transfer[v].file] # NoFile
  <2>1. transfer[v].pc = "fill"
        BY <1>6, <1>7, <1>8 DEF Same
  <2>2. transfer[v].file \in Files /\ templates[transfer[v].file] # NoFile
        BY <2>1 DEF FileInv, PlaceInv, Place, Work, AfterOpen
  <2> QED
      BY <1>2, <1>4, <1>5, <2>2
<1>9. ASSUME NEW w \in Transfers, Owns(w),
             transfer'[w].pc \in AfterOpen, ~transfer'[w].shared
      PROVE  OwnTemplate(w)' /\ OwnGenerated(w)'
  <2>1. CASE w = u
    <3>1. transfer'[u].pc = "up"
          BY <1>6, <1>9, <2>1 DEF AfterOpen
    <3>2. templates[f] = {} /\ \A v \in Transfers \ {u} : ~Fills(v, u)
          BY <1>1, <1>3, <1>9, <2>1 DEF Owns, OwnTemplate, f
    <3>3. store[Key(u)] = {u} /\ {u} \in SUBSET Transfers
          BY <1>1, <1>9, <2>1 DEF Owns, OwnFile
    <3>4. c = {u}
          BY <1>2, <3>3, UploadAssumption
    <3>5. templates'[f] = {u}
          BY <1>1, <1>2, <1>4, <3>1, <3>2, <3>4
    <3>6. \A v \in Transfers \ {u} : ~Fills(v, u)'
          BY <1>6, <1>7, <3>2 DEF Fills, At, Same, f
    <3> QED
        BY <1>6, <2>1, <3>1, <3>5, <3>6 DEF OwnTemplate, OwnGenerated, At
  <2>2. CASE w # u
    <3>1. Seen(transfer[w], transfer'[w]) /\ Same(transfer[w], transfer'[w])
          BY <1>7, <2>2
    <3>2. ASSUME transfer[w].pc \in {"fill", "up", "start"},
                 AfterSave(w) = "install"
          PROVE  /\ templates'[transfer[w].file] = templates[transfer[w].file]
                 /\ \A v \in Transfers \ {w} : Fills(v, w)' => Fills(v, w)
      <4>1. transfer[w].file \in Files
            BY <3>2 DEF FileInv, PlaceInv, Place, Work, AfterOpen
      <4>2. transfer[w].file # f
            BY <1>1, <1>9, <2>2, <3>2 DEF Owns, OwnTemplate, Fills, At, f
      <4>3. templates'[transfer[w].file] = templates[transfer[w].file]
            BY <1>2, <1>4, <4>1, <4>2
      <4>4. \A v \in Transfers : Fills(v, w)' => Fills(v, w)
            BY <1>6, <1>7, <3>1 DEF Fills, At, Same
      <4> QED
          BY <4>3, <4>4
    <3>3. OwnTemplate(w)'
          BY <1>9, <3>1, <3>2, TemplateKept DEF Owns
    <3>4. OwnGenerated(w)'
          BY <1>1, <1>9, <3>1, GeneratedKept DEF Owns
    <3> QED
        BY <3>3, <3>4
  <2> QED
      BY <2>1, <2>2
<1>10. templates' \in [Files -> Content]
       BY <1>1, <1>2, <1>4, <1>5
<1>11. FileInv'
       BY <1>1, <1>3, <1>6, <1>8, <1>9, TemplateFileInv
<1> QED
    BY <1>10, <1>11

LEMMA GenerateTemplateInv ==
    ASSUME UploadTypeOK, FileInv, NEW u \in Transfers, GenerateTemplate(u)
    PROVE  /\ FileInv'
           /\ generated' \in [Ms \X Names -> Files \cup {NoFile}]
<1> DEFINE s == Slot(u)
           f == transfer[u].file
<1>1. /\ s \in Ms \X Names /\ transfer[u].pc = "up" /\ ~IsTemplate(u)
      /\ f \in Files
      /\ store' = store /\ templates' = templates /\ made' = made
      /\ TemplateStep(u, {"start"}, {})
      /\ \/ transfer'[u].pc = "done" /\ generated' = generated
         \/ /\ transfer'[u].pc \in {"done", "start"}
            /\ \E g \in {f, NoFile} : generated' = [generated EXCEPT ![s] = g]
            /\ transfer'[u].pc = "start"
                  => generated' = [generated EXCEPT ![s] = f]
            /\ \A v \in SlotUsers(u) : transfer'[v].shared
      BY GenerateFacts DEF FileInv
<1>2. generated \in [Ms \X Names -> Files \cup {NoFile}]
      BY DEF UploadTypeOK
<1>3. /\ transfer'[u].file = f /\ Slot(u)' = s
      /\ transfer'[u].pc \in {"start", "done"}
      /\ transfer'[u].pc = "start" => transfer'[u].kind = transfer[u].kind
      BY <1>1 DEF TemplateStep, Slot
<1>4. ASSUME NEW v \in Transfers \ {u}
      PROVE  Seen(transfer[v], transfer'[v]) /\ Same(transfer[v], transfer'[v])
      BY <1>1 DEF TemplateStep, Seen
<1>5. ASSUME NEW v \in Transfers, transfer'[v].pc = "fill"
      PROVE  templates'[transfer[v].file] # NoFile
  <2>1. transfer[v].pc = "fill"
        BY <1>3, <1>4, <1>5 DEF Same
  <2> QED
      BY <1>1, <2>1 DEF FileInv, PlaceInv, Place
<1>6. ASSUME NEW w \in Transfers, Owns(w),
             transfer'[w].pc \in AfterOpen, ~transfer'[w].shared
      PROVE  OwnTemplate(w)' /\ OwnGenerated(w)'
  <2>1. CASE w = u
    <3>1. transfer'[u].pc = "start"
          BY <1>3, <1>6, <2>1 DEF AfterOpen
    <3>2. generated' = [generated EXCEPT ![s] = f]
          BY <1>1, <3>1
    <3>3. generated'[s] = f
          BY <1>1, <1>2, <3>2
    <3>4. AfterSave(u)' # "install"
          BY <1>1, <1>3 DEF AfterSave, IsTemplate
    <3> QED
        BY <1>3, <2>1, <3>1, <3>3, <3>4 DEF OwnTemplate, OwnGenerated
  <2> HIDE DEF s, f
  <2>2. CASE w # u
    <3>1. Seen(transfer[w], transfer'[w]) /\ Same(transfer[w], transfer'[w])
          BY <1>4, <2>2
    <3>2. \A v \in Transfers : Fills(v, w)' => Fills(v, w)
          BY <1>3, <1>4, <3>1 DEF Fills, At, Same
    <3>3. OwnTemplate(w)'
          BY <1>1, <1>6, <3>1, <3>2, TemplateKept DEF Owns
    <3>4. ASSUME transfer[w].pc = "start", ~IsTemplate(w)
          PROVE  generated'[Slot(w)] = generated[Slot(w)]
      <4>1. CASE w \notin SlotUsers(u)
        <5>1. Slot(w) # s
              BY <2>2, <3>4, <4>1 DEF SlotUsers, At, s
        <5>2. transfer[w].file \in Files /\ transfer[w].ms \in Ms
              BY <3>4, FieldTypes DEF FileInv, PlaceInv, Place, Work, AfterOpen
        <5>3. Slot(w) \in Ms \X Names
              BY <5>2, UploadAssumption DEF Slot
        <5> QED
            BY <1>1, <1>2, <5>1, <5>3
      <4>2. CASE generated' = generated
            BY <4>2
      <4> QED
          BY <1>1, <1>6, <4>1, <4>2
    <3>5. OwnGenerated(w)'
          BY <1>6, <3>1, <3>4, GeneratedKept DEF Owns
    <3> QED
        BY <3>3, <3>5
  <2> QED
      BY <2>1, <2>2
<1>7. generated' \in [Ms \X Names -> Files \cup {NoFile}]
      BY <1>1, <1>2
<1>8. FileInv'
      BY <1>1, <1>3, <1>5, <1>6, TemplateFileInv
<1> QED
    BY <1>7, <1>8

------------------------------------------------------------------------------
(* The invariant *)

LEMMA UploadStep == UploadInv /\ [UploadNext]_uvars => UploadInv'
<1> SUFFICES ASSUME UploadInv, [UploadNext]_uvars PROVE UploadInv'
    OBVIOUS
<1>1. UploadTypeOK /\ FileInv /\ PlaceInv
      BY DEF UploadInv, FileInv
<1>2. ASSUME UploadTypeOK', FileInv' PROVE UploadInv'
      BY <1>2 DEF UploadInv, FileInv
<1>3. ASSUME \/ UNCHANGED uvars \/ Tick \/ UploadCrash
             \/ \E u \in Transfers : Quiets(u)
             \/ \E n \in Names : Outside(n)
      PROVE  UploadInv'
  <2>1. Quiet
        BY <1>1, <1>3, QuietStep, QuietOthers
  <2>2. UploadTypeOK'
        BY <1>1, <1>3, QuietTypeStep
  <2> QED
      BY <1>1, <1>2, <2>1, <2>2, QuietFileInv
<1>4. /\ clock \in Ms /\ MachineOK /\ BridgeOK /\ FilesOK
      /\ store \in [Ms \X Files -> Content] /\ templates \in [Files -> Content]
      /\ generated \in [Ms \X Names -> Files \cup {NoFile}]
      /\ made \in [Transfers -> Content \cup {Default}]
      BY <1>1, TypeParts DEF FilesOK
<1>5. ASSUME FileInv', UNCHANGED <<clock, machine, novnc, made>>,
             transfer' \in [Transfers -> Transfer],
             store' \in [Ms \X Files -> Content],
             templates' \in [Files -> Content],
             generated' \in [Ms \X Names -> Files \cup {NoFile}]
      PROVE  UploadInv'
  <2>1. OpenInv'
        BY <1>5 DEF FileInv, OwnInv, OpenInv, Owns, OwnFile
  <2>2. MachineOK' /\ BridgeOK' /\ FilesOK'
        BY <1>4, <1>5 DEF MachineOK, BridgeOK, FilesOK, machine, novnc
  <2>3. UploadTypeOK'
        BY <1>4, <1>5, <2>1, <2>2, Zenon
        DEF UploadTypeOK, MachineOK, BridgeOK, FilesOK, OpenInv
  <2> QED
      BY <1>2, <1>5, <2>3
<1>6. ASSUME NEW u \in Transfers, NEW f \in Files, NEW n \in Names,
             HandleUploadImage(u, f, n) \/ HandleFetchImage(u, f, n)
      PROVE  UploadInv'
  <2>1. FileInv'
        BY <1>1, <1>6, AcceptFileInv
  <2> QED
      BY <1>1, <1>4, <1>5, <1>6, <2>1, AcceptFacts DEF disk
<1>7. ASSUME NEW u \in Transfers, CreateFile(u) PROVE UploadInv'
  <2>1. CASE End(u)
    <3>1. transfer[u].pc = "save" /\ transfer'[u].pc = "done"
          BY <1>1, <1>7, <2>1, EndFacts DEF CreateFile, At
    <3>2. store' = store /\ UNCHANGED <<clock, templates, generated, machine, novnc, made>>
          BY <1>1, <1>7, <3>1, CreateEnds
    <3>3. Quiet
          BY <1>1, <2>1, <3>2, EndFacts
          DEF Quiet, GoesOn, At, disk, UploadTypeOK
    <3> QED
        BY <1>1, <1>2, <1>4, <3>2, <3>3, QuietTyped, QuietFileInv
        DEF machine, novnc, MachineOK, BridgeOK
  <2>2. CASE ~End(u)
    <3> DEFINE k == <<clock, transfer[u].file>>
    <3>1. /\ k \in Ms \X Files /\ store' = [store EXCEPT ![k] = {}]
          /\ UNCHANGED <<clock, templates, generated, machine, novnc, made>>
          /\ transfer' \in [Transfers -> Transfer]
          BY <1>1, <1>7, <2>2, CreateFacts
    <3>2. {} \in Content
          BY DEF Content
    <3>3. store' \in [Ms \X Files -> Content]
          BY <1>4, <3>1, <3>2
    <3>4. FileInv'
          BY <1>1, <1>7, <2>2, CreateFileInv
    <3> QED
        BY <1>4, <1>5, <3>1, <3>3, <3>4
  <2> QED
      BY <2>1, <2>2
<1>8. ASSUME NEW u \in Transfers, CopyFile(u) PROVE UploadInv'
  <2>1. /\ Key(u) \in Ms \X Files /\ transfer[u].pc = "copy"
        /\ UNCHANGED <<clock, templates, generated, machine, novnc, made>>
        /\ transfer' \in [Transfers -> Transfer]
        /\ \/ store' = IF transfer[u].saved
                       THEN [store EXCEPT ![Key(u)] = @ \cup {u}] ELSE store
           \/ store' = [store EXCEPT ![Key(u)] = NoFile]
        BY <1>1, <1>8, CopyFacts
  <2>2. NoFile \in Content
        BY DEF Content
  <2>3. ASSUME transfer[u].saved PROVE store[Key(u)] \cup {u} \in Content
    <3>1. store[Key(u)] \in Content
          BY <1>4, <2>1
    <3>2. store[Key(u)] # NoFile
          BY <1>1, <2>3 DEF FileInv, SavedInv
    <3> QED
        BY <3>1, <3>2 DEF Content
  <2>4. store' \in [Ms \X Files -> Content]
    <3>1. CASE transfer[u].saved
               /\ store' = [store EXCEPT ![Key(u)] = store[Key(u)] \cup {u}]
          BY <1>4, <2>1, <2>3, <3>1
    <3>2. CASE store' = store
          BY <1>4, <3>2
    <3>3. CASE store' = [store EXCEPT ![Key(u)] = NoFile]
          BY <1>4, <2>1, <2>2, <3>3
    <3> QED
        BY <2>1, <3>1, <3>2, <3>3
  <2>5. FileInv'
        BY <1>1, <1>8, CopyFileInv
  <2> QED
      BY <1>4, <1>5, <2>1, <2>4, <2>5
<1>9. ASSUME NEW u \in Transfers, CreateTemplate(u) PROVE UploadInv'
  <2>1. /\ UNCHANGED <<clock, store, generated, machine, novnc, made>>
        /\ transfer' \in [Transfers -> Transfer]
        BY <1>1, <1>9, CreateTemplateFacts DEF TemplateStep
  <2>2. FileInv' /\ templates' \in [Files -> Content]
        BY <1>1, <1>9, CreateTemplateInv
  <2> QED
      BY <1>4, <1>5, <2>1, <2>2
<1>10. ASSUME NEW u \in Transfers, FillTemplate(u) PROVE UploadInv'
  <2>1. /\ UNCHANGED <<clock, store, generated, machine, novnc, made>>
        /\ transfer' \in [Transfers -> Transfer]
        BY <1>1, <1>10, FillTemplateFacts DEF TemplateStep
  <2>2. FileInv' /\ templates' \in [Files -> Content]
        BY <1>1, <1>10, FillTemplateInv
  <2> QED
      BY <1>4, <1>5, <2>1, <2>2
<1>11. ASSUME NEW u \in Transfers, GenerateTemplate(u) PROVE UploadInv'
  <2>1. /\ UNCHANGED <<clock, store, templates, machine, novnc, made>>
        /\ transfer' \in [Transfers -> Transfer]
        BY <1>1, <1>11, GenerateFacts DEF TemplateStep
  <2>2. /\ FileInv'
        /\ generated' \in [Ms \X Names -> Files \cup {NoFile}]
        BY <1>1, <1>11, GenerateTemplateInv
  <2> QED
      BY <1>4, <1>5, <2>1, <2>2
<1> QED
    BY <1>3, <1>6, <1>7, <1>8, <1>9, <1>10, <1>11, Cases

LEMMA UploadStart == UploadInit => UploadInv
<1> SUFFICES ASSUME UploadInit PROVE UploadInv
    OBVIOUS
<1>1. \A u \in Transfers : transfer[u] = Idle /\ made[u] = NoFile
      BY DEF UploadInit
<1>2. Idle \in Transfer /\ Idle.pc = "idle" /\ ~Idle.saved
      BY IdleTyped DEF Idle
<1>3. "idle" \notin Work /\ "idle" \notin AfterOpen
      BY DEF Work, AfterOpen
<1>4. UploadTypeOK
  <2>1. clock \in Ms /\ FilesOK /\ made \in [Transfers -> Content \cup {Default}]
        BY UploadAssumption DEF UploadInit, FilesOK, Ms, Content
  <2>2. transfer \in [Transfers -> Transfer]
        BY <1>2 DEF UploadInit
  <2>3. MachineOK /\ BridgeOK
        BY DEF UploadInit, MachineOK, BridgeOK
  <2>4. OpenInv
        BY <1>1, <1>2, <1>3 DEF OpenInv
  <2> QED
      BY <2>1, <2>2, <2>3, <2>4, TypeParts
<1>5. PlaceInv /\ SavedInv /\ OwnInv /\ MadeInv
      BY <1>1, <1>2, <1>3 DEF PlaceInv, Place, SavedInv, OwnInv, MadeInv, Made
<1>6. NoPartIsLeftBehind
      BY DEF UploadInit, NoPartIsLeftBehind
<1> QED
    BY <1>4, <1>5, <1>6 DEF UploadInv

LEMMA UploadInvariance == UploadSpec => []UploadInv
BY UploadStart, UploadStep, PTL DEF UploadSpec

(* Any number of goroutines keep the upload directory, the templates, the  *)
(* instances, the bridge and their own state well-formed; a file that its  *)
(* transfer has opened stays saved as long as no other transfer uses one   *)
(* of its name.                                                            *)
THEOREM UploadTypeCorrect == UploadSpec => []UploadTypeOK
<1>1. UploadInv => UploadTypeOK
      BY DEF UploadInv
<1> QED
    BY <1>1, UploadInvariance, PTL

(* Whatever other transfers save, truncate, remove, install and generate   *)
(* in between, half done or done, lima-up is given its own client's bytes,  *)
(* limactl a template of them, and the instance is made of all of them and *)
(* no others, unless another transfer used a file of the same name in the  *)
(* same millisecond, a template of the name or of the name without its     *)
(* extension while this one needed it.  An instance that was there and is  *)
(* deleted under lima-up is limactl's default instead.                     *)
THEOREM VmsAreMadeOfTheirUploads == UploadSpec => []VmIsMadeOfItsUpload
<1>1. ASSUME UploadInv PROVE VmIsMadeOfItsUpload
  <2> SUFFICES ASSUME NEW u \in Transfers, ~transfer[u].shared
               PROVE  /\ transfer[u].pc = "up" => TargetIn(u) = {u}
                      /\ transfer[u].pc = "start" => SourceOf(u) = OwnSource(u)
                      /\ made[u] # NoFile =>
                            made[u] = IF transfer[u].existing THEN Default
                                                              ELSE OwnSource(u)
      BY DEF VmIsMadeOfItsUpload
  <2>1. PlaceInv /\ OwnInv /\ Made(u)
        BY <1>1 DEF UploadInv, MadeInv
  <2>2. transfer[u].pc \in {"up", "start"} =>
           /\ TargetIn(u) = {u}
           /\ transfer[u].pc = "start" => SourceOf(u) = OwnSource(u)
        BY <2>1, OwnSourceOf
  <2>3. /\ transfer[u].pc = "up" => TargetIn(u) = {u}
        /\ transfer[u].pc = "start" => SourceOf(u) = OwnSource(u)
        BY <2>2
  <2> QED
      BY <2>1, <2>3 DEF Made
<1> QED
    BY <1>1, UploadInvariance, PTL

(* A save that fails removes the file it had opened, and what is in the    *)
(* upload directory always belongs to a transfer whose save has not failed.*)
THEOREM PartsAreRemoved == UploadSpec => []NoPartIsLeftBehind
<1>1. UploadInv => NoPartIsLeftBehind
      BY DEF UploadInv
<1> QED
    BY <1>1, UploadInvariance, PTL

------------------------------------------------------------------------------
(* Displays *)

LEMMA LaunchShows ==
    ASSUME MachineOK, DisplayInv, NEW n \in Names, Launch(n)
    PROVE  DisplayInv'
<1>1. PICK p \in (Ports \ InUse) \cup {NoPort} :
             /\ port' = [port EXCEPT ![n] = p]
             /\ display' = [display EXCEPT ![n] = p]
      BY DEF Launch
<1> QED
    BY <1>1 DEF MachineOK, DisplayInv

(* The steps that touch files or begin a transfer leave the machines and   *)
(* the bridge alone, and take nobody to the use of a port.                 *)
Aside ==
    /\ UNCHANGED <<machine, novnc>>
    /\ \A u \in Transfers :
          At(u, "use")' => At(u, "use") /\ transfer'[u].name = transfer[u].name

LEMMA AsideSteps ==
    ASSUME UploadTypeOK, PlaceInv,
           \/ UNCHANGED uvars \/ Tick
           \/ \E u \in Transfers : \/ CreateFile(u) \/ CopyFile(u)
                                  \/ CreateTemplate(u) \/ FillTemplate(u)
                                  \/ GenerateTemplate(u)
           \/ \E u \in Transfers, f \in Files, n \in Names :
                 HandleUploadImage(u, f, n) \/ HandleFetchImage(u, f, n)
    PROVE  Aside
<1>1. ASSUME UNCHANGED uvars \/ Tick PROVE Aside
      BY <1>1 DEF uvars, Tick, Aside, At, machine, novnc
<1>2. ASSUME NEW u \in Transfers, NEW f \in Files, NEW n \in Names,
             HandleUploadImage(u, f, n) \/ HandleFetchImage(u, f, n)
      PROVE  Aside
      BY <1>2, AcceptFacts DEF Aside, At
<1>3. ASSUME NEW u \in Transfers, CreateFile(u) PROVE Aside
  <2>1. CASE End(u)
    <3>1. transfer'[u].pc = "done" /\ transfer[u].pc = "save"
          BY <1>3, <2>1, EndFacts DEF CreateFile, At
    <3>2. UNCHANGED <<machine, novnc>>
          BY <1>3, <3>1, CreateEnds
    <3> QED
        BY <2>1, <3>1, <3>2, EndFacts DEF Aside, At
  <2>2. CASE ~End(u)
    <3>1. /\ UNCHANGED <<machine, novnc>> /\ transfer'[u].pc = "copy"
          /\ \A v \in Transfers \ {u} : Seen(transfer[v], transfer'[v])
          BY <1>3, <2>2, CreateFacts
    <3> QED
        BY <3>1 DEF Aside, At, Seen, Same
  <2> QED
      BY <2>1, <2>2
<1>4. ASSUME NEW u \in Transfers, CopyFile(u) PROVE Aside
  <2>1. /\ UNCHANGED <<machine, novnc>>
        /\ transfer'[u].pc \in {AfterSave(u), "done"}
        /\ \A v \in Transfers \ {u} :
              transfer'[v] = transfer[v] \/ Same(transfer[v], transfer'[v])
        BY <1>4, CopyFacts
  <2>2. transfer'[u].pc # "use"
        BY <2>1 DEF AfterSave
  <2> QED
      BY <2>1, <2>2 DEF Aside, At, Same
<1>5. ASSUME NEW u \in Transfers, NEW seen,
             TemplateStep(u, {"fill"}, seen) \/ TemplateStep(u, {"up"}, seen)
                \/ TemplateStep(u, {"start"}, seen),
             UNCHANGED <<machine, novnc>>
      PROVE  Aside
      BY <1>5 DEF TemplateStep, Aside, At, Seen, Same
<1>6. ASSUME NEW u \in Transfers, CreateTemplate(u) PROVE Aside
      BY <1>5, <1>6, CreateTemplateFacts
<1>7. ASSUME NEW u \in Transfers, FillTemplate(u) PROVE Aside
      BY <1>5, <1>7, FillTemplateFacts
<1>8. ASSUME NEW u \in Transfers, GenerateTemplate(u) PROVE Aside
      BY <1>5, <1>8, GenerateFacts
<1> QED
    BY <1>1, <1>2, <1>3, <1>4, <1>6, <1>7, <1>8

LEMMA FirstDisplay ==
    ASSUME UploadTypeOK, DisplayInv, NEW n \in Names, port[n] # NoPort,
           \A m \in Names : m < n => display[m] = NoPort
    PROVE  DetectedPort = port[n]
<1> DEFINE shown == {m \in Names : display[m] # NoPort}
<1>1. Names \in SUBSET Nat
      BY UploadAssumption
<1>2. shown \in SUBSET Nat /\ n \in shown
      BY <1>1 DEF DisplayInv
<1>3. Min(shown) \in shown /\ Min(shown) <= n
      BY <1>2, MinIsLeast
<1>4. DetectedPort = display[Min(shown)]
      BY <1>2 DEF DetectedPort
<1>5. ~(Min(shown) < n) /\ Min(shown) \in Nat /\ n \in Nat
  <2>1. Min(shown) \in Names /\ display[Min(shown)] # NoPort
        BY <1>3
  <2> HIDE DEF shown
  <2> QED
      BY <1>1, <2>1
<1> HIDE DEF shown
<1>6. Min(shown) = n
      BY <1>3, <1>5
<1> QED
    BY <1>4, <1>6 DEF DisplayInv

PortInv == DisplayInv /\ FoundInv

(* A machine that changes is seen to by those that have detected a port,   *)
(* unless it comes later than theirs.                                      *)
LEMMA MoveKeeps ==
    ASSUME UploadTypeOK, PortInv, NEW m \in Names, Moves(m), DisplayInv',
           found' = found,
           \A n \in Names \ {m} : port'[n] = port[n] /\ display'[n] = display[n],
           \A u \in Transfers :
              At(u, "use")' => At(u, "use") /\ transfer'[u].name = transfer[u].name
    PROVE  FoundInv'
<1> SUFFICES ASSUME NEW u \in Transfers, NEW n, n = transfer'[u].name,
                    At(u, "use")', u \notin moved',
                    port'[n] # NoPort,
                    \A k \in Names : k < n => display'[k] = NoPort
             PROVE  found'[u] = port'[n]
    BY DEF FoundInv
<1>1. At(u, "use") /\ transfer[u].name = n /\ n \in Names
      BY FieldTypes
<1>2. u \notin moved /\ ~(m <= n)
      BY <1>1 DEF Moves
<1>3. m \in Nat /\ n \in Nat
      BY <1>1, UploadAssumption
<1>4. n # m /\ \A k \in Names : k < n => k # m
      BY <1>2, <1>3
<1>5. port[n] = port'[n] /\ \A k \in Names : k < n => display[k] = NoPort
      BY <1>1, <1>4
<1> QED
    BY <1>1, <1>2, <1>5 DEF PortInv, FoundInv

LEMMA LaunchChanges ==
    ASSUME MachineOK, NEW n \in Names, Launch(n)
    PROVE  \A m \in Names \ {n} : port'[m] = port[m] /\ display'[m] = display[m]
BY DEF Launch, MachineOK

LEMMA PortStep ==
    UploadInv /\ PortInv /\ [UploadNext]_uvars => PortInv'
<1> SUFFICES ASSUME UploadInv, PortInv, [UploadNext]_uvars PROVE PortInv'
    OBVIOUS
<1>0. UploadTypeOK /\ PlaceInv /\ MachineOK /\ DisplayInv /\ FoundInv
      BY TypeParts DEF UploadInv, PortInv
<1>1. ASSUME UNCHANGED <<machine, novnc>>,
             \A u \in Transfers : At(u, "use")' =>
                At(u, "use") /\ transfer'[u].name = transfer[u].name
      PROVE  PortInv'
  <2>1. DisplayInv'
        BY <1>0, <1>1 DEF DisplayInv, machine
  <2>2. FoundInv'
        BY <1>0, <1>1 DEF FoundInv, machine, novnc
  <2> QED
      BY <2>1, <2>2 DEF PortInv
<1>2. ASSUME Aside PROVE PortInv'
      BY <1>1, <1>2 DEF Aside
<1>3. ASSUME NEW n \in Names, Outside(n) PROVE PortInv'
  <2>1. /\ found' = found /\ Moves(n) /\ transfer' = transfer
        BY <1>3 DEF Outside, OutsideStart, OutsideStop, OutsideDelete, novnc
  <2>2. DisplayInv'
    <3>1. CASE OutsideStart(n)
          BY <1>0, <3>1, LaunchShows DEF OutsideStart
    <3>2. CASE OutsideStop(n) \/ OutsideDelete(n)
          BY <1>0, <3>2 DEF OutsideStop, OutsideDelete, MachineOK, DisplayInv
    <3> QED
        BY <1>3, <3>1, <3>2 DEF Outside
  <2>3. \A m \in Names \ {n} : port'[m] = port[m] /\ display'[m] = display[m]
    <3>1. CASE OutsideStart(n)
          BY <1>0, <3>1, LaunchChanges DEF OutsideStart
    <3>2. CASE OutsideStop(n) \/ OutsideDelete(n)
          BY <1>0, <3>2 DEF OutsideStop, OutsideDelete, MachineOK
    <3> QED
        BY <1>3, <3>1, <3>2 DEF Outside
  <2>4. FoundInv'
        BY <1>0, <2>1, <2>2, <2>3, MoveKeeps DEF At
  <2> QED
      BY <2>2, <2>4 DEF PortInv
<1>4. ASSUME NEW u \in Transfers, Quiets(u) PROVE PortInv'
  <2>1. /\ \A v \in Transfers \ {u} : transfer'[v] = transfer[v]
        /\ transfer'[u].pc = "use" => DetectPort(u) /\ ~End(u)
    <3>1. ASSUME End(u) PROVE /\ transfer'[u].pc = "done"
                              /\ \A v \in Transfers \ {u} : transfer'[v] = transfer[v]
          BY <1>0, <3>1, EndFacts
    <3>2. ASSUME NEW pc \in Work, Goto(u, pc)
          PROVE  /\ transfer'[u].pc = pc
                 /\ \A v \in Transfers \ {u} : transfer'[v] = transfer[v]
          BY <1>0, <3>2, GotoFacts
    <3>3. {"save", "detect", "use"} \subseteq Work
          BY DEF Work, AfterOpen
    <3>4. CASE End(u)
          BY <3>1, <3>4
    <3>5. CASE ~End(u) /\ PrepareLimaUp(u)
          BY <1>0, <3>5, PrepareFacts
    <3>6. CASE ~End(u) /\ StartVm(u)
      <4>1. Goto(u, "detect")
            BY <1>0, <3>6, StartedFacts
      <4> QED
          BY <3>2, <3>3, <4>1
    <3>7. CASE ~End(u) /\ Download(u)
      <4>1. Goto(u, "save")
            BY <3>7 DEF Download
      <4> QED
          BY <3>2, <3>3, <4>1
    <3>8. CASE ~End(u) /\ DetectPort(u)
      <4>1. Goto(u, "use")
            BY <3>8 DEF DetectPort
      <4> QED
          BY <3>2, <3>3, <3>8, <4>1
    <3>9. ~End(u) => ~UsePort(u) /\ ~UsePortFails(u)
          BY DEF UsePort, UsePortFails
    <3> QED
        BY <1>4, <3>4, <3>5, <3>6, <3>7, <3>8, <3>9 DEF Quiets
  <2>2. CASE StartVm(u)
    <3>1. /\ UNCHANGED novnc /\ transfer[u].name \in Names
          /\ \/ UNCHANGED machine
             \/ Launch(transfer[u].name) /\ Moves(transfer[u].name)
          BY <1>0, <2>2, StartedFacts
    <3>2. transfer'[u].pc # "use"
      <4>1. transfer[u].pc = "start" /\ (Goto(u, "detect") \/ End(u))
            BY <1>0, <2>2, StartedFacts
      <4>2. "detect" \in Work
            BY DEF Work, AfterOpen
      <4> QED
          BY <1>0, <4>1, <4>2, GotoFacts, EndFacts
    <3>3. \A v \in Transfers : At(v, "use")' =>
             At(v, "use") /\ transfer'[v].name = transfer[v].name
          BY <2>1, <3>2 DEF At
    <3>4. CASE UNCHANGED machine
          BY <1>1, <3>1, <3>3, <3>4
    <3>5. CASE Launch(transfer[u].name) /\ Moves(transfer[u].name)
      <4>1. DisplayInv'
            BY <1>0, <3>1, <3>5, LaunchShows
      <4>2. \A m \in Names \ {transfer[u].name} :
               port'[m] = port[m] /\ display'[m] = display[m]
            BY <1>0, <3>1, <3>5, LaunchChanges
      <4>3. FoundInv'
            BY <1>0, <3>1, <3>3, <3>5, <4>1, <4>2, MoveKeeps DEF novnc
      <4> QED
          BY <4>1, <4>3 DEF PortInv
    <3> QED
        BY <3>1, <3>4, <3>5
  <2>3. CASE DetectPort(u)
    <3>1. UNCHANGED machine /\ DisplayInv'
          BY <1>0, <2>3 DEF DetectPort, machine, DisplayInv
    <3>2. /\ \A v \in Transfers \ {u} : found'[v] = found[v]
          /\ ~End(u) => found'[u] = DetectedPort /\ Goto(u, "use")
          BY <1>0, <2>3 DEF DetectPort, UploadTypeOK
    <3>3. ASSUME NEW v \in Transfers, NEW n, n = transfer'[v].name,
                 At(v, "use")', v \notin moved', port'[n] # NoPort,
                 \A k \in Names : k < n => display'[k] = NoPort
          PROVE  found'[v] = port'[n]
      <4>1. CASE v # u
            BY <1>0, <2>1, <3>1, <3>2, <3>3, <4>1 DEF FoundInv, At, machine
      <4>2. CASE v = u
        <5>1. ~End(u) /\ Goto(u, "use") /\ found'[u] = DetectedPort
              BY <2>1, <3>2, <3>3, <4>2 DEF At
        <5>2. "use" \in Work
              BY DEF Work, AfterOpen
        <5>3. n = transfer[u].name /\ n \in Names
              BY <1>0, <3>3, <4>2, <5>1, <5>2, GotoFacts, FieldTypes
        <5>4. DetectedPort = port[n]
              BY <1>0, <3>1, <3>3, <5>3, FirstDisplay DEF machine
        <5> QED
            BY <3>1, <4>2, <5>1, <5>4 DEF machine
      <4> QED
          BY <4>1, <4>2
    <3> QED
        BY <3>1, <3>3 DEF PortInv, FoundInv
  <2>4. CASE UsePort(u) \/ UsePortFails(u)
    <3>1. /\ UNCHANGED <<port, display>> /\ End(u) /\ moved' = moved \ {u}
          /\ found' = [found EXCEPT ![u] = NoPort]
          BY <2>4 DEF UsePort, UsePortFails
    <3>2. DisplayInv'
          BY <1>0, <3>1 DEF DisplayInv
    <3>3. ASSUME NEW v \in Transfers, At(v, "use")' PROVE v # u
          BY <1>0, <3>1, <3>3, EndFacts DEF At
    <3>4. FoundInv'
          BY <1>0, <2>1, <3>1, <3>3 DEF FoundInv, At, UploadTypeOK
    <3> QED
        BY <3>2, <3>4 DEF PortInv
  <2>5. CASE Download(u) \/ PrepareLimaUp(u)
    <3>1. UNCHANGED <<machine, novnc>> /\ ~DetectPort(u)
          BY <2>5 DEF Download, PrepareLimaUp, DetectPort, At
    <3> QED
        BY <1>1, <2>1, <3>1 DEF At
  <2> QED
      BY <1>4, <2>2, <2>3, <2>4, <2>5 DEF Quiets
<1>5. ASSUME UploadCrash PROVE PortInv'
  <2>1. DisplayInv'
        BY <1>0, <1>5 DEF UploadCrash, DisplayInv
  <2>2. ASSUME NEW u \in Transfers PROVE ~At(u, "use")'
    <3>1. transfer[u] \in Transfer /\ "use" \in Work
          BY <1>0, FieldTypes DEF Work, AfterOpen
    <3>2. CASE transfer[u].pc \in Work
      <4>1. transfer'[u] = Done(transfer[u])
            BY <1>5, <3>2 DEF UploadCrash
      <4> QED
          BY <3>1, <4>1, DoneFacts DEF At
    <3>3. CASE transfer[u].pc \notin Work
      <4>1. transfer'[u] = transfer[u]
            BY <1>5, <3>3 DEF UploadCrash
      <4> QED
          BY <3>1, <3>3, <4>1 DEF At
    <3> QED
        BY <3>2, <3>3
  <2> QED
      BY <2>1, <2>2 DEF PortInv, FoundInv
<1>6. ASSUME UNCHANGED uvars \/ Tick PROVE PortInv'
      BY <1>0, <1>2, <1>6, AsideSteps
<1>7. ASSUME NEW u \in Transfers, NEW f \in Files, NEW n \in Names,
             HandleUploadImage(u, f, n) \/ HandleFetchImage(u, f, n)
      PROVE  PortInv'
      BY <1>0, <1>2, <1>7, AsideSteps
<1>8. ASSUME NEW u \in Transfers,
             \/ CreateFile(u) \/ CopyFile(u) \/ CreateTemplate(u)
             \/ FillTemplate(u) \/ GenerateTemplate(u)
      PROVE  PortInv'
      BY <1>0, <1>2, <1>8, AsideSteps
<1> QED
    BY <1>3, <1>4, <1>5, <1>6, <1>7, <1>8, Cases

LEMMA PortInvariance == UploadSpec => []PortInv
<1>1. UploadInit => PortInv
  <2> SUFFICES ASSUME UploadInit PROVE PortInv
      OBVIOUS
  <2>1. \A u \in Transfers : ~At(u, "use")
        BY DEF UploadInit, Idle, At
  <2> QED
      BY <2>1 DEF UploadInit, PortInv, DisplayInv, FoundInv
<1> QED
    BY <1>1, PortStep, UploadInvariance, PTL DEF UploadSpec

(* With any number of instances, started, stopped and deleted by anybody,  *)
(* and any number of other lima-ups, lima-up leaves the noVNC bridge on    *)
(* the machine it has started when that has a display, no earlier instance *)
(* a vncdisplay file, and neither it nor an earlier one has changed since  *)
(* the port was detected.                                                  *)
THEOREM BridgeGoesToItsMachine == UploadSpec => BridgeFollowsLimaUp
<1> DEFINE Follows == \A u \in Transfers :
                LET n == transfer[u].name IN
                /\ UsePort(u) /\ u \notin moved
                /\ port[n] # NoPort
                /\ \A m \in Names : m < n => display[m] = NoPort
                => bridge' = port[n]
<1>1. ASSUME PortInv PROVE Follows
  <2>1. ASSUME NEW u \in Transfers, UsePort(u), u \notin moved,
               NEW n, n = transfer[u].name,
               port[n] # NoPort, \A m \in Names : m < n => display[m] = NoPort
        PROVE  bridge' = port[n]
    <3>1. At(u, "use") /\ bridge' = found[u]
          BY <2>1 DEF UsePort
    <3>2. found[u] = port[n]
          BY <1>1, <2>1, <3>1 DEF PortInv, FoundInv
    <3> QED
        BY <3>1, <3>2
  <2> QED
      BY <2>1
<1> HIDE DEF Follows
<1>2. PortInv => [Follows]_uvars
      BY <1>1
<1>3. UploadSpec => [][Follows]_uvars
      BY <1>2, PortInvariance, PTL
<1> QED
    BY <1>3 DEF BridgeFollowsLimaUp, Follows
=============================================================================
