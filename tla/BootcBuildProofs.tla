-------------------------- MODULE BootcBuildProofs --------------------------
(***************************************************************************)
(* Proofs about BootcBuild, for every set of builds and of VM names and    *)
(* every bound of the clock, and about BuildLog, for any length of a log.  *)
(***************************************************************************)
EXTENDS BuildLog, SequenceTheorems, TLAPS

Used(j) == job[j].pc # "unused"

(* What the place of its goroutine says of a build's status. *)
StatusInv ==
    \A j \in Jobs :
        LET q == job[j] IN
        /\ q.pc = "unused" => q.status = "none"
        /\ q.pc = "begin" => q.status = "pending"
        /\ q.pc \in Work \ {"begin"} => q.status = "running"
        /\ q.pc \in Cleanup \cup {"end"} => q.status \in Terminal

BeforeDisk == {"begin", "log", "derive", "allocate"}

(* No build that was requested shares the ID of j. *)
Alone(j) == \A k \in Jobs \ {j} : Used(k) => job[k].id # job[j].id

(* An ID without a build has no files; one with a single build has those   *)
(* that its goroutine has made and not yet removed, or could not remove.    *)
FreshInv ==
    \A d \in Ids :
        (\A j \in Jobs : Used(j) => job[j].id # d)
        => raw[d] = NoFile /\ image[d] = NoFile

Mine(j) ==
    LET q == job[j] IN
    /\ q.pc \in {"begin", "log", "derive"} => ~q.tagged
    /\ q.pc \in BeforeDisk => raw[q.id] = NoFile
    /\ q.pc \in {"save", "install"} => raw[q.id] = Blank
    /\ q.pc = "install" /\ q.tagged => oci[q.id] = j
    /\ q.pc = "convert" => raw[q.id] = j
    /\ q.pc \in {"create", "probe", "finish"} => qcow2[q.id] = j
    /\ q.pc \in {"rmImage", "end"} /\ raw[q.id] # NoFile
          => <<j, "raw">> \in kept \/ q.error = "truncate"
    /\ q.tagged /\ q.pc \in Work => image[q.id] = j
    /\ ~q.tagged /\ q.pc # "dead" => image[q.id] = NoFile
    /\ q.pc = "end" /\ image[q.id] # NoFile => <<j, "image">> \in kept
    /\ q.pc \in Work \cup Cleanup => builds[q.id] = j

WorkspaceInv == \A j \in Jobs : Used(j) /\ Alone(j) => Mine(j)

(* A VM name that one build has to itself: the VM is absent until limactl  *)
(* makes it from the build's own disk.                                     *)
OwnVm(j) ==
    LET q == job[j] IN
    /\ \A k \in Jobs \ {j} : Used(k) => job[k].name # q.name
    /\ q.name \in Names
    /\ q.pc \in Work \ {"probe", "finish"} => vm[q.name] = "absent"

OwnDisk(j) ==
    LET q == job[j] IN
    /\ q.pc \in {"probe", "finish"} /\ vm[q.name] # "absent" => made[j] = j
    /\ q.pc = "finish" \/ q.status = "complete" => made[j] = j

OwnVmInv ==
    \A j \in Jobs :
        Used(j) /\ job[j].own => OwnVm(j) /\ (Alone(j) => OwnDisk(j))

IndInv == TypeOK /\ StatusInv /\ FreshInv /\ WorkspaceInv /\ OwnVmInv

------------------------------------------------------------------------------
(* What a step of runBuild does to the record of its build *)

(* Only the build j changes, and of it no more than these fields. *)
Moves(j, pc, status, error, tagged) ==
    /\ job' \in [Jobs -> Job]
    /\ \A k \in Jobs \ {j} : job'[k] = job[k]
    /\ job'[j].pc = pc         /\ job'[j].status = status
    /\ job'[j].error = error   /\ job'[j].tagged = tagged
    /\ job'[j].id = job[j].id  /\ job'[j].name = job[j].name
    /\ job'[j].own = job[j].own

Goes(j, pc) == Moves(j, pc, job[j].status, job[j].error, job[j].tagged)
Fails(j, pc, error) == Moves(j, pc, "failed", error, job[j].tagged)

Records == job \in [Jobs -> Job]

LEMMA FieldTypes ==
  ASSUME Records, NEW j \in Jobs
  PROVE  /\ job[j].id \in Ids /\ job[j].pc \in Pcs
         /\ job[j].name \in Names \cup {NoJob}
         /\ job[j].custom \in BOOLEAN /\ job[j].tagged \in BOOLEAN
         /\ job[j].own \in BOOLEAN
         /\ job[j].status \in Statuses /\ job[j].error \in Errors
  BY DEF Records, Job

LEMMA GotoGoes ==
  ASSUME Records, NEW j \in Jobs, NEW pc \in Pcs, Goto(j, pc)
  PROVE  Goes(j, pc)
  BY FieldTypes DEF Records, Goto, Goes, Moves, Job

LEMMA FailFails ==
  ASSUME Records, NEW j \in Jobs, NEW pc \in Pcs, job[j].pc \in Work,
         Fail(j, pc)
  PROVE  Fails(j, pc, Message(job[j].pc))
<1> DEFINE q == [job[j] EXCEPT !.status = "failed",
                               !.error = Message(job[j].pc), !.pc = pc]
<1>1. q \in Job
  <2>1. Message(job[j].pc) \in Errors /\ "failed" \in Statuses
    BY DEF Statuses, Message, Errors
  <2> QED
    BY <2>1, FieldTypes DEF Records, Job
<1>2. job' = [job EXCEPT ![j] = q]
  BY DEF Records, Fail
<1>3. /\ q.pc = pc /\ q.status = "failed" /\ q.error = Message(job[j].pc)
      /\ q.id = job[j].id /\ q.name = job[j].name /\ q.own = job[j].own
      /\ q.tagged = job[j].tagged
  BY DEF Records, Job
<1> HIDE DEF q
<1> QED
  BY <1>1, <1>2, <1>3 DEF Records, Fails, Moves

LEMMA UpdateMoves ==
  ASSUME Records, NEW j \in Jobs, NEW q \in Job,
         job' = [job EXCEPT ![j] = q],
         q.id = job[j].id, q.name = job[j].name, q.own = job[j].own
  PROVE  Moves(j, q.pc, q.status, q.error, q.tagged)
  BY DEF Records, Moves

(* The four steps that set more than the place, or a status of their own. *)
LEMMA BeginMoves ==
  ASSUME Records, NEW j \in Jobs, Begin(j)
  PROVE  Moves(j, "log", "running", job[j].error, job[j].tagged)
<1> DEFINE q == [job[j] EXCEPT !.status = "running", !.pc = "log"]
<1>1. q \in Job
  <2>1. "running" \in Statuses /\ "log" \in Pcs
    BY DEF Pcs, Work, Cleanup, Statuses
  <2> QED
    BY <2>1, FieldTypes DEF Records, Job
<1>2. job' = [job EXCEPT ![j] = q]
  BY DEF Records, Begin
<1>3. /\ q.pc = "log" /\ q.status = "running" /\ q.error = job[j].error
      /\ q.tagged = job[j].tagged /\ q.id = job[j].id
      /\ q.name = job[j].name /\ q.own = job[j].own
  BY DEF Records, Job
<1> HIDE DEF q
<1> QED
  BY <1>1, <1>2, <1>3, UpdateMoves

LEMMA DeriveMoves ==
  ASSUME Records, NEW j \in Jobs,
         job' = [job EXCEPT ![j] = [@ EXCEPT !.tagged = TRUE, !.pc = "allocate"]]
  PROVE  Moves(j, "allocate", job[j].status, job[j].error, TRUE)
<1> DEFINE q == [job[j] EXCEPT !.tagged = TRUE, !.pc = "allocate"]
<1>1. q \in Job
  <2>1. "allocate" \in Pcs
    BY DEF Pcs, Work, Cleanup, Statuses
  <2> QED
    BY <2>1, FieldTypes DEF Records, Job
<1>2. job' = [job EXCEPT ![j] = q]
  BY DEF Records
<1>3. /\ q.pc = "allocate" /\ q.status = job[j].status /\ q.error = job[j].error
      /\ q.tagged = TRUE /\ q.id = job[j].id
      /\ q.name = job[j].name /\ q.own = job[j].own
  BY DEF Records, Job
<1> HIDE DEF q
<1> QED
  BY <1>1, <1>2, <1>3, UpdateMoves

LEMMA ProbeFails ==
  ASSUME Records, NEW j \in Jobs,
         job' = [job EXCEPT ![j] = [@ EXCEPT !.status = "failed",
                                             !.error = "other", !.pc = "rmRaw"]]
  PROVE  Fails(j, "rmRaw", "other")
<1> DEFINE q == [job[j] EXCEPT !.status = "failed", !.error = "other",
                               !.pc = "rmRaw"]
<1>1. q \in Job
  <2>1. /\ "failed" \in Statuses /\ "rmRaw" \in Pcs
         /\ "other" \in Errors
    BY DEF Pcs, Work, Cleanup, Statuses, Errors
  <2> QED
    BY <2>1, FieldTypes DEF Records, Job
<1>2. job' = [job EXCEPT ![j] = q]
  BY DEF Records
<1>3. /\ q.pc = "rmRaw" /\ q.status = "failed" /\ q.error = "other"
      /\ q.tagged = job[j].tagged /\ q.id = job[j].id
      /\ q.name = job[j].name /\ q.own = job[j].own
  BY DEF Records, Job
<1> HIDE DEF q
<1> QED
  BY <1>1, <1>2, <1>3, UpdateMoves DEF Fails

LEMMA FinishMoves ==
  ASSUME Records, NEW j \in Jobs, Finish(j)
  PROVE  Moves(j, "rmRaw", "complete", job[j].error, job[j].tagged)
<1> DEFINE q == [job[j] EXCEPT !.status = "complete", !.pc = "rmRaw"]
<1>1. q \in Job
  <2>1. "complete" \in Statuses /\ "rmRaw" \in Pcs
    BY DEF Pcs, Work, Cleanup, Statuses
  <2> QED
    BY <2>1, FieldTypes DEF Records, Job
<1>2. job' = [job EXCEPT ![j] = q]
  BY DEF Records, Finish
<1>3. /\ q.pc = "rmRaw" /\ q.status = "complete" /\ q.error = job[j].error
      /\ q.tagged = job[j].tagged /\ q.id = job[j].id
      /\ q.name = job[j].name /\ q.own = job[j].own
  BY DEF Records, Job
<1> HIDE DEF q
<1> QED
  BY <1>1, <1>2, <1>3, UpdateMoves

(* The steps of runBuild in these terms, with their effect on the files of *)
(* the build's ID.                                                         *)
BeginEffect(j) ==
    /\ job[j].pc = "begin"
    /\ Moves(j, "log", "running", job[j].error, job[j].tagged)
    /\ raw' = raw /\ image' = image /\ oci' = oci /\ qcow2' = qcow2
    /\ vm' = vm /\ made' = made

CreateLogEffect(j) ==
    /\ job[j].pc = "log"
    /\ Goes(j, "derive") \/ Goes(j, "allocate") \/ Fails(j, "end", "other")
    /\ raw' = raw /\ image' = image /\ oci' = oci /\ qcow2' = qcow2
    /\ vm' = vm /\ made' = made

DeriveEffect(j) ==
    /\ job[j].pc = "derive"
    /\ \/ /\ image' = [image EXCEPT ![job[j].id] = j]
          /\ Moves(j, "allocate", job[j].status, job[j].error, TRUE)
       \/ image' = image /\ Fails(j, "end", "other")
    /\ raw' = raw /\ oci' = oci /\ qcow2' = qcow2 /\ vm' = vm /\ made' = made

AllocateEffect(j) ==
    LET d == job[j].id
        touched == [raw EXCEPT ![d] = IF raw[d] = NoFile THEN Blank ELSE raw[d]]
    IN  /\ job[j].pc = "allocate"
        /\ \/ /\ raw' = touched
              /\ Goes(j, IF job[j].tagged THEN "save" ELSE "install")
           \/ /\ raw' = raw \/ raw' = touched
              /\ Fails(j, AfterDisk(j), "truncate")
        /\ image' = image /\ oci' = oci /\ qcow2' = qcow2
        /\ vm' = vm /\ made' = made

SaveEffect(j) ==
    LET d == job[j].id IN
    /\ job[j].pc = "save"
    /\ \/ oci' = [oci EXCEPT ![d] = image[d]] /\ Goes(j, "install")
       \/ /\ oci' = oci \/ oci' = [oci EXCEPT ![d] = Blank]
          /\ Fails(j, "rmRaw", "other")
    /\ raw' = raw /\ image' = image /\ qcow2' = qcow2 /\ vm' = vm /\ made' = made

InstallEffect(j) ==
    LET d == job[j].id IN
    /\ job[j].pc = "install"
    /\ \/ /\ raw' = [raw EXCEPT ![d] = IF job[j].tagged THEN oci[d] ELSE j]
          /\ Goes(j, "convert")
       \/ /\ \/ raw' = raw
             \/ raw' = [raw EXCEPT ![d] = IF raw[d] = NoFile THEN raw[d]
                                         ELSE Blank]
          /\ Fails(j, "rmRaw", "other")
    /\ image' = image /\ oci' = oci /\ qcow2' = qcow2 /\ vm' = vm /\ made' = made

ConvertEffect(j) ==
    LET d == job[j].id IN
    /\ job[j].pc = "convert"
    /\ \/ qcow2' = [qcow2 EXCEPT ![d] = raw[d]] /\ Goes(j, "create")
       \/ /\ qcow2' = qcow2 \/ qcow2' = [qcow2 EXCEPT ![d] = Blank]
          /\ Fails(j, "rmRaw", "other")
    /\ raw' = raw /\ image' = image /\ oci' = oci /\ vm' = vm /\ made' = made

CreateEffect(j) ==
    LET n == job[j].name  d == job[j].id IN
    /\ job[j].pc = "create"
    /\ \/ /\ \E s \in {"Running", "Stopped"} : vm' = [vm EXCEPT ![n] = s]
          /\ made' = [made EXCEPT ![j] = qcow2[d]]
          /\ Goes(j, "finish") \/ Goes(j, "probe")
       \/ vm' = vm /\ made' = made /\ Goes(j, "probe")
    /\ raw' = raw /\ image' = image /\ oci' = oci /\ qcow2' = qcow2

ProbeEffect(j) ==
    /\ job[j].pc = "probe"
    /\ \/ vm[job[j].name] = "Running" /\ Goes(j, "finish")
       \/ Fails(j, "rmRaw", "other")
    /\ raw' = raw /\ image' = image /\ oci' = oci /\ qcow2' = qcow2
    /\ vm' = vm /\ made' = made

FinishEffect(j) ==
    /\ job[j].pc = "finish"
    /\ Moves(j, "rmRaw", "complete", job[j].error, job[j].tagged)
    /\ raw' = raw /\ image' = image /\ oci' = oci /\ qcow2' = qcow2
    /\ vm' = vm /\ made' = made

RemoveRawEffect(j) ==
    /\ job[j].pc = "rmRaw"
    /\ \/ raw' = [raw EXCEPT ![job[j].id] = NoFile]
       \/ raw' = raw /\ <<j, "raw">> \in kept'
    /\ Goes(j, AfterDisk(j))
    /\ image' = image /\ oci' = oci /\ qcow2' = qcow2 /\ vm' = vm /\ made' = made

RemoveImageEffect(j) ==
    /\ job[j].pc = "rmImage"
    /\ \/ image' = [image EXCEPT ![job[j].id] = NoFile]
       \/ image' = image /\ <<j, "image">> \in kept'
    /\ Goes(j, "end")
    /\ raw' = raw /\ oci' = oci /\ qcow2' = qcow2 /\ vm' = vm /\ made' = made

Effect(j) ==
    \/ BeginEffect(j)    \/ CreateLogEffect(j) \/ DeriveEffect(j)
    \/ AllocateEffect(j) \/ SaveEffect(j)      \/ InstallEffect(j)
    \/ ConvertEffect(j)  \/ CreateEffect(j)    \/ ProbeEffect(j)
    \/ FinishEffect(j)   \/ RemoveRawEffect(j) \/ RemoveImageEffect(j)

LEMMA StepEffect ==
  ASSUME TypeOK, NEW j \in Jobs, RunBuild(j)
  PROVE  Effect(j) /\ clock' = clock /\ builds' = builds
<1>0. Records /\ raw = [d \in Ids |-> raw[d]]
  BY DEF TypeOK, Records
<1> USE <1>0 DEF files, At, Message, Keep
<1>1. CASE Begin(j)
  BY <1>1, BeginMoves DEF Begin, BeginEffect, Effect, Pcs, Work, Cleanup
<1>2. CASE CreateLog(j)
  BY <1>2, GotoGoes, FailFails DEF CreateLog, CreateLogEffect, Effect, Pcs, Work, Cleanup
<1>3. CASE BuildDerivedImage(j)
  BY <1>3, DeriveMoves, FailFails DEF BuildDerivedImage, DeriveEffect, Effect, Pcs, Work, Cleanup
<1>4. CASE AllocateRaw(j)
  BY <1>4, GotoGoes, FailFails DEF AllocateRaw, AllocateEffect, Effect, Pcs, Work, Cleanup, AfterDisk
<1>5. CASE SaveImage(j)
  BY <1>5, GotoGoes, FailFails DEF SaveImage, SaveEffect, Effect, Pcs, Work, Cleanup
<1>6. CASE Install(j)
  BY <1>6, GotoGoes, FailFails DEF Install, InstallEffect, Effect, Pcs, Work, Cleanup
<1>7. CASE Convert(j)
  BY <1>7, GotoGoes, FailFails DEF Convert, ConvertEffect, Effect, Pcs, Work, Cleanup
<1>8. CASE CreateVm(j)
  BY <1>8, GotoGoes DEF CreateVm, CreateEffect, Effect, Pcs, Work, Cleanup
<1>9. CASE Probe(j)
  BY <1>9, GotoGoes, ProbeFails DEF Probe, ProbeEffect, Effect, Pcs, Work, Cleanup
<1>10. CASE Finish(j)
  BY <1>10, FinishMoves DEF Finish, FinishEffect, Effect, Pcs, Work, Cleanup
<1>11. CASE RemoveRaw(j)
  BY <1>11, GotoGoes DEF RemoveRaw, RemoveRawEffect, Effect, Pcs, Work, Cleanup, AfterDisk
<1>12. CASE RemoveImage(j)
  BY <1>12, GotoGoes DEF RemoveImage, RemoveImageEffect, Effect, Pcs, Work, Cleanup
<1> QED
  BY RunBuild(j), <1>1, <1>2, <1>3, <1>4, <1>5, <1>6, <1>7, <1>8, <1>9,
     <1>10, <1>11, <1>12 DEF RunBuild

(* What could not be removed is not forgotten. *)
LEMMA KeptGrows ==
  ASSUME TypeOK, NEW j \in Jobs, RunBuild(j)
  PROVE  kept \subseteq kept' /\ kept' \subseteq Jobs \X {"raw", "image"}
<1>1. CASE kept' = kept
  BY <1>1 DEF TypeOK
<1>2. CASE kept' = kept \cup {<<j, "raw">>} \/ kept' = kept \cup {<<j, "image">>}
  BY <1>2 DEF TypeOK
<1> QED
  BY <1>1, <1>2
  DEF RunBuild, Begin, CreateLog, BuildDerivedImage, AllocateRaw, SaveImage,
      Install, Convert, CreateVm, Probe, Finish, RemoveRaw, RemoveImage, Keep

------------------------------------------------------------------------------
(* TypeOK *)

LEMMA InitTyped == Init => TypeOK
  BY BuildAssumption
  DEF Init, TypeOK, Ids, Content, Job, Unused, Pcs, Work, Cleanup, Statuses,
      Errors

LEMMA RunBuildTyped ==
  ASSUME TypeOK, NEW j \in Jobs, RunBuild(j)
  PROVE  TypeOK'
<1>1. /\ Records /\ job[j].id \in Ids
      /\ job[j].name \in Names \cup {NoJob}
  BY FieldTypes DEF TypeOK, Records
<1>2. job' \in [Jobs -> Job]
  BY <1>1, StepEffect
  DEF Effect, Goes, Fails, Moves, BeginEffect, CreateLogEffect, DeriveEffect, AllocateEffect,
      SaveEffect, InstallEffect, ConvertEffect, CreateEffect,
      ProbeEffect, FinishEffect, RemoveRawEffect, RemoveImageEffect
<1>3. raw' \in [Ids -> Content]
  <2>1. CASE AllocateEffect(j)
    BY <1>1, <2>1 DEF TypeOK, Content, AllocateEffect
  <2>2. CASE InstallEffect(j)
    BY <1>1, <2>2 DEF TypeOK, Content, InstallEffect
  <2>3. CASE RemoveRawEffect(j)
    BY <1>1, <2>3 DEF TypeOK, Content, RemoveRawEffect
  <2>4. CASE raw' = raw
    BY <2>4 DEF TypeOK
  <2> QED
    BY <2>1, <2>2, <2>3, <2>4, StepEffect
    DEF Effect, BeginEffect, CreateLogEffect, DeriveEffect, SaveEffect,
        ConvertEffect, CreateEffect, ProbeEffect, FinishEffect,
        RemoveImageEffect
<1>4. image' \in [Ids -> Content]
  <2>1. CASE DeriveEffect(j)
    BY <1>1, <2>1 DEF TypeOK, Content, DeriveEffect
  <2>2. CASE RemoveImageEffect(j)
    BY <1>1, <2>2 DEF TypeOK, Content, RemoveImageEffect
  <2>3. CASE image' = image
    BY <2>3 DEF TypeOK
  <2> QED
    BY <2>1, <2>2, <2>3, StepEffect
    DEF Effect, BeginEffect, CreateLogEffect, AllocateEffect, SaveEffect,
        InstallEffect, ConvertEffect, CreateEffect, ProbeEffect,
        FinishEffect, RemoveRawEffect
<1>5. oci' \in [Ids -> Content]
  BY <1>1, StepEffect
  DEF TypeOK, Content, Effect, BeginEffect, CreateLogEffect, DeriveEffect, AllocateEffect,
      SaveEffect, InstallEffect, ConvertEffect, CreateEffect,
      ProbeEffect, FinishEffect, RemoveRawEffect, RemoveImageEffect
<1>6. qcow2' \in [Ids -> Content]
  BY <1>1, StepEffect
  DEF TypeOK, Content, Effect, BeginEffect, CreateLogEffect, DeriveEffect, AllocateEffect,
      SaveEffect, InstallEffect, ConvertEffect, CreateEffect,
      ProbeEffect, FinishEffect, RemoveRawEffect, RemoveImageEffect
<1>7. /\ vm' \in [Names -> {"absent", "Stopped", "Running"}]
      /\ made' \in [Jobs -> Content]
  BY <1>1, StepEffect
  DEF TypeOK, Effect, BeginEffect, CreateLogEffect, DeriveEffect, AllocateEffect,
      SaveEffect, InstallEffect, ConvertEffect, CreateEffect,
      ProbeEffect, FinishEffect, RemoveRawEffect, RemoveImageEffect
<1> QED
  BY <1>2, <1>3, <1>4, <1>5, <1>6, <1>7, StepEffect, KeptGrows DEF TypeOK

(* Sharing a name clears flags and nothing else. *)
LEMMA SharedTyped ==
  ASSUME Records, NEW n
  PROVE  /\ Shared(n) \in [Jobs -> Job]
         /\ \A k \in Jobs :
               /\ Shared(n)[k].pc = job[k].pc
               /\ Shared(n)[k].id = job[k].id
               /\ Shared(n)[k].name = job[k].name
               /\ Shared(n)[k].tagged = job[k].tagged
               /\ Shared(n)[k].status = job[k].status
               /\ Shared(n)[k].error = job[k].error
               /\ Shared(n)[k].own => job[k].own /\ job[k].name # n
               /\ job[k].name # n => Shared(n)[k] = job[k]
  BY DEF Records, Shared, Job

LEMMA PendingTyped ==
  ASSUME TypeOK, NEW n \in Names, NEW c \in BOOLEAN
  PROVE  Pending(clock, n, c) \in Job
<1> DEFINE own == vm[n] = "absent" /\ ~Claimed(n)
<1>1. own \in BOOLEAN
  BY DEF Claimed
<1> HIDE DEF own
<1>2. Pending(clock, n, c) =
         [Unused EXCEPT !.pc = "begin", !.id = clock, !.name = n,
                        !.custom = c, !.status = "pending", !.own = own]
  BY DEF Pending, own
<1> QED
  BY <1>1, <1>2 DEF TypeOK, Unused, Job, Pcs, Work, Cleanup, Statuses, Errors

(* What a crash does to the records. *)
LEMMA CrashTyped ==
  ASSUME Records, Crash
  PROVE  /\ job' \in [Jobs -> Job]
         /\ \A k \in Jobs :
               \/ job[k].pc \in {"unused", "end"} /\ job'[k] = job[k]
               \/ /\ job[k].pc \notin {"unused", "end"}
                  /\ job'[k] = [job[k] EXCEPT !.pc = "dead"]
  BY DEF Records, Crash, Job, Pcs

LEMMA TypeStep == TypeOK /\ [Next]_vars => TypeOK'
<1> SUFFICES ASSUME TypeOK, [Next]_vars PROVE TypeOK'
  OBVIOUS
<1>0. Records
  BY DEF TypeOK, Records
<1>1. CASE Tick
  BY <1>1, BuildAssumption DEF TypeOK, Tick, files, Ids
<1>2. ASSUME NEW j \in Jobs, NEW n \in Names, NEW c \in BOOLEAN,
             StartBuild(j, n, c)
      PROVE  TypeOK'
  <2>1. job' \in [Jobs -> Job]
    BY <1>0, <1>2, SharedTyped, PendingTyped DEF StartBuild
  <2> QED
    BY <1>2, <2>1 DEF TypeOK, StartBuild, files
<1>3. ASSUME NEW j \in Jobs, RunBuild(j)
      PROVE  TypeOK'
  BY <1>3, RunBuildTyped
<1>4. ASSUME NEW n \in Names, Outside(n)
      PROVE  TypeOK'
  BY <1>0, <1>4, SharedTyped DEF TypeOK, Outside, files
<1>5. CASE Crash
  BY <1>0, <1>5, CrashTyped DEF TypeOK, Crash, files
<1>6. CASE UNCHANGED vars
  BY <1>6 DEF TypeOK, vars, files
<1> QED
  BY <1>1, <1>2, <1>3, <1>4, <1>5, <1>6 DEF Next

------------------------------------------------------------------------------
(* Frames *)

(* A step of runBuild leaves other builds, their files and their VM alone. *)
LEMMA RunBuildIsLocal ==
  ASSUME TypeOK, NEW j \in Jobs, RunBuild(j)
  PROVE  /\ job[j].pc \in Work \cup Cleanup
         /\ job'[j].pc \in (Work \ {"begin"}) \cup Cleanup \cup {"end"}
         /\ job'[j].id = job[j].id /\ job'[j].name = job[j].name
         /\ job'[j].own = job[j].own
         /\ \A k \in Jobs \ {j} : job'[k] = job[k] /\ made'[k] = made[k]
         /\ \A d \in Ids \ {job[j].id} :
               /\ raw'[d] = raw[d] /\ image'[d] = image[d]
               /\ oci'[d] = oci[d] /\ qcow2'[d] = qcow2[d]
         /\ \A n \in Names \ {job[j].name} : vm'[n] = vm[n]
<1>0. Records /\ job[j].id \in Ids
  BY FieldTypes DEF TypeOK, Records
<1>1. /\ job[j].pc \in Work \cup Cleanup
      /\ job'[j].pc \in (Work \ {"begin"}) \cup Cleanup \cup {"end"}
  BY <1>0, StepEffect
  DEF Work, Cleanup, AfterDisk, Goes, Fails, Moves, Effect, BeginEffect, CreateLogEffect, DeriveEffect, AllocateEffect,
      SaveEffect, InstallEffect, ConvertEffect, CreateEffect,
      ProbeEffect, FinishEffect, RemoveRawEffect, RemoveImageEffect
<1>2. /\ job'[j].id = job[j].id /\ job'[j].name = job[j].name
      /\ job'[j].own = job[j].own
      /\ \A k \in Jobs \ {j} : job'[k] = job[k]
  BY <1>0, StepEffect
  DEF Goes, Fails, Moves, Effect, BeginEffect, CreateLogEffect, DeriveEffect, AllocateEffect,
      SaveEffect, InstallEffect, ConvertEffect, CreateEffect,
      ProbeEffect, FinishEffect, RemoveRawEffect, RemoveImageEffect
<1>3. \A k \in Jobs \ {j} : made'[k] = made[k]
  BY <1>0, StepEffect
  DEF TypeOK, Effect, BeginEffect, CreateLogEffect, DeriveEffect, AllocateEffect,
      SaveEffect, InstallEffect, ConvertEffect, CreateEffect,
      ProbeEffect, FinishEffect, RemoveRawEffect, RemoveImageEffect
<1>4. \A n \in Names \ {job[j].name} : vm'[n] = vm[n]
  BY <1>0, StepEffect
  DEF TypeOK, Effect, BeginEffect, CreateLogEffect, DeriveEffect, AllocateEffect,
      SaveEffect, InstallEffect, ConvertEffect, CreateEffect,
      ProbeEffect, FinishEffect, RemoveRawEffect, RemoveImageEffect
<1>5. \A d \in Ids \ {job[j].id} : raw'[d] = raw[d]
  BY <1>0, StepEffect
  DEF TypeOK, Effect, BeginEffect, CreateLogEffect, DeriveEffect, AllocateEffect,
      SaveEffect, InstallEffect, ConvertEffect, CreateEffect,
      ProbeEffect, FinishEffect, RemoveRawEffect, RemoveImageEffect
<1>6. \A d \in Ids \ {job[j].id} : image'[d] = image[d]
  BY <1>0, StepEffect
  DEF TypeOK, Effect, BeginEffect, CreateLogEffect, DeriveEffect, AllocateEffect,
      SaveEffect, InstallEffect, ConvertEffect, CreateEffect,
      ProbeEffect, FinishEffect, RemoveRawEffect, RemoveImageEffect
<1>7. \A d \in Ids \ {job[j].id} : oci'[d] = oci[d]
  BY <1>0, StepEffect
  DEF TypeOK, Effect, BeginEffect, CreateLogEffect, DeriveEffect, AllocateEffect,
      SaveEffect, InstallEffect, ConvertEffect, CreateEffect,
      ProbeEffect, FinishEffect, RemoveRawEffect, RemoveImageEffect
<1>8. \A d \in Ids \ {job[j].id} : qcow2'[d] = qcow2[d]
  BY <1>0, StepEffect
  DEF TypeOK, Effect, BeginEffect, CreateLogEffect, DeriveEffect, AllocateEffect,
      SaveEffect, InstallEffect, ConvertEffect, CreateEffect,
      ProbeEffect, FinishEffect, RemoveRawEffect, RemoveImageEffect
<1> QED
  BY <1>1, <1>2, <1>3, <1>4, <1>5, <1>6, <1>7, <1>8

(* A build that has at most lost its flag, when another asked for its name. *)
SharedOnly(k, n) ==
    /\ job'[k].pc = job[k].pc          /\ job'[k].id = job[k].id
    /\ job'[k].name = job[k].name      /\ job'[k].tagged = job[k].tagged
    /\ job'[k].status = job[k].status  /\ job'[k].error = job[k].error
    /\ job'[k].own => job[k].own /\ job[k].name # n

(* A request makes a pending build; the others lose at most a flag. *)
LEMMA StartBuildIsLocal ==
  ASSUME TypeOK, NEW j \in Jobs, NEW n \in Names, NEW c \in BOOLEAN,
         StartBuild(j, n, c)
  PROVE  /\ ~Used(j)
         /\ job'[j].pc = "begin" /\ job'[j].id = clock /\ job'[j].name = n
         /\ job'[j].status = "pending" /\ job'[j].tagged = FALSE
         /\ job'[j].own => vm[n] = "absent" /\ ~Claimed(n)
<1>1. Records
  BY DEF TypeOK, Records
<1>2. /\ job' = [Shared(n) EXCEPT ![j] = Pending(clock, n, c)]
      /\ Shared(n) \in [Jobs -> Job] /\ job[j] = Unused
  BY <1>1, SharedTyped DEF StartBuild
<1>3. job'[j] = Pending(clock, n, c)
  BY <1>2
<1>4. ~Used(j)
  BY <1>2 DEF Unused, Used
<1>5. /\ job'[j].pc = "begin" /\ job'[j].id = clock /\ job'[j].name = n
      /\ job'[j].status = "pending" /\ job'[j].tagged = FALSE
      /\ job'[j].own => vm[n] = "absent" /\ ~Claimed(n)
  BY <1>3 DEF Pending, Unused
<1> QED
  BY <1>4, <1>5

LEMMA StartBuildPc ==
  ASSUME TypeOK, NEW j \in Jobs, NEW n \in Names, NEW c \in BOOLEAN,
         StartBuild(j, n, c)
  PROVE  job'[j].pc = "begin"
  BY StartBuildIsLocal

LEMMA StartBuildId ==
  ASSUME TypeOK, NEW j \in Jobs, NEW n \in Names, NEW c \in BOOLEAN,
         StartBuild(j, n, c)
  PROVE  job'[j].id = clock
  BY StartBuildIsLocal

LEMMA StartBuildName ==
  ASSUME TypeOK, NEW j \in Jobs, NEW n \in Names, NEW c \in BOOLEAN,
         StartBuild(j, n, c)
  PROVE  job'[j].name = n
  BY StartBuildIsLocal

LEMMA StartBuildShares ==
  ASSUME TypeOK, NEW j \in Jobs, NEW n \in Names, NEW c \in BOOLEAN,
         StartBuild(j, n, c), NEW k \in Jobs, k # j
  PROVE  SharedOnly(k, n)
<1>1. Records
  BY DEF TypeOK, Records
<1>2. /\ job' = [Shared(n) EXCEPT ![j] = Pending(clock, n, c)]
      /\ Shared(n) \in [Jobs -> Job]
  BY <1>1, SharedTyped DEF StartBuild
<1>3. job'[k] = Shared(n)[k]
  BY <1>2
<1> QED
  BY <1>1, <1>3, SharedTyped DEF SharedOnly

(* Someone else makes, starts, stops or deletes a VM. *)
LEMMA OutsideShares ==
  ASSUME TypeOK, NEW n \in Names, Outside(n), NEW k \in Jobs
  PROVE  \/ SharedOnly(k, n)
         \/ vm[n] # "absent" /\ job'[k] = job[k]
<1>1. Records
  BY DEF TypeOK, Records
<1>2. CASE vm[n] = "absent" /\ job' = Shared(n)
  BY <1>1, <1>2, SharedTyped DEF SharedOnly
<1>3. CASE vm[n] # "absent" /\ job' = job
  BY <1>3
<1> QED
  BY <1>2, <1>3 DEF Outside

------------------------------------------------------------------------------
(* StatusInv *)

LEMMA StatusStep == TypeOK /\ StatusInv /\ [Next]_vars => StatusInv'
<1> SUFFICES ASSUME TypeOK, StatusInv, [Next]_vars PROVE StatusInv'
  OBVIOUS
<1>0. Records
  BY DEF TypeOK, Records
<1>2. CASE Tick
  BY <1>2 DEF StatusInv, Tick
<1>3. ASSUME NEW j \in Jobs, NEW n \in Names, NEW c \in BOOLEAN,
             StartBuild(j, n, c)
      PROVE  StatusInv'
  <2>1. ASSUME NEW k \in Jobs \ {j}
        PROVE  job'[k].pc = job[k].pc /\ job'[k].status = job[k].status
    BY <1>3, <2>1, StartBuildShares DEF SharedOnly
  <2>2. job'[j].pc = "begin" /\ job'[j].status = "pending"
    BY <1>3, StartBuildIsLocal
  <2>3. "begin" \notin (Work \ {"begin"}) \cup Cleanup \cup {"unused", "end"}
    BY DEF Work, Cleanup
  <2> QED
    BY <2>1, <2>2, <2>3 DEF StatusInv
<1>4. ASSUME NEW j \in Jobs, RunBuild(j)
      PROVE  StatusInv'
  <2>0. /\ job[j].pc = "begin" => job[j].status = "pending"
        /\ job[j].pc \in Work \ {"begin"} => job[j].status = "running"
        /\ job[j].pc \in Cleanup \cup {"end"} => job[j].status \in Terminal
    BY DEF StatusInv
  <2>1. /\ job'[j].pc \in Work \ {"begin"} => job'[j].status = "running"
        /\ job'[j].pc \in Cleanup \cup {"end"} => job'[j].status \in Terminal
    <3> USE <1>0, <2>0 DEF Terminal, Work, Cleanup, Goes, Fails, Moves
    <3>1. CASE BeginEffect(j)
      BY <3>1 DEF BeginEffect
    <3>2. CASE CreateLogEffect(j)
      BY <3>2 DEF CreateLogEffect
    <3>3. CASE DeriveEffect(j)
      BY <3>3 DEF DeriveEffect
    <3>4. CASE AllocateEffect(j)
      BY <3>4 DEF AllocateEffect, AfterDisk
    <3>5. CASE SaveEffect(j)
      BY <3>5 DEF SaveEffect
    <3>6. CASE InstallEffect(j)
      BY <3>6 DEF InstallEffect
    <3>7. CASE ConvertEffect(j)
      BY <3>7 DEF ConvertEffect
    <3>8. CASE CreateEffect(j)
      BY <3>8 DEF CreateEffect
    <3>9. CASE ProbeEffect(j)
      BY <3>9 DEF ProbeEffect
    <3>10. CASE FinishEffect(j)
      BY <3>10 DEF FinishEffect
    <3>11. CASE RemoveRawEffect(j)
      BY <3>11 DEF RemoveRawEffect, AfterDisk
    <3>12. CASE RemoveImageEffect(j)
      BY <3>12 DEF RemoveImageEffect
    <3> QED
      BY <1>4, StepEffect, <3>1, <3>2, <3>3, <3>4, <3>5, <3>6,
         <3>7, <3>8, <3>9, <3>10, <3>11, <3>12 DEF Effect
  <2> QED
    BY <1>4, <2>1, RunBuildIsLocal DEF StatusInv, Work, Cleanup
<1>5. ASSUME NEW n \in Names, Outside(n)
      PROVE  StatusInv'
  <2>1. \A k \in Jobs :
           job'[k].pc = job[k].pc /\ job'[k].status = job[k].status
    BY <1>5, OutsideShares DEF SharedOnly
  <2> QED
    BY <2>1 DEF StatusInv
<1>6. CASE Crash
  BY <1>0, <1>6, CrashTyped DEF StatusInv, Work, Cleanup, Job
<1>7. CASE UNCHANGED vars
  BY <1>7 DEF StatusInv, vars
<1> QED
  BY <1>2, <1>3, <1>4, <1>5, <1>6, <1>7 DEF Next

------------------------------------------------------------------------------
(* FreshInv *)

(* A build that was requested keeps its ID and its name. *)
LEMMA UsedKept ==
  ASSUME TypeOK, [Next]_vars, NEW k \in Jobs, Used(k)
  PROVE  Used(k)' /\ job'[k].id = job[k].id /\ job'[k].name = job[k].name
<1>0. Records
  BY DEF TypeOK, Records
<1>1. ASSUME NEW j \in Jobs, NEW n \in Names, NEW c \in BOOLEAN,
             StartBuild(j, n, c)
      PROVE  Used(k)' /\ job'[k].id = job[k].id /\ job'[k].name = job[k].name
  <2>1. k # j
    BY <1>1, StartBuildIsLocal
  <2> QED
    BY <1>1, <2>1, StartBuildShares DEF SharedOnly, Used
<1>2. ASSUME NEW j \in Jobs, RunBuild(j)
      PROVE  Used(k)' /\ job'[k].id = job[k].id /\ job'[k].name = job[k].name
  <2>1. "unused" \notin (Work \ {"begin"}) \cup Cleanup \cup {"end"}
    BY DEF Work, Cleanup
  <2>2. CASE k = j
    BY <1>2, <2>1, <2>2, RunBuildIsLocal DEF Used
  <2>3. CASE k # j
    BY <1>2, <2>3, RunBuildIsLocal DEF Used
  <2> QED
    BY <2>2, <2>3
<1>3. ASSUME NEW n \in Names, Outside(n)
      PROVE  Used(k)' /\ job'[k].id = job[k].id /\ job'[k].name = job[k].name
  BY <1>3, OutsideShares DEF SharedOnly, Used
<1>4. CASE Crash
  BY <1>0, <1>4, CrashTyped DEF Used, Job
<1>5. CASE Tick \/ UNCHANGED vars
  BY <1>5 DEF Used, Tick, vars
<1> QED
  BY <1>1, <1>2, <1>3, <1>4, <1>5 DEF Next

(* So a build that is alone in its ID has been alone. *)
LEMMA AloneBefore ==
  ASSUME TypeOK, [Next]_vars, NEW j \in Jobs, Used(j), Alone(j)'
  PROVE  Alone(j)
  BY UsedKept DEF Alone, Used

LEMMA FreshStep == TypeOK /\ FreshInv /\ [Next]_vars => FreshInv'
<1> SUFFICES ASSUME TypeOK, FreshInv, [Next]_vars, NEW d \in Ids,
                    \A k \in Jobs : Used(k)' => job'[k].id # d
             PROVE  raw'[d] = NoFile /\ image'[d] = NoFile
  BY DEF FreshInv, Used
<1>1. \A k \in Jobs : Used(k) => job[k].id # d
  BY UsedKept
<1>2. raw[d] = NoFile /\ image[d] = NoFile
  BY <1>1 DEF FreshInv
<1>3. ASSUME NEW j \in Jobs, RunBuild(j)
      PROVE  raw'[d] = NoFile /\ image'[d] = NoFile
  <2>1. job[j].id # d
    BY <1>1, <1>3, RunBuildIsLocal DEF Used, Work, Cleanup
  <2> QED
    BY <1>2, <1>3, <2>1, RunBuildIsLocal
<1>4. CASE raw' = raw /\ image' = image
  BY <1>2, <1>4
<1> QED
  BY <1>3, <1>4 DEF Next, Tick, StartBuild, Outside, Crash, vars, files

------------------------------------------------------------------------------
(* WorkspaceInv *)

(* What Mine(j) speaks of stays as it is. *)
LEMMA MineFrame ==
  ASSUME NEW j \in Jobs, Mine(j),
         job'[j].pc = job[j].pc, job'[j].id = job[j].id,
         job'[j].tagged = job[j].tagged, job'[j].error = job[j].error,
         raw'[job[j].id] = raw[job[j].id],
         image'[job[j].id] = image[job[j].id],
         oci'[job[j].id] = oci[job[j].id],
         qcow2'[job[j].id] = qcow2[job[j].id],
         builds'[job[j].id] = builds[job[j].id],
         kept \subseteq kept'
  PROVE  Mine(j)'
  BY DEF Mine, BeforeDisk

(* The goroutine of a build that is alone in its ID. *)
LEMMA MineRuns ==
  ASSUME TypeOK, StatusInv, NEW j \in Jobs, Mine(j), RunBuild(j)
  PROVE  Mine(j)'
<1>1. /\ Records /\ job[j].id \in Ids /\ job[j].tagged \in BOOLEAN
      /\ job'[j].id = job[j].id /\ builds' = builds /\ kept \subseteq kept'
      /\ j # NoFile /\ Blank # NoFile
  BY FieldTypes, RunBuildIsLocal, StepEffect, KeptGrows, BuildAssumption
  DEF TypeOK, Records
<1>2. builds'[job[j].id] = j
  BY <1>1, RunBuildIsLocal DEF Mine
<1> USE <1>1, <1>2 DEF TypeOK, Mine, BeforeDisk, Work, Cleanup,
                       Goes, Fails, Moves
<1>3. CASE BeginEffect(j)
  BY <1>3 DEF BeginEffect
<1>4. CASE CreateLogEffect(j)
  BY <1>4 DEF CreateLogEffect
<1>5. CASE DeriveEffect(j)
  BY <1>5 DEF DeriveEffect
<1>6. CASE AllocateEffect(j)
  BY <1>6 DEF AllocateEffect, AfterDisk
<1>7. CASE SaveEffect(j)
  BY <1>7 DEF SaveEffect
<1>8. CASE InstallEffect(j)
  BY <1>8 DEF InstallEffect
<1>9. CASE ConvertEffect(j)
  BY <1>9 DEF ConvertEffect
<1>10. CASE CreateEffect(j)
  BY <1>10 DEF CreateEffect
<1>11. CASE ProbeEffect(j)
  BY <1>11 DEF ProbeEffect
<1>12. CASE FinishEffect(j)
  BY <1>12 DEF FinishEffect
<1>13. CASE RemoveRawEffect(j)
  BY <1>13 DEF RemoveRawEffect, AfterDisk
<1>14. CASE RemoveImageEffect(j)
  BY <1>14 DEF RemoveImageEffect
<1> QED
  BY StepEffect, <1>3, <1>4, <1>5, <1>6, <1>7, <1>8, <1>9, <1>10,
     <1>11, <1>12, <1>13, <1>14 DEF Effect

LEMMA WorkspaceStep ==
  TypeOK /\ StatusInv /\ FreshInv /\ WorkspaceInv /\ [Next]_vars
  => WorkspaceInv'
<1> SUFFICES ASSUME TypeOK, StatusInv, FreshInv, WorkspaceInv, [Next]_vars,
                    NEW j \in Jobs, Used(j)', Alone(j)'
             PROVE  Mine(j)'
  BY DEF WorkspaceInv
<1>0. Records /\ job[j].id \in Ids /\ clock \in Ids
  BY FieldTypes DEF TypeOK, Records
<1>a. ASSUME Used(j) PROVE Mine(j)
  BY <1>a, AloneBefore DEF WorkspaceInv
<1>1. ASSUME NEW k \in Jobs, NEW n \in Names, NEW c \in BOOLEAN,
             StartBuild(k, n, c)
      PROVE  Mine(j)'
  <2>1. /\ builds' = [builds EXCEPT ![clock] = k] /\ raw' = raw
        /\ image' = image /\ oci' = oci /\ qcow2' = qcow2
        /\ kept' = kept
    BY <1>1 DEF StartBuild, files
  <2>2. CASE j = k
    <3>1. \A i \in Jobs : Used(i) => job[i].id # clock
      <4>1. SUFFICES ASSUME NEW i \in Jobs, Used(i) PROVE job[i].id # clock
        OBVIOUS
      <4>2. i # k
        BY <1>1, <4>1, StartBuildIsLocal
      <4>3. Used(i)' /\ job'[i].id = job[i].id
        BY <4>1, UsedKept
      <4> QED
        BY <1>1, <2>2, <4>2, <4>3, StartBuildIsLocal DEF Alone
    <3>2. raw[clock] = NoFile /\ image[clock] = NoFile
      BY <1>0, <3>1 DEF FreshInv
    <3>3. builds'[clock] = j
      BY <1>0, <2>1, <2>2 DEF TypeOK
    <3>4. /\ job'[j].pc = "begin" /\ job'[j].id = clock
          /\ job'[j].tagged = FALSE
      BY <1>1, <2>2, StartBuildIsLocal
    <3> QED
      BY <2>1, <3>2, <3>3, <3>4 DEF Mine
  <2>3. CASE j # k
    <3>1. SharedOnly(j, n)
      BY <1>1, <2>3, StartBuildShares
    <3>2. Used(j)
      BY <3>1 DEF SharedOnly, Used
    <3>3. job[j].id # clock
      <4>1. job'[k].pc = "begin"
        BY <1>1, StartBuildPc
      <4>2. job'[k].id = clock
        BY <1>1, StartBuildId
      <4>3. Used(k)'
        BY <4>1 DEF Used
      <4> QED
        BY <2>3, <3>1, <4>2, <4>3 DEF Alone, SharedOnly
    <3>4. builds'[job[j].id] = builds[job[j].id]
      BY <1>0, <2>1, <3>3 DEF TypeOK
    <3> QED
      BY <1>a, <2>1, <3>1, <3>2, <3>4, MineFrame DEF SharedOnly
  <2> QED
    BY <2>2, <2>3
<1>2. ASSUME NEW k \in Jobs, RunBuild(k)
      PROVE  Mine(j)'
  <2>1. CASE j = k
    BY <1>a, <1>2, <2>1, MineRuns, RunBuildIsLocal DEF Used, Work, Cleanup
  <2>2. CASE j # k
    <3>1. job'[j] = job[j] /\ Used(k)
      BY <1>2, <2>2, RunBuildIsLocal DEF Used, Work, Cleanup
    <3>2. Used(j) /\ builds' = builds
      BY <1>2, <3>1, StepEffect DEF Used
    <3>3. job[j].id # job[k].id
      BY <2>2, <3>1, <3>2, AloneBefore DEF Alone
    <3>4. /\ raw'[job[j].id] = raw[job[j].id]
          /\ image'[job[j].id] = image[job[j].id]
          /\ oci'[job[j].id] = oci[job[j].id]
          /\ qcow2'[job[j].id] = qcow2[job[j].id]
      BY <1>0, <1>2, <3>3, RunBuildIsLocal
    <3> QED
      BY <1>a, <1>2, <3>1, <3>2, <3>4, KeptGrows, MineFrame
  <2> QED
    BY <2>1, <2>2
<1>3. ASSUME NEW n \in Names, Outside(n)
      PROVE  Mine(j)'
  <2>1. /\ builds' = builds /\ raw' = raw /\ image' = image
        /\ oci' = oci /\ qcow2' = qcow2 /\ kept' = kept
    BY <1>3 DEF Outside, files
  <2>2. /\ job'[j].pc = job[j].pc /\ job'[j].id = job[j].id
        /\ job'[j].tagged = job[j].tagged /\ job'[j].error = job[j].error
    BY <1>3, OutsideShares DEF SharedOnly
  <2> QED
    BY <1>a, <2>1, <2>2, MineFrame DEF Used
<1>4. CASE Crash
  <2>1. /\ raw' = raw /\ image' = image /\ oci' = oci /\ qcow2' = qcow2
        /\ kept' = kept
    BY <1>4 DEF Crash, files
  <2>2. CASE job[j].pc = "end" /\ job'[j] = job[j]
    <3>1. Mine(j)
      BY <1>a, <2>2 DEF Used
    <3> QED
      BY <2>1, <2>2, <3>1 DEF Mine, BeforeDisk, Work, Cleanup
  <2>3. CASE job'[j].pc = "dead"
    BY <2>3 DEF Mine, BeforeDisk, Work, Cleanup
  <2> QED
    BY <1>0, <1>4, <2>2, <2>3, CrashTyped DEF Used, Job
<1>5. CASE Tick \/ UNCHANGED vars
  BY <1>a, <1>5, MineFrame DEF Tick, vars, files, Used
<1> QED
  BY <1>1, <1>2, <1>3, <1>4, <1>5 DEF Next

------------------------------------------------------------------------------
(* OwnVmInv *)

(* The goroutine of a build that has its VM name to itself. *)
LEMMA OwnVmRuns ==
  ASSUME TypeOK, NEW j \in Jobs, OwnVm(j), RunBuild(j)
  PROVE  job'[j].pc \in Work \ {"probe", "finish"}
            => vm'[job[j].name] = "absent"
<1>1. job[j].pc \in Work /\ job[j].pc \notin {"probe", "finish"}
        => vm[job[j].name] = "absent"
  BY DEF OwnVm
<1> USE <1>1 DEF Work, Cleanup, Goes, Fails, Moves
<1>2. CASE CreateEffect(j)
  BY <1>2 DEF CreateEffect
<1>3. CASE vm' = vm /\ job[j].pc \in Work \ {"probe", "finish"}
  BY <1>3
<1>4. CASE job'[j].pc \notin Work \ {"probe", "finish"}
  BY <1>4
<1> QED
  BY StepEffect, <1>2, <1>3, <1>4
  DEF Effect, BeginEffect, CreateLogEffect, DeriveEffect, AllocateEffect,
      SaveEffect, InstallEffect, ConvertEffect, ProbeEffect, FinishEffect,
      RemoveRawEffect, RemoveImageEffect, AfterDisk

LEMMA OwnDiskRuns ==
  ASSUME TypeOK, StatusInv, NEW j \in Jobs, OwnVm(j), OwnDisk(j), Mine(j),
         RunBuild(j)
  PROVE  OwnDisk(j)'
<1>1. /\ Records /\ job[j].id \in Ids /\ job'[j].name = job[j].name
      /\ job[j].name \in Names
  BY FieldTypes, RunBuildIsLocal DEF TypeOK, Records, OwnVm
<1>2. /\ job[j].pc = "create" => qcow2[job[j].id] = j
      /\ job[j].pc \in Work => job[j].status # "complete"
      /\ job[j].pc = "create" => vm[job[j].name] = "absent"
  BY DEF Mine, StatusInv, OwnVm, Work
<1> USE <1>1, <1>2 DEF TypeOK, OwnDisk, Work, Cleanup, Goes, Fails, Moves
<1>3. CASE CreateEffect(j)
  BY <1>3 DEF CreateEffect
<1>4. CASE ProbeEffect(j)
  BY <1>4 DEF ProbeEffect
<1>5. CASE FinishEffect(j)
  BY <1>5 DEF FinishEffect
<1>6. CASE RemoveRawEffect(j) \/ RemoveImageEffect(j)
  BY <1>6 DEF RemoveRawEffect, RemoveImageEffect, AfterDisk
<1>7. CASE BeginEffect(j) \/ CreateLogEffect(j) \/ DeriveEffect(j)
  BY <1>7 DEF BeginEffect, CreateLogEffect, DeriveEffect
<1>8. CASE AllocateEffect(j)
  BY <1>8 DEF AllocateEffect, AfterDisk
<1>9. CASE SaveEffect(j) \/ InstallEffect(j) \/ ConvertEffect(j)
  BY <1>9 DEF SaveEffect, InstallEffect, ConvertEffect
<1> QED
  BY StepEffect, <1>3, <1>4, <1>5, <1>6, <1>7, <1>8, <1>9 DEF Effect

(* What the two speak of stays as it is. *)
LEMMA OwnFrame ==
  ASSUME NEW j \in Jobs, OwnVm(j),
         job'[j].pc = job[j].pc, job'[j].name = job[j].name,
         job'[j].status = job[j].status, made'[j] = made[j],
         vm'[job[j].name] = vm[job[j].name],
         \A k \in Jobs \ {j} : Used(k)' => job'[k].name # job[j].name
  PROVE  OwnVm(j)' /\ (OwnDisk(j) => OwnDisk(j)')
  BY DEF OwnVm, OwnDisk

LEMMA OwnVmStep == IndInv /\ [Next]_vars => OwnVmInv'
<1> SUFFICES ASSUME IndInv, [Next]_vars, NEW j \in Jobs,
                    Used(j)', job'[j].own
             PROVE  OwnVm(j)' /\ (Alone(j)' => OwnDisk(j)')
  BY DEF OwnVmInv, Used
<1>0. Records /\ TypeOK /\ StatusInv /\ WorkspaceInv /\ OwnVmInv
  BY DEF IndInv, TypeOK, Records
<1> DEFINE Goal == OwnVm(j)' /\ (Alone(j)' => OwnDisk(j)')
<1>a. ASSUME Used(j), job[j].own
      PROVE  OwnVm(j) /\ (Alone(j)' => OwnDisk(j) /\ Mine(j))
  BY <1>0, <1>a, AloneBefore DEF OwnVmInv, WorkspaceInv
<1>b. ASSUME Used(j), job[j].own, NEW k \in Jobs \ {j}, Used(k)
      PROVE  job[k].name # job[j].name
  BY <1>0, <1>b DEF OwnVmInv, OwnVm
<1> HIDE DEF Goal
<1>1. ASSUME NEW k \in Jobs, NEW n \in Names, NEW c \in BOOLEAN,
             StartBuild(k, n, c)
      PROVE  Goal
  <2>1. vm' = vm /\ made' = made
    BY <1>1 DEF StartBuild
  <2>2. CASE j = k
    <3>1. job'[j].pc = "begin" /\ job'[j].name = n
      BY <1>0, <1>1, <2>2, StartBuildIsLocal
    <3>2. vm[n] = "absent" /\ ~Claimed(n)
      BY <1>0, <1>1, <2>2, StartBuildIsLocal
    <3>3. job'[j].status = "pending"
      BY <1>0, <1>1, <2>2, StartBuildIsLocal
    <3>4. \A i \in Jobs \ {j} : job'[i].name # n
      BY <1>0, <1>1, <2>2, <3>2, StartBuildShares DEF SharedOnly, Claimed
    <3>5. OwnVm(j)'
      BY <2>1, <3>1, <3>2, <3>4 DEF OwnVm
    <3>6. OwnDisk(j)'
      BY <3>1, <3>3 DEF OwnDisk
    <3> QED
      BY <3>5, <3>6 DEF Goal
  <2>3. CASE j # k
    <3>1. SharedOnly(j, n)
      BY <1>0, <1>1, <2>3, StartBuildShares
    <3>2. Used(j) /\ job[j].own /\ job[j].name # n
      BY <3>1 DEF SharedOnly, Used
    <3>3. ASSUME NEW i \in Jobs \ {j}, Used(i)'
          PROVE  job'[i].name # job[j].name
      <4>1. CASE i = k
        BY <1>0, <1>1, <3>2, <4>1, StartBuildName
      <4>2. CASE i # k
        <5>1. SharedOnly(i, n)
          BY <1>0, <1>1, <4>2, StartBuildShares
        <5>2. Used(i) /\ job'[i].name = job[i].name
          BY <3>3, <5>1 DEF SharedOnly, Used
        <5> QED
          BY <1>b, <3>2, <5>2
      <4> QED
        BY <4>1, <4>2
    <3> QED
      BY <1>a, <2>1, <3>1, <3>2, <3>3, OwnFrame DEF SharedOnly, Goal
  <2> QED
    BY <2>2, <2>3
<1>2. ASSUME NEW k \in Jobs, RunBuild(k)
      PROVE  Goal
  <2>0. Used(k)
    BY <1>0, <1>2, RunBuildIsLocal DEF Used, Work, Cleanup
  <2>1. CASE j = k
    <3>1. /\ Used(j) /\ job[j].own /\ job'[j].name = job[j].name
          /\ \A i \in Jobs \ {j} : job'[i] = job[i]
      BY <1>0, <1>2, <2>0, <2>1, RunBuildIsLocal
    <3>2. OwnVm(j)
      BY <1>a, <3>1
    <3>3. \A i \in Jobs \ {j} : Used(i)' => job'[i].name # job[j].name
      BY <1>b, <3>1 DEF Used
    <3>4. OwnVm(j)'
      BY <1>0, <1>2, <2>1, <3>1, <3>2, <3>3, OwnVmRuns DEF OwnVm
    <3>5. Alone(j)' => OwnDisk(j)'
      BY <1>0, <1>a, <1>2, <2>1, <3>1, <3>2, OwnDiskRuns
    <3> QED
      BY <3>4, <3>5 DEF Goal
  <2>2. CASE j # k
    <3>1. /\ job'[j] = job[j] /\ made'[j] = made[j]
          /\ \A i \in Jobs \ {k} : job'[i] = job[i]
          /\ job'[k].name = job[k].name
          /\ \A n \in Names \ {job[k].name} : vm'[n] = vm[n]
      BY <1>0, <1>2, <2>2, RunBuildIsLocal
    <3>2. Used(j) /\ job[j].own
      BY <3>1 DEF Used
    <3>3. \A i \in Jobs \ {j} : Used(i)' => job'[i].name # job[j].name
      BY <1>b, <2>0, <3>1, <3>2 DEF Used
    <3>4. vm'[job[j].name] = vm[job[j].name]
      BY <1>a, <1>b, <2>0, <2>2, <3>1, <3>2 DEF OwnVm
    <3> QED
      BY <1>a, <3>1, <3>2, <3>3, <3>4, OwnFrame DEF Goal
  <2> QED
    BY <2>1, <2>2
<1>3. ASSUME NEW n \in Names, Outside(n)
      PROVE  Goal
  <2>0. \E s : vm' = [vm EXCEPT ![n] = s]
    BY <1>3 DEF Outside
  <2>1. /\ made' = made
        /\ \A m \in Names \ {n} : vm'[m] = vm[m]
    BY <1>0, <1>3, <2>0 DEF Outside, TypeOK
  <2>2. ASSUME NEW i \in Jobs
        PROVE  /\ job'[i].pc = job[i].pc /\ job'[i].name = job[i].name
               /\ job'[i].status = job[i].status
               /\ job'[i].own => job[i].own
    BY <1>0, <1>3, OutsideShares DEF SharedOnly
  <2>3. Used(j) /\ job[j].own
    BY <2>2 DEF Used
  <2>4. \A i \in Jobs \ {j} : Used(i)' => job'[i].name # job[j].name
    BY <1>b, <2>2, <2>3 DEF Used
  <2>5. CASE job[j].name # n
    <3>1. vm'[job[j].name] = vm[job[j].name]
      BY <1>a, <2>1, <2>3, <2>5 DEF OwnVm
    <3> QED
      BY <1>a, <2>1, <2>2, <2>3, <2>4, <3>1, OwnFrame DEF Goal
  <2>6. CASE job[j].name = n
    <3>1. vm[n] # "absent"
      BY <1>0, <1>3, <2>6, OutsideShares DEF SharedOnly
    <3>2. job[j].pc \notin Work \ {"probe", "finish"}
      BY <1>a, <2>3, <2>6, <3>1 DEF OwnVm
    <3>3. OwnVm(j)'
      BY <1>a, <2>2, <2>3, <2>4, <3>2 DEF OwnVm
    <3>4. Alone(j)' => OwnDisk(j)'
      BY <1>a, <2>1, <2>2, <2>3, <2>6, <3>1 DEF OwnDisk
    <3> QED
      BY <3>3, <3>4 DEF Goal
  <2> QED
    BY <2>5, <2>6
<1>4. CASE Crash
  <2>1. vm' = vm /\ made' = made
    BY <1>4 DEF Crash
  <2>2. ASSUME NEW i \in Jobs
        PROVE  /\ job'[i].pc = job[i].pc \/ job'[i].pc = "dead"
               /\ job[i].pc = "unused" => job'[i].pc = "unused"
               /\ job'[i].name = job[i].name
               /\ job'[i].status = job[i].status
               /\ job'[i].own = job[i].own
    BY <1>0, <1>4, CrashTyped DEF Job
  <2>3. Used(j) /\ job[j].own
    BY <2>2 DEF Used
  <2>4. \A i \in Jobs \ {j} : Used(i)' => job'[i].name # job[j].name
    BY <1>b, <2>2, <2>3 DEF Used
  <2>5. OwnVm(j)'
    BY <1>a, <2>1, <2>2, <2>3, <2>4 DEF OwnVm, Work
  <2>6. Alone(j)' => OwnDisk(j)'
    BY <1>a, <2>1, <2>2, <2>3 DEF OwnDisk
  <2> QED
    BY <2>5, <2>6 DEF Goal
<1>5. CASE Tick \/ UNCHANGED vars
  <2>1. job' = job /\ vm' = vm /\ made' = made
    BY <1>5 DEF Tick, vars
  <2>2. Used(j) /\ job[j].own
    BY <2>1 DEF Used
  <2>3. \A i \in Jobs \ {j} : Used(i)' => job'[i].name # job[j].name
    BY <1>b, <2>1, <2>2 DEF Used
  <2> QED
    BY <1>a, <2>1, <2>2, <2>3, OwnFrame DEF Goal
<1> QED
  BY <1>1, <1>2, <1>3, <1>4, <1>5 DEF Next, Goal

------------------------------------------------------------------------------
(* The inductive invariant *)

LEMMA InitHolds == Init => IndInv
<1> SUFFICES ASSUME Init PROVE IndInv
  OBVIOUS
<1>1. TypeOK
  BY InitTyped
<1>2. \A j \in Jobs : job[j].pc = "unused" /\ job[j].status = "none"
  BY DEF Init, Unused
<1>3. StatusInv
  BY <1>2 DEF StatusInv, Work, Cleanup
<1>4. FreshInv
  BY DEF Init, FreshInv
<1>5. WorkspaceInv /\ OwnVmInv
  BY <1>2 DEF WorkspaceInv, OwnVmInv, Used
<1> QED
  BY <1>1, <1>3, <1>4, <1>5 DEF IndInv

LEMMA IndStep == IndInv /\ [Next]_vars => IndInv'
  BY TypeStep, StatusStep, FreshStep, WorkspaceStep, OwnVmStep DEF IndInv

------------------------------------------------------------------------------
(* Theorems *)

(* Every variable keeps its type, whatever the builds, the crashes and the *)
(* other users of limactl do.                                              *)
THEOREM TypeCorrect == Spec => []TypeOK
<1>1. TypeOK /\ [Next]_vars => TypeOK'
  BY TypeStep
<1> QED
  BY InitTyped, <1>1, PTL DEF Spec

(* The place of every goroutine tells its build's status and what is on    *)
(* its disks, in its image and in the map.                                 *)
THEOREM Invariance == Spec => []IndInv
  BY InitHolds, IndStep, PTL DEF Spec

(* A build with an ID of its own has its raw disk, image and map entry to  *)
(* itself and converts the system that it installed (runBuild).            *)
THEOREM WorkspaceIsPrivate == Spec => []WorkspacePrivate
<1>1. IndInv => WorkspacePrivate
  <2> SUFFICES ASSUME IndInv, NEW j \in Jobs, OwnId(j)
               PROVE
          /\ job[j].pc \in {"save", "install"} => raw[job[j].id] = Blank
          /\ job[j].pc = "install" /\ job[j].tagged => oci[job[j].id] = j
          /\ job[j].pc = "convert" => raw[job[j].id] = j
          /\ job[j].tagged /\ job[j].pc \in Work => image[job[j].id] = j
          /\ job[j].pc \in {"create", "probe", "finish"}
                => qcow2[job[j].id] = j
          /\ job[j].pc \in Work \cup Cleanup => builds[job[j].id] = j
    BY DEF WorkspacePrivate
  <2>1. Alone(j)
    BY DEF OwnId, Alone, Used, Unused
  <2>2. CASE Used(j)
    BY <2>1, <2>2 DEF IndInv, WorkspaceInv, Mine
  <2>3. CASE ~Used(j)
    BY <2>3 DEF Used, Work, Cleanup
  <2> QED
    BY <2>2, <2>3
<1> QED
  BY Invariance, <1>1, PTL

(* A complete build made its VM itself from its own system, unless its ID  *)
(* or its VM name was also used by others (runBuild, IsRunning).           *)
THEOREM CompleteIsMade == Spec => []CompleteMadeOwnVm
<1>1. IndInv => CompleteMadeOwnVm
  <2> SUFFICES ASSUME IndInv, NEW j \in Jobs, job[j].status = "complete",
                      job[j].own, OwnId(j)
               PROVE  made[j] = j
    BY DEF CompleteMadeOwnVm
  <2>1. Alone(j)
    BY DEF OwnId, Alone, Used, Unused
  <2>2. Used(j)
    BY DEF IndInv, StatusInv, Used
  <2> QED
    BY <2>1, <2>2 DEF IndInv, OwnVmInv, OwnDisk
<1> QED
  BY Invariance, <1>1, PTL

(* What a build that returned has left behind, its clean-up could not      *)
(* remove, or truncate left it (the deferred calls of runBuild).           *)
THEOREM BuildCleansUp == Spec => []LeavesOnlyUnremovable
<1>1. IndInv => LeavesOnlyUnremovable
  <2> SUFFICES ASSUME IndInv, NEW j \in Jobs, job[j].pc = "end", OwnId(j)
               PROVE  /\ image[job[j].id] # NoFile => <<j, "image">> \in kept
                      /\ raw[job[j].id] # NoFile =>
                            \/ <<j, "raw">> \in kept
                            \/ job[j].error = "truncate"
    BY DEF LeavesOnlyUnremovable
  <2>1. Alone(j)
    BY DEF OwnId, Alone, Used, Unused
  <2> QED
    BY <2>1 DEF IndInv, WorkspaceInv, Mine, Used
<1> QED
  BY Invariance, <1>1, PTL

------------------------------------------------------------------------------
(* The life cycle *)

(* A step of runBuild, as the clients of the build see it. *)
LEMMA RunBuildShows ==
  ASSUME TypeOK, StatusInv, NEW j \in Jobs, RunBuild(j)
  PROVE  \/ /\ job'[j].status = job[j].status /\ job'[j].error = job[j].error
            /\ job'[j].pc \in Work \cup Cleanup
         \/ /\ job[j].status = "pending" /\ job'[j].status = "running"
            /\ job'[j].pc \in Work \cup Cleanup
         \/ /\ job[j].status = "running" /\ job'[j].status \in Terminal
            /\ job'[j].pc \in Cleanup \cup {"end"}
         \/ /\ job[j].status \in Terminal /\ job'[j].status = job[j].status
            /\ job'[j].error = job[j].error /\ job'[j].pc = "end"
<1>1. /\ Records
      /\ job[j].pc = "begin" => job[j].status = "pending"
      /\ job[j].pc \in Work \ {"begin"} => job[j].status = "running"
      /\ job[j].pc \in Cleanup => job[j].status \in Terminal
  BY DEF TypeOK, Records, StatusInv
<1> USE <1>1 DEF Terminal, Work, Cleanup, Goes, Fails, Moves
<1>2. CASE BeginEffect(j)
  BY <1>2 DEF BeginEffect
<1>3. CASE CreateLogEffect(j)
  BY <1>3 DEF CreateLogEffect
<1>4. CASE DeriveEffect(j)
  BY <1>4 DEF DeriveEffect
<1>5. CASE AllocateEffect(j)
  BY <1>5 DEF AllocateEffect, AfterDisk
<1>6. CASE SaveEffect(j)
  BY <1>6 DEF SaveEffect
<1>7. CASE InstallEffect(j)
  BY <1>7 DEF InstallEffect
<1>8. CASE ConvertEffect(j)
  BY <1>8 DEF ConvertEffect
<1>9. CASE CreateEffect(j)
  BY <1>9 DEF CreateEffect
<1>10. CASE ProbeEffect(j)
  BY <1>10 DEF ProbeEffect
<1>11. CASE FinishEffect(j)
  BY <1>11 DEF FinishEffect
<1>12. CASE RemoveRawEffect(j)
  BY <1>12 DEF RemoveRawEffect, AfterDisk
<1>13. CASE RemoveImageEffect(j)
  BY <1>13 DEF RemoveImageEffect
<1> QED
  BY StepEffect, <1>2, <1>3, <1>4, <1>5, <1>6, <1>7, <1>8, <1>9, <1>10,
     <1>11, <1>12, <1>13 DEF Effect

(* The outcome of a build is final: no later step, not even a restart,     *)
(* rewrites a terminal status or its error (markFailed, runBuild).         *)
THEOREM OutcomesAreFinal == Spec => OutcomeIsFinal
<1>1. ASSUME IndInv, [Next]_vars, NEW k \in Jobs, job[k].status \in Terminal
      PROVE  job'[k].status = job[k].status /\ job'[k].error = job[k].error
  <2>0. TypeOK /\ StatusInv /\ Records
    BY <1>1 DEF IndInv, TypeOK, Records
  <2>1. ASSUME NEW j \in Jobs, NEW n \in Names, NEW c \in BOOLEAN,
               StartBuild(j, n, c)
        PROVE  job'[k].status = job[k].status /\ job'[k].error = job[k].error
    <3>1. job[j].status = "none"
      BY <2>1 DEF StartBuild, Unused
    <3>2. k # j
      BY <1>1, <3>1 DEF Terminal
    <3> QED
      BY <2>0, <2>1, <3>2, StartBuildShares DEF SharedOnly
  <2>2. ASSUME NEW j \in Jobs, RunBuild(j)
        PROVE  job'[k].status = job[k].status /\ job'[k].error = job[k].error
    <3>1. CASE k = j
      BY <1>1, <2>0, <2>2, <3>1, RunBuildShows DEF Terminal
    <3>2. CASE k # j
      BY <2>0, <2>2, <3>2, RunBuildIsLocal
    <3> QED
      BY <3>1, <3>2
  <2>3. ASSUME NEW n \in Names, Outside(n)
        PROVE  job'[k].status = job[k].status /\ job'[k].error = job[k].error
    BY <2>0, <2>3, OutsideShares DEF SharedOnly
  <2>4. CASE Crash
    BY <2>0, <2>4, CrashTyped DEF Job
  <2>5. CASE Tick \/ UNCHANGED vars
    BY <2>5 DEF Tick, vars
  <2> QED
    BY <1>1, <2>1, <2>2, <2>3, <2>4, <2>5 DEF Next
<1>2. IndInv /\ [Next]_vars =>
        [\A j \in Jobs :
           job[j].status \in Terminal =>
             /\ job'[j].status = job[j].status
             /\ job'[j].error = job[j].error]_vars
  BY <1>1
<1> QED
  BY Invariance, <1>2, PTL DEF Spec, OutcomeIsFinal

(* A step that changes what one build shows and nothing of the others. *)
LEMMA OneBuildMoves ==
  ASSUME NEW j \in Jobs,
         \A k \in Jobs \ {j} :
            /\ job'[k].status = job[k].status
            /\ job'[k].pc \in Work \cup Cleanup
                 <=> job[k].pc \in Work \cup Cleanup
  PROVE  LET phase == [k \in Jobs |-> job[k].status]
             busy == {k \in Jobs : job[k].pc \in Work \cup Cleanup}
         IN  /\ [k \in Jobs |-> job'[k].status]
                  = [phase EXCEPT ![j] = job'[j].status]
             /\ {k \in Jobs : job'[k].pc \in Work \cup Cleanup}
                  = IF job'[j].pc \in Work \cup Cleanup
                    THEN busy \cup {j} ELSE busy \ {j}
  OBVIOUS

LEMMA LifecycleStep ==
  TypeOK /\ StatusInv /\ [Next]_vars
  => [Lifecycle!LifecycleNext]_(Lifecycle!lvars)
<1> DEFINE phase == [k \in Jobs |-> job[k].status]
           busy == {k \in Jobs : job[k].pc \in Work \cup Cleanup}
           phase1 == [k \in Jobs |-> job'[k].status]
           busy1 == {k \in Jobs : job'[k].pc \in Work \cup Cleanup}
           Step == \/ \E k \in Jobs :
                        \/ /\ phase[k] = "none"
                           /\ phase1 = [phase EXCEPT ![k] = "pending"]
                           /\ busy1 = busy \cup {k}
                        \/ /\ phase[k] = "pending" /\ k \in busy
                           /\ phase1 = [phase EXCEPT ![k] = "running"]
                           /\ busy1 = busy
                        \/ /\ phase[k] = "running" /\ k \in busy
                           /\ \E o \in Terminal :
                                 phase1 = [phase EXCEPT ![k] = o]
                           /\ busy1 = busy \/ busy1 = busy \ {k}
                        \/ /\ phase[k] \in Terminal /\ k \in busy
                           /\ phase1 = phase /\ busy1 = busy \ {k}
                   \/ busy1 = {} /\ phase1 = phase
                   \/ phase1 = phase /\ busy1 = busy
<1> SUFFICES ASSUME TypeOK, StatusInv, [Next]_vars PROVE Step
  BY DEF Lifecycle!LifecycleNext, Lifecycle!lvars, Lifecycle!Request,
         Lifecycle!Start, Lifecycle!Conclude, Lifecycle!Leave,
         Lifecycle!Kill, Lifecycle!Outcomes, Terminal
<1>0. Records
  BY DEF TypeOK, Records
<1>1. ASSUME NEW j \in Jobs, NEW n \in Names, NEW c \in BOOLEAN,
             StartBuild(j, n, c)
      PROVE  Step
  <2>1. \A k \in Jobs \ {j} :
           job'[k].status = job[k].status /\ job'[k].pc = job[k].pc
    BY <1>1, StartBuildShares DEF SharedOnly
  <2>2. job[j].status = "none"
    BY <1>1 DEF StartBuild, Unused
  <2>3. job'[j].status = "pending" /\ job'[j].pc = "begin"
    BY <1>1, StartBuildIsLocal
  <2>4. "begin" \in Work \cup Cleanup
    BY DEF Work
  <2>5. phase1 = [phase EXCEPT ![j] = "pending"] /\ busy1 = busy \cup {j}
    BY <2>1, <2>3, <2>4, OneBuildMoves
  <2> QED
    BY <2>2, <2>5
<1>2. ASSUME NEW j \in Jobs, RunBuild(j)
      PROVE  Step
  <2>1. \A k \in Jobs \ {j} :
           job'[k].status = job[k].status /\ job'[k].pc = job[k].pc
    BY <1>2, RunBuildIsLocal
  <2>2. /\ phase1 = [phase EXCEPT ![j] = job'[j].status]
        /\ busy1 = IF job'[j].pc \in Work \cup Cleanup
                   THEN busy \cup {j} ELSE busy \ {j}
    BY <2>1, OneBuildMoves
  <2>3. j \in busy /\ phase[j] = job[j].status
    BY <1>2, RunBuildIsLocal
  <2>4. "end" \notin Work \cup Cleanup /\ Cleanup \subseteq Work \cup Cleanup
    BY DEF Work, Cleanup
  <2>5. CASE /\ job'[j].status = job[j].status
             /\ job'[j].pc \in Work \cup Cleanup
    <3>1. phase1 = phase /\ busy1 = busy
      BY <2>2, <2>3, <2>5
    <3> QED
      BY <3>1
  <2>6. CASE /\ job[j].status = "pending" /\ job'[j].status = "running"
             /\ job'[j].pc \in Work \cup Cleanup
    <3>1. phase1 = [phase EXCEPT ![j] = "running"] /\ busy1 = busy
      BY <2>2, <2>3, <2>6
    <3> QED
      BY <2>3, <2>6, <3>1
  <2>7. CASE /\ job[j].status = "running" /\ job'[j].status \in Terminal
             /\ job'[j].pc \in Cleanup \cup {"end"}
    <3>1. busy1 = busy \/ busy1 = busy \ {j}
      BY <2>2, <2>3, <2>4, <2>7
    <3> QED
      BY <2>2, <2>3, <2>7, <3>1
  <2>8. CASE /\ job[j].status \in Terminal
             /\ job'[j].status = job[j].status /\ job'[j].pc = "end"
    <3>1. phase1 = phase /\ busy1 = busy \ {j}
      BY <2>2, <2>3, <2>4, <2>8
    <3> QED
      BY <2>3, <2>8, <3>1
  <2> QED
    BY <1>2, <2>5, <2>6, <2>7, <2>8, RunBuildShows
<1>3. ASSUME NEW n \in Names, Outside(n)
      PROVE  Step
  <2>1. \A k \in Jobs :
           job'[k].status = job[k].status /\ job'[k].pc = job[k].pc
    BY <1>3, OutsideShares DEF SharedOnly
  <2> QED
    BY <2>1
<1>4. CASE Crash
  <2>1. \A k \in Jobs :
           /\ job'[k].status = job[k].status
           /\ job'[k].pc \in {"unused", "end", "dead"}
    BY <1>0, <1>4, CrashTyped DEF Job
  <2>2. \A k \in Jobs : job'[k].pc \notin Work \cup Cleanup
    BY <2>1 DEF Work, Cleanup
  <2> QED
    BY <2>1, <2>2
<1>5. CASE Tick \/ UNCHANGED vars
  <2>1. job' = job
    BY <1>5 DEF Tick, vars
  <2> QED
    BY <2>1
<1> HIDE DEF Step
<1> QED
  BY <1>1, <1>2, <1>3, <1>4, <1>5 DEF Next

(* Whatever fails in the pipeline, a build is one run that concludes once, *)
(* and whose goroutine ends with it (StartBuild, runBuild, markFailed).    *)
THEOREM PipelineIsLifecycle == Spec => ImplementsLifecycle
<1>1. Init => Lifecycle!LifecycleInit
  <2> SUFFICES ASSUME Init PROVE Lifecycle!LifecycleInit
    OBVIOUS
  <2>1. \A j \in Jobs : job[j].status = "none" /\ job[j].pc = "unused"
    BY DEF Init, Unused
  <2> QED
    BY <2>1 DEF Lifecycle!LifecycleInit, Work, Cleanup
<1>2. IndInv /\ [Next]_vars => [Lifecycle!LifecycleNext]_(Lifecycle!lvars)
  BY LifecycleStep DEF IndInv
<1> QED
  BY Invariance, <1>1, <1>2, PTL
  DEF Spec, ImplementsLifecycle, Lifecycle!LifecycleSpec

------------------------------------------------------------------------------
(***************************************************************************)
(* BuildLog.  The log is written beside the build and read beside it, so   *)
(* that the invariants above hold under LogSpec.                           *)
(***************************************************************************)

Line == {"short", "long"}

(* Who has a log open has requested a build and created the log. *)
WritersInv == \A j \in writers : Used(j) /\ log[job[j].id] # NoLog

(* A stream that goes on has a build; one that left the scanner met what   *)
(* stops it; a late one has a build whose goroutine is over.               *)
StreamInv ==
    /\ reader.pc = "idle" => ~reader.exhausted
    /\ reader.pc \in {"idle", "refused"} => ~reader.late
    /\ reader.pc \notin {"idle", "refused"} => reader.of \in Jobs
    /\ reader.pc \in {"check", "sleep", "done"} => reader.exhausted
    /\ reader.late => /\ reader.of \in Jobs /\ At(reader.of, "end")
                      /\ reader.of \notin writers

(* Nobody writes to the log of a late stream any more, so that what stopped *)
(* the scanner is still there.                                             *)
LateInv ==
    reader.late /\ reader.exhausted /\ Alone(reader.of) => AtEnd \/ AtLongLine

LogInv == LogTypeOK /\ WritersInv /\ StreamInv /\ LateInv

------------------------------------------------------------------------------
(* Composition *)

(* Every step of the composition is a step of a build, or of none. *)
LEMMA LogSteps == [LogNext]_lvars => [Next]_vars
BY DEF LogNext, BuildStep, WriteLine, CloseLog, OpenLog, StreamLog, ScanLine,
       ScanFails, CheckDone, WakeUp, Reopen, Others, LogCrash, Next, lvars

(* Streaming the log of a build keeps everything the builds promise. *)
THEOREM LogKeepsBuilds == LogSpec => Spec
<1>1. LogInit => Init
      BY DEF LogInit
<1> QED
    BY <1>1, LogSteps, PTL DEF LogSpec, Spec

------------------------------------------------------------------------------
(* Logs *)

LEMMA AbsentIsNoLog ==
    ASSUME NEW l \in Seq(Line)
    PROVE  l # NoLog
<1> SUFFICES ASSUME l = NoLog PROVE FALSE
    OBVIOUS
<1>1. Len(l) = 1 /\ l[1] = "absent"
      BY DEF NoLog
<1>2. l[1] \in Line
      BY <1>1, ElementOfSeq
<1> QED
    BY <1>1, <1>2 DEF Line

LEMMA LogIsSeq ==
    ASSUME NEW l \in Logs, l # NoLog
    PROVE  l \in Seq(Line) /\ Len(l) \in 0..MaxLines
<1>1. PICK n \in 0..MaxLines : l \in [1..n -> Line]
      BY DEF Logs, Line
<1>2. n \in Nat
      BY <1>1, LogAssumption
<1>3. l \in Seq(Line)
      BY <1>1, <1>2, SeqDef
<1>4. DOMAIN l = 1..n /\ DOMAIN l = 1..Len(l) /\ Len(l) \in Nat
      BY <1>1, <1>3, LenProperties
<1>5. Len(l) = n
      BY <1>2, <1>4
<1> QED
    BY <1>1, <1>3, <1>5

LEMMA SeqIsLog ==
    ASSUME NEW l \in Seq(Line), Len(l) <= MaxLines
    PROVE  l \in Logs
<1>1. Len(l) \in Nat /\ l \in [1..Len(l) -> Line]
      BY LenProperties
<1>2. Len(l) \in 0..MaxLines
      BY <1>1, LogAssumption
<1> QED
    BY <1>1, <1>2 DEF Logs, Line

LEMMA EmptyLog == <<>> \in Logs /\ <<>> # NoLog
<1>1. <<>> \in Seq(Line) /\ Len(<<>>) = 0
      BY EmptySeq
<1>2. Len(<<>>) <= MaxLines
      BY <1>1, LogAssumption
<1>3. \A l \in Seq(Line) : Len(l) <= MaxLines => l \in Logs /\ l # NoLog
      BY SeqIsLog, AbsentIsNoLog
<1> QED
    BY <1>1, <1>2, <1>3

(* The log grows by a line. *)
LEMMA AppendLog ==
    ASSUME NEW l \in Logs, l # NoLog, Len(l) < MaxLines, NEW line \in Line
    PROVE  Append(l, line) \in Logs /\ Append(l, line) # NoLog
<1>1. l \in Seq(Line) /\ Len(l) \in Nat
      BY LogIsSeq, LogAssumption
<1>2. Append(l, line) \in Seq(Line) /\ Len(Append(l, line)) = Len(l) + 1
      BY <1>1, AppendProperties
<1>3. Len(Append(l, line)) <= MaxLines
      BY <1>1, <1>2, LogAssumption
<1> QED
    BY <1>2, <1>3, SeqIsLog, AbsentIsNoLog

LEMMA LinesTyped ==
    ASSUME TypeOK, LogTypeOK, NEW j \in Jobs
    PROVE  LinesOf(j) \in 0..MaxLines
<1>1. log[job[j].id] \in Logs
      BY FieldTypes DEF TypeOK, LogTypeOK, Records
<1> QED
    BY <1>1, LogIsSeq, LogAssumption DEF LinesOf

------------------------------------------------------------------------------
(* Typing *)

LEMMA BuildStepWrites ==
    ASSUME TypeOK, LogTypeOK, NEW j \in Jobs, BuildStep(j)
    PROVE  /\ log' \in [Ids -> Logs]
           /\ \A d \in Ids \ {job[j].id} : log'[d] = log[d]
           /\ \A d \in Ids : log[d] # NoLog => log'[d] # NoLog
           /\ writers' \subseteq writers \cup {j}
           /\ j \in writers' \ writers => log'[job[j].id] # NoLog
           /\ reader' = reader
<1>0. job[j].id \in Ids
      BY FieldTypes DEF TypeOK, Records
<1>1. CASE log' = log /\ writers' = writers
      BY <1>1 DEF LogTypeOK, BuildStep
<1>2. CASE log' = [log EXCEPT ![job[j].id] = <<>>] /\ writers' = writers \cup {j}
      BY <1>0, <1>2, EmptyLog DEF LogTypeOK, BuildStep
<1> QED
    BY <1>1, <1>2 DEF BuildStep

LEMMA WriteLineWrites ==
    ASSUME TypeOK, LogTypeOK, WritersInv, NEW j \in Jobs, WriteLine(j)
    PROVE  /\ log' \in [Ids -> Logs]
           /\ \A d \in Ids \ {job[j].id} : log'[d] = log[d]
           /\ \A d \in Ids : log[d] # NoLog => log'[d] # NoLog
<1>0. job[j].id \in Ids
      BY FieldTypes DEF TypeOK, Records
<1> DEFINE old == log[job[j].id]
<1>1. PICK line \in Line : log' = [log EXCEPT ![job[j].id] = Append(old, line)]
      BY <1>0 DEF WriteLine, Line, LogTypeOK
<1>2. old \in Logs /\ old # NoLog /\ Len(old) < MaxLines
      BY <1>0 DEF WriteLine, WritersInv, LogTypeOK, LinesOf
<1>3. Append(old, line) \in Logs /\ Append(old, line) # NoLog
      BY <1>2, AppendLog
<1> DEFINE new == Append(old, line)
<1> HIDE DEF new
<1>4. log' = [log EXCEPT ![job[j].id] = new] /\ new \in Logs /\ new # NoLog
      BY <1>1, <1>3 DEF new
<1> QED
    BY <1>0, <1>4 DEF LogTypeOK

(* A step of the stream's handler, or a new stream. *)
Handler == (\E d \in Ids : OpenLog(d)) \/ StreamLog \/ Reopen

LEMMA EmptyReader == NoReader \in Reader
BY LogAssumption DEF NoReader, Reader, ReaderPcs

LEMMA HandlerTyped ==
    ASSUME TypeOK, LogTypeOK, StreamInv, Handler
    PROVE  reader' \in Reader
<1> USE DEF LogTypeOK, Reader, ReaderPcs
<1>1. ASSUME NEW d \in Ids, OpenLog(d) PROVE reader' \in Reader
  <2>1. CASE reader' = [reader EXCEPT !.pc = "refused"]
        BY <2>1
  <2> DEFINE j == builds[d]
             over == At(j, "end") /\ j \notin writers
  <2>2. CASE reader' = [reader EXCEPT !.pc = "scan", !.of = j, !.late = over]
    <3>1. over \in BOOLEAN /\ j \in Jobs \cup {NoJob}
          BY DEF TypeOK, At
    <3> HIDE DEF over, j
    <3> QED
          BY <2>2, <3>1
  <2> QED
        BY <1>1, <2>1, <2>2 DEF OpenLog
<1>2. CASE ScanLine
  <2>1. LinesOf(reader.of) \in 0..MaxLines /\ reader.sent < LinesOf(reader.of)
        BY <1>2, LinesTyped DEF ScanLine, Stuck, AtEnd, StreamInv
  <2>2. reader.sent + 1 \in 0..MaxLines
        BY <2>1, LogAssumption
  <2> QED
        BY <1>2, <2>2 DEF ScanLine
<1>3. CASE ScanFails
      BY <1>3 DEF ScanFails
<1>4. CASE CheckDone \/ WakeUp
      BY <1>4 DEF CheckDone, WakeUp, To
<1>5. CASE Reopen
      BY <1>5, EmptyReader DEF Reopen
<1> QED
    BY <1>1, <1>2, <1>3, <1>4, <1>5 DEF Handler, StreamLog

LEMMA LogTypeStep ==
    TypeOK /\ LogTypeOK /\ WritersInv /\ StreamInv /\ [LogNext]_lvars
        => LogTypeOK'
<1> SUFFICES ASSUME TypeOK, LogTypeOK, WritersInv, StreamInv, [LogNext]_lvars
             PROVE  LogTypeOK'
    OBVIOUS
<1>1. ASSUME NEW j \in Jobs, BuildStep(j) PROVE LogTypeOK'
  <2>1. final' \in [Jobs -> 0..MaxLines]
        BY <1>1, LinesTyped DEF LogTypeOK, BuildStep
  <2> QED
        BY <1>1, <2>1, BuildStepWrites DEF LogTypeOK
<1>2. ASSUME NEW j \in Jobs, WriteLine(j) PROVE LogTypeOK'
      BY <1>2, WriteLineWrites DEF LogTypeOK, WriteLine
<1>3. ASSUME NEW j \in Jobs, CloseLog(j) PROVE LogTypeOK'
      BY <1>3 DEF LogTypeOK, CloseLog
<1>4. CASE Handler
  <2>1. UNCHANGED logs
        BY <1>4 DEF Handler, OpenLog, StreamLog, ScanLine, ScanFails,
                    CheckDone, WakeUp, Reopen
  <2> QED
        BY <1>4, <2>1, HandlerTyped DEF LogTypeOK, logs
<1>5. CASE LogCrash
      BY <1>5, EmptyReader DEF LogTypeOK, LogCrash
<1>6. CASE Others \/ UNCHANGED lvars
      BY <1>6 DEF LogTypeOK, Others, logs, lvars
<1> QED
    BY <1>1, <1>2, <1>3, <1>4, <1>5, <1>6 DEF LogNext, Handler

------------------------------------------------------------------------------
(* Writers *)

LEMMA WritersStep ==
    TypeOK /\ LogTypeOK /\ WritersInv /\ [LogNext]_lvars => WritersInv'
<1> SUFFICES ASSUME TypeOK, LogTypeOK, WritersInv, [LogNext]_lvars,
                    NEW k \in writers'
             PROVE  Used(k)' /\ log'[job'[k].id] # NoLog
    BY DEF WritersInv
<1>0. /\ \A j \in Jobs : job[j].id \in Ids
      /\ \A j \in writers : j \in Jobs /\ Used(j) /\ log[job[j].id] # NoLog
      BY FieldTypes DEF TypeOK, Records, LogTypeOK, WritersInv
<1>1. \A j \in Jobs : Used(j) => Used(j)' /\ job'[j].id = job[j].id
      BY LogSteps, UsedKept
<1>2. ASSUME NEW j \in Jobs, BuildStep(j)
      PROVE  Used(k)' /\ log'[job'[k].id] # NoLog
  <2>1. CASE k \in writers
        BY <1>0, <1>1, <1>2, <2>1, BuildStepWrites
  <2>2. CASE k \notin writers
    <3>1. k = j /\ log'[job[j].id] # NoLog
          BY <1>2, <2>2, BuildStepWrites
    <3>2. Used(j)
          BY <1>2, RunBuildIsLocal DEF BuildStep, Used, Work, Cleanup
    <3> QED
          BY <1>1, <3>1, <3>2
  <2> QED
        BY <2>1, <2>2
<1>3. ASSUME NEW j \in Jobs, WriteLine(j)
      PROVE  Used(k)' /\ log'[job'[k].id] # NoLog
  <2>1. k \in writers
        BY <1>3 DEF WriteLine
  <2> QED
        BY <1>0, <1>1, <1>3, <2>1, WriteLineWrites
<1>4. CASE log' = log /\ writers' \subseteq writers
      BY <1>0, <1>1, <1>4
<1>5. ASSUME NEW j \in Jobs, CloseLog(j)
      PROVE  log' = log /\ writers' \subseteq writers
      BY <1>5 DEF CloseLog
<1>6. ASSUME Handler
      PROVE  log' = log /\ writers' \subseteq writers
      BY <1>6 DEF Handler, OpenLog, StreamLog, ScanLine, ScanFails,
                  CheckDone, WakeUp, Reopen, logs
<1>7. ASSUME LogCrash \/ Others \/ UNCHANGED lvars
      PROVE  log' = log /\ writers' \subseteq writers
      BY <1>7 DEF LogCrash, Others, logs, lvars
<1> QED
    BY <1>2, <1>3, <1>4, <1>5, <1>6, <1>7 DEF LogNext, Handler

------------------------------------------------------------------------------
(* The stream *)

(* A goroutine that is over stays over until the server is killed. *)
LEMMA EndStays ==
    ASSUME TypeOK, [LogNext]_lvars, ~LogCrash, NEW k \in Jobs, At(k, "end")
    PROVE  At(k, "end")'
<1>1. ASSUME NEW j \in Jobs, BuildStep(j) PROVE At(k, "end")'
  <2>1. j # k
        BY <1>1, RunBuildIsLocal DEF BuildStep, At, Work, Cleanup
  <2> QED
        BY <1>1, <2>1, RunBuildIsLocal DEF BuildStep, At
<1>2. ASSUME NEW j \in Jobs, NEW n \in Names, NEW c \in BOOLEAN,
             StartBuild(j, n, c)
      PROVE  At(k, "end")'
  <2>1. k # j
        BY <1>2, StartBuildIsLocal DEF Used, At
  <2> QED
        BY <1>2, <2>1, StartBuildShares DEF SharedOnly, At
<1>3. ASSUME NEW n \in Names, Outside(n) PROVE At(k, "end")'
      BY <1>3, OutsideShares DEF SharedOnly, At
<1>4. CASE job' = job
      BY <1>4 DEF At
<1>5. ASSUME Handler \/ Tick \/ UNCHANGED lvars
      PROVE  job' = job
      BY <1>5 DEF Handler, OpenLog, StreamLog, ScanLine, ScanFails,
                  CheckDone, WakeUp, Reopen, vars, lvars, Tick
<1>6. ASSUME NEW j \in Jobs, WriteLine(j) \/ CloseLog(j)
      PROVE  job' = job
      BY <1>6 DEF WriteLine, CloseLog, vars
<1> QED
    BY <1>1, <1>2, <1>3, <1>4, <1>5, <1>6 DEF LogNext, Handler, Others

(* Nor does it open its log again. *)
LEMMA OverDoesNotWrite ==
    ASSUME TypeOK, LogTypeOK, [LogNext]_lvars, NEW k \in Jobs, At(k, "end"),
           k \notin writers
    PROVE  k \notin writers'
<1>1. ASSUME NEW j \in Jobs, BuildStep(j) PROVE k \notin writers'
  <2>1. j # k
        BY <1>1, RunBuildIsLocal DEF BuildStep, At, Work, Cleanup
  <2> QED
        BY <1>1, <2>1, BuildStepWrites
<1>2. ASSUME NEW j \in Jobs, WriteLine(j) \/ CloseLog(j)
      PROVE  k \notin writers'
      BY <1>2 DEF WriteLine, CloseLog
<1>3. ASSUME Handler \/ Others \/ LogCrash \/ UNCHANGED lvars
      PROVE  k \notin writers'
      BY <1>3 DEF Handler, OpenLog, StreamLog, ScanLine, ScanFails,
                  CheckDone, WakeUp, Reopen, Others, LogCrash, logs, lvars
<1> QED
    BY <1>1, <1>2, <1>3 DEF LogNext, Handler

(* The log of a build whose goroutine is over and whose ID nobody else     *)
(* uses does not change.                                                   *)
LEMMA LogOfOverStays ==
    ASSUME TypeOK, LogTypeOK, WritersInv, [LogNext]_lvars,
           NEW k \in Jobs, At(k, "end"), k \notin writers, Alone(k)'
    PROVE  job'[k].id = job[k].id /\ log'[job[k].id] = log[job[k].id]
<1>0. job[k].id \in Ids
      BY FieldTypes DEF TypeOK, Records
<1>1. Used(k)
      BY DEF At, Used
<1>2. Alone(k) /\ job'[k].id = job[k].id
      BY <1>1, LogSteps, UsedKept, AloneBefore
<1>3. ASSUME NEW j \in Jobs, BuildStep(j)
      PROVE  log'[job[k].id] = log[job[k].id]
  <2>1. j # k /\ Used(j)
        BY <1>3, RunBuildIsLocal DEF BuildStep, At, Used, Work, Cleanup
  <2>2. job[j].id # job[k].id
        BY <1>2, <2>1 DEF Alone
  <2> QED
        BY <1>0, <1>3, <2>2, BuildStepWrites
<1>4. ASSUME NEW j \in Jobs, WriteLine(j)
      PROVE  log'[job[k].id] = log[job[k].id]
  <2>1. j # k /\ Used(j)
        BY <1>4 DEF WriteLine, WritersInv
  <2>2. job[j].id # job[k].id
        BY <1>2, <2>1 DEF Alone
  <2> QED
        BY <1>0, <1>4, <2>2, WriteLineWrites
<1>5. ASSUME Handler \/ Others \/ LogCrash \/ UNCHANGED lvars
      PROVE  log' = log
      BY <1>5 DEF Handler, OpenLog, StreamLog, ScanLine, ScanFails,
                  CheckDone, WakeUp, Reopen, Others, LogCrash, logs, lvars
<1>6. ASSUME NEW j \in Jobs, CloseLog(j)
      PROVE  log' = log
      BY <1>6 DEF CloseLog
<1> QED
    BY <1>2, <1>3, <1>4, <1>5, <1>6 DEF LogNext, Handler

(* What a step does to the handler: nothing, or nothing else changes. *)
LEMMA ReaderMoves ==
    ASSUME [LogNext]_lvars
    PROVE  \/ reader' = reader /\ ~LogCrash
           \/ Handler /\ UNCHANGED <<vars, logs>>
           \/ LogCrash /\ reader' = NoReader
<1>1. CASE LogCrash
      BY <1>1 DEF LogCrash
<1>2. CASE Handler
      BY <1>2 DEF Handler, OpenLog, StreamLog, ScanLine, ScanFails,
                  CheckDone, WakeUp, Reopen
<1>3. CASE (\E j \in Jobs : BuildStep(j) \/ WriteLine(j) \/ CloseLog(j)) \/ Others
                \/ UNCHANGED lvars
      BY <1>1, <1>3 DEF BuildStep, WriteLine, CloseLog, Others, lvars
<1> QED
    BY <1>1, <1>2, <1>3 DEF LogNext, Handler

LEMMA StreamStep ==
    TypeOK /\ LogTypeOK /\ StreamInv /\ [LogNext]_lvars => StreamInv'
<1> SUFFICES ASSUME TypeOK, LogTypeOK, StreamInv, [LogNext]_lvars
             PROVE  StreamInv'
    OBVIOUS
<1>1. CASE reader' = reader /\ ~LogCrash
  <2>1. reader.late => /\ reader.of \in Jobs /\ At(reader.of, "end")'
                       /\ reader.of \notin writers'
        BY <1>1, EndStays, OverDoesNotWrite DEF StreamInv
  <2> QED
        BY <1>1, <2>1 DEF StreamInv, At
<1>2. CASE reader' = NoReader
      BY <1>2 DEF StreamInv, NoReader
<1>3. CASE Handler /\ UNCHANGED <<vars, logs>>
  <2> USE <1>3 DEF StreamInv, LogTypeOK, Reader, vars, logs, At
  <2>1. ASSUME NEW d \in Ids, OpenLog(d) PROVE StreamInv'
    <3> DEFINE j == builds[d]
               over == At(j, "end") /\ j \notin writers
    <3>1. CASE reader' = [reader EXCEPT !.pc = "refused"]
          BY <2>1, <3>1 DEF OpenLog
    <3>2. CASE /\ j # NoJob
               /\ reader' = [reader EXCEPT !.pc = "scan", !.of = j,
                                           !.late = over]
      <4>1. j \in Jobs /\ over \in BOOLEAN
            BY <3>2 DEF TypeOK
      <4>2. /\ reader'.pc = "scan" /\ reader'.of = j /\ reader'.late = over
            /\ reader'.exhausted = reader.exhausted
            BY <3>2, <4>1
      <4> QED
            BY <4>1, <4>2
    <3> QED
          BY <2>1, <3>1, <3>2 DEF OpenLog
  <2>2. CASE ScanLine
        BY <2>2 DEF ScanLine
  <2>3. CASE ScanFails
        BY <2>3 DEF ScanFails
  <2>4. CASE CheckDone
        BY <2>4 DEF CheckDone, To
  <2>5. CASE WakeUp
        BY <2>5 DEF WakeUp, To
  <2>6. CASE Reopen
        BY <2>6, <1>2 DEF Reopen
  <2> QED
        BY <2>1, <2>2, <2>3, <2>4, <2>5, <2>6 DEF Handler, StreamLog
<1> QED
    BY <1>1, <1>2, <1>3, ReaderMoves

LEMMA LateStep ==
    TypeOK /\ LogTypeOK /\ WritersInv /\ StreamInv /\ LateInv
        /\ [LogNext]_lvars => LateInv'
<1> SUFFICES ASSUME TypeOK, LogTypeOK, WritersInv, StreamInv, LateInv,
                    [LogNext]_lvars,
                    reader'.late, reader'.exhausted, Alone(reader.of)'
             PROVE  AtEnd' \/ AtLongLine'
    BY DEF LateInv
<1>1. CASE reader' = reader /\ ~LogCrash
  <2>0. PICK k \in Jobs : k = reader.of
        BY <1>1 DEF StreamInv
  <2>1. /\ At(k, "end") /\ k \notin writers
        /\ reader.late /\ reader.exhausted /\ Alone(k)'
        BY <1>1, <2>0 DEF StreamInv, Alone, Used
  <2>2. Alone(k)
        BY <2>1, LogSteps, AloneBefore DEF At, Used
  <2>3. AtEnd \/ AtLongLine
        BY <2>0, <2>1, <2>2 DEF LateInv
  <2>4. job'[k].id = job[k].id /\ log'[job[k].id] = log[job[k].id]
        BY <2>1, LogOfOverStays
  <2> QED
        BY <1>1, <2>0, <2>3, <2>4 DEF AtEnd, AtLongLine, LinesOf
<1>2. CASE reader' = NoReader
      BY <1>2 DEF NoReader
<1>3. CASE Handler /\ UNCHANGED <<vars, logs>>
  <2> USE <1>3 DEF LogTypeOK, Reader
  <2>1. ASSUME NEW d \in Ids, OpenLog(d) PROVE FALSE
        BY <2>1 DEF OpenLog, StreamInv
  <2>2. CASE ScanLine
        BY <2>2 DEF ScanLine, Stuck
  <2>3. ASSUME reader'.sent = reader.sent, reader'.of = reader.of,
               AtEnd \/ AtLongLine
        PROVE  AtEnd' \/ AtLongLine'
        BY <2>3 DEF AtEnd, AtLongLine, LinesOf, vars, logs
  <2>4. reader'.of = reader.of => Alone(reader.of)
        BY DEF Alone, Used, vars
  <2>5. CASE ScanFails
    <3>1. /\ reader'.sent = reader.sent /\ reader'.of = reader.of
          /\ reader'.late = reader.late
          BY <2>5 DEF ScanFails
    <3>2. AtEnd \/ AtLongLine
          BY <2>4, <2>5, <3>1 DEF ScanFails, Stuck, LateInv
    <3> QED
          BY <2>3, <3>1, <3>2
  <2>6. CASE CheckDone \/ WakeUp
    <3>1. /\ reader'.sent = reader.sent /\ reader'.of = reader.of
          /\ reader'.late = reader.late /\ reader'.exhausted = reader.exhausted
          BY <2>6 DEF CheckDone, WakeUp, To
    <3> QED
          BY <2>3, <2>4, <3>1 DEF LateInv
  <2>7. CASE Reopen
        BY <2>7, <1>2 DEF Reopen
  <2> QED
        BY <2>1, <2>2, <2>5, <2>6, <2>7 DEF Handler, StreamLog
<1> QED
    BY <1>1, <1>2, <1>3, ReaderMoves

------------------------------------------------------------------------------
(* Theorems *)

LEMMA LogInitHolds == LogInit => TypeOK /\ LogInv
<1> SUFFICES ASSUME LogInit PROVE TypeOK /\ LogInv
    OBVIOUS
<1>1. TypeOK
      BY InitTyped DEF LogInit
<1>2. LogTypeOK
      BY EmptyReader, LogAssumption DEF LogInit, LogTypeOK, Logs
<1>3. WritersInv /\ StreamInv /\ LateInv
      BY DEF LogInit, WritersInv, StreamInv, LateInv, NoReader
<1> QED
    BY <1>1, <1>2, <1>3 DEF LogInv

LEMMA LogInvInductive == TypeOK /\ LogInv /\ [LogNext]_lvars => TypeOK' /\ LogInv'
BY LogSteps, TypeStep, LogTypeStep, WritersStep, StreamStep, LateStep
DEF LogInv

(* A log is never longer than its bound, the stream always has a build of  *)
(* the map to report on, and its count of lines stays within the log's.    *)
THEOREM LogTypeCorrect == LogSpec => []LogTypeOK
BY LogInitHolds, LogInvInductive, PTL DEF LogSpec, LogInv

(* A stream opened after the end of a build delivers the whole log before  *)
(* it says DONE, up to a line that the scanner cannot hold (StreamLog).    *)
THEOREM LateStreamsAreComplete == LogSpec => []LateStreamIsComplete
<1>1. LogInv => LateStreamIsComplete
  <2> SUFFICES ASSUME LogInv, reader.pc = "done", reader.late, OwnId(reader.of)
               PROVE  AtEnd \/ AtLongLine
      BY DEF LateStreamIsComplete
  <2>1. Alone(reader.of)
        BY DEF OwnId, Alone, Used, Unused
  <2> QED
        BY <2>1 DEF LogInv, StreamInv, LateInv
<1> QED
    BY <1>1, LogInitHolds, LogInvInductive, PTL DEF LogSpec
=============================================================================
