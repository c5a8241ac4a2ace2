----------------------------- MODULE BootcBuild -----------------------------
(***************************************************************************)
(* BootcManager (bootc.go): builds that turn a bootc container image into  *)
(* a running VM.  StartBuild registers a build and spawns runBuild on a    *)
(* goroutine of its own; runBuild is a pipeline of child processes (podman *)
(* build, truncate, podman save, podman run, qemu-img, limactl start), any *)
(* of which may fail, with deferred clean-up on every path out.            *)
(*                                                                         *)
(* A build's workspace (its directory, its image tag) is named by its ID,  *)
(* the wall clock in milliseconds; its VM by the name the client chose.    *)
(***************************************************************************)
EXTENDS Naturals, FiniteSets

CONSTANTS
    Jobs,         \* runBuild goroutines
    Names,        \* VM names clients ask for
    MaxMs,        \* bound on the clock
    MaxKept,      \* bound on the removals that fail
    NoJob,        \* a map key without a value
    NoFile,       \* a file or an image that does not exist
    Blank         \* a disk without an installed system

ASSUME BuildAssumption ==
    /\ MaxMs \in Nat /\ MaxKept \in Nat
    /\ NoJob \notin Jobs
    /\ Blank \notin Jobs /\ NoFile \notin Jobs /\ NoFile # Blank

VARIABLES
    clock,    \* time.Now().UnixMilli()
    builds,   \* BootcManager.builds
    job,      \* each BootcBuild and the goroutine that runs it
    raw,      \* <outDir>/disk.raw: whose system is installed on it
    image,    \* the derived image localhost/lima-bootc-custom-<id>
    oci,      \* <outDir>/source.oci.tar, the derived image as an archive
    qcow2,    \* <outDir>/disk.qcow2
    vm,       \* limactl's status of each VM name
    made,     \* history: the disk of the VM that a build's limactl created
    kept      \* history: what the clean-up of a build could not remove

vars == <<clock, builds, job, raw, image, oci, qcow2, vm, made, kept>>
files == <<raw, image, oci, qcow2>>

Ids == 0..MaxMs
Content == Jobs \cup {Blank, NoFile}
Statuses == {"none", "pending", "running", "complete", "failed"}

(* BootcBuild.Error, as far as it says which step failed. *)
Errors == {"none", "truncate", "other"}

(* The steps of runBuild, named after what they are about to do. *)
Work == {"begin", "log", "derive", "allocate", "save", "install", "convert",
         "create", "probe", "finish"}
Cleanup == {"rmRaw", "rmImage"}
Pcs == Work \cup Cleanup \cup {"unused", "end", "dead"}

Job == [pc     : Pcs,
        id     : Ids,
        name   : Names \cup {NoJob},
        custom : BOOLEAN,          \* customizations.hasWork()
        tagged : BOOLEAN,          \* derivedTag is set
        status : Statuses,
        error  : Errors,
        own    : BOOLEAN]  \* history: the VM name was unused at the request
                           \* and nobody else has claimed or made it since

Unused == [pc |-> "unused", id |-> 0, name |-> NoJob, custom |-> FALSE,
           tagged |-> FALSE, status |-> "none", error |-> "none",
           own |-> FALSE]

TypeOK ==
    /\ clock \in Ids
    /\ builds \in [Ids -> Jobs \cup {NoJob}]
    /\ job \in [Jobs -> Job]
    /\ raw \in [Ids -> Content]
    /\ image \in [Ids -> Content]
    /\ oci \in [Ids -> Content]
    /\ qcow2 \in [Ids -> Content]
    /\ vm \in [Names -> {"absent", "Stopped", "Running"}]
    /\ made \in [Jobs -> Content]
    /\ kept \subseteq Jobs \X {"raw", "image"}

Init ==
    /\ clock = 0
    /\ builds = [d \in Ids |-> NoJob]
    /\ job = [j \in Jobs |-> Unused]
    /\ raw = [d \in Ids |-> NoFile]
    /\ image = [d \in Ids |-> NoFile]
    /\ oci = [d \in Ids |-> NoFile]
    /\ qcow2 = [d \in Ids |-> NoFile]
    /\ vm \in [Names -> {"absent", "Stopped", "Running"}]
    /\ made = [j \in Jobs |-> NoFile]
    /\ kept = {}

(* Time passes only where IDs can tell: after a request of the current     *)
(* millisecond and before a further one.                                   *)
Tick ==
    /\ clock < MaxMs
    /\ \E j, k \in Jobs :
          job[j] # Unused /\ job[j].id = clock /\ job[k] = Unused
    /\ clock' = clock + 1
    /\ UNCHANGED <<builds, job, files, vm, made, kept>>

Claimed(n) == \E j \in Jobs : job[j].name = n

(* The builds that asked for the name n share it from now on. *)
Shared(n) ==
    [j \in Jobs |-> IF job[j].name = n THEN [job[j] EXCEPT !.own = FALSE]
                                       ELSE job[j]]

Pending(id, n, custom) ==
    [Unused EXCEPT !.pc = "begin", !.id = id, !.name = n, !.custom = custom,
                   !.status = "pending",
                   !.own = (vm[n] = "absent" /\ ~Claimed(n))]

(* The ID is the clock, the build is entered in the map and its goroutine  *)
(* spawned.                                                                *)
StartBuild(j, n, custom) ==
    /\ job[j] = Unused
    /\ job' = [Shared(n) EXCEPT ![j] = Pending(clock, n, custom)]
    /\ builds' = [builds EXCEPT ![clock] = j]
    /\ UNCHANGED <<clock, files, vm, made, kept>>

------------------------------------------------------------------------------
(* runBuild *)

At(j, pc) == job[j].pc = pc

Goto(j, pc) == job' = [job EXCEPT ![j].pc = pc]

Message(pc) == IF pc = "allocate" THEN "truncate" ELSE "other"

(* Mutant: the message is stored in the status and the status as message. *)
Fail_Swapped(j, pc) ==
    job' = [job EXCEPT ![j] = [@ EXCEPT !.status = Message(job[j].pc),
                                        !.error = "failed", !.pc = pc]]

(* markFailed, and a return into the deferred calls registered so far. *)
Fail(j, pc) ==
    job' = [job EXCEPT ![j] = [@ EXCEPT !.status = "failed",
                                        !.error = Message(job[j].pc),
                                        !.pc = pc]]

Begin(j) ==
    /\ At(j, "begin")
    /\ job' = [job EXCEPT ![j] = [@ EXCEPT !.status = "running", !.pc = "log"]]
    /\ UNCHANGED <<clock, builds, files, vm, made, kept>>

(* Mutant: runBuild returns without markFailed when the log cannot be made. *)
CreateLog_Silent(j) ==
    /\ At(j, "log")
    /\ \/ Goto(j, IF job[j].custom THEN "derive" ELSE "allocate")
       \/ Goto(j, "end")
    /\ UNCHANGED <<clock, builds, files, vm, made, kept>>

CreateLog(j) ==
    /\ At(j, "log")
    /\ \/ Goto(j, IF job[j].custom THEN "derive" ELSE "allocate")
       \/ Fail(j, "end")
    /\ UNCHANGED <<clock, builds, files, vm, made, kept>>

(* buildDerivedImage; only a tag it returned is removed later on. *)
BuildDerivedImage(j) ==
    /\ At(j, "derive")
    /\ \/ /\ image' = [image EXCEPT ![job[j].id] = j]
          /\ job' = [job EXCEPT ![j] = [@ EXCEPT !.tagged = TRUE, !.pc = "allocate"]]
       \/ Fail(j, "end") /\ UNCHANGED image
    /\ UNCHANGED <<clock, builds, raw, oci, qcow2, vm, made, kept>>

(* Mutant: the derived image is not removed. *)
AfterDisk_KeepsImage(j) == "end"

AfterDisk(j) == IF job[j].tagged THEN "rmImage" ELSE "end"

(* truncate -s creates the file, or sizes the one that is there; it may    *)
(* fail after creating it.  The deferred Remove comes after it.            *)
AllocateRaw(j) ==
    LET d == job[j].id
        touched == [raw EXCEPT ![d] = IF @ = NoFile THEN Blank ELSE @]
    IN  /\ At(j, "allocate")
        /\ \/ /\ raw' = touched
              /\ Goto(j, IF job[j].tagged THEN "save" ELSE "install")
           \/ raw' \in {raw, touched} /\ Fail(j, AfterDisk(j))
        /\ UNCHANGED <<clock, builds, image, oci, qcow2, vm, made, kept>>

(* podman save; a failed one may leave part of the archive. *)
SaveImage(j) ==
    LET d == job[j].id IN
    /\ At(j, "save")
    /\ \/ /\ image[d] # NoFile
          /\ oci' = [oci EXCEPT ![d] = image[d]]
          /\ Goto(j, "install")
       \/ oci' \in {oci, [oci EXCEPT ![d] = Blank]} /\ Fail(j, "rmRaw")
    /\ UNCHANGED <<clock, builds, raw, image, qcow2, vm, made, kept>>

(* Mutant: no return after markFailed. *)
Install_NoReturn(j) ==
    /\ At(j, "install")
    /\ raw' = [raw EXCEPT ![job[j].id] = j]
    /\ Goto(j, "convert") \/ Fail(j, "convert")
    /\ UNCHANGED <<clock, builds, image, oci, qcow2, vm, made, kept>>

(* podman run ... bootc install, from the archive inside a container of    *)
(* the derived image, or from the source image.  What it leaves on the disk *)
(* when it fails is not a system.                                           *)
Install(j) ==
    LET d == job[j].id IN
    /\ At(j, "install")
    /\ \/ /\ raw[d] # NoFile
          /\ job[j].tagged => image[d] # NoFile
          /\ raw' = [raw EXCEPT ![d] = IF job[j].tagged THEN oci[d] ELSE j]
          /\ Goto(j, "convert")
       \/ /\ raw' \in {raw, [raw EXCEPT ![d] = IF @ = NoFile THEN @ ELSE Blank]}
          /\ Fail(j, "rmRaw")
    /\ UNCHANGED <<clock, builds, image, oci, qcow2, vm, made, kept>>

(* qemu-img convert; a failed one may leave part of its output. *)
Convert(j) ==
    LET d == job[j].id IN
    /\ At(j, "convert")
    /\ \/ /\ raw[d] # NoFile
          /\ qcow2' = [qcow2 EXCEPT ![d] = raw[d]]
          /\ Goto(j, "create")
       \/ /\ qcow2' \in {qcow2, [qcow2 EXCEPT ![d] = Blank]}
          /\ Fail(j, "rmRaw")
    /\ UNCHANGED <<clock, builds, raw, image, oci, vm, made, kept>>

(* LimaCtl.CreateBootc (external limactl): a new name gets a VM with the   *)
(* build's disk, which may be up although the command times out, or not be *)
(* up; for a name that is taken it only fails.                             *)
CreateVm(j) ==
    LET n == job[j].name  d == job[j].id IN
    /\ At(j, "create")
    /\ \/ /\ vm[n] = "absent" /\ qcow2[d] # NoFile
          /\ \E s \in {"Running", "Stopped"} : vm' = [vm EXCEPT ![n] = s]
          /\ made' = [made EXCEPT ![j] = qcow2[d]]
          /\ \/ vm'[n] = "Running" /\ Goto(j, "finish")
             \/ Goto(j, "probe")
       \/ UNCHANGED <<vm, made>> /\ Goto(j, "probe")
    /\ UNCHANGED <<clock, builds, files, kept>>

(* Mutant: the error is taken for the provisioning timeout unseen. *)
Probe_AssumesRunning(j) ==
    /\ At(j, "probe")
    /\ Goto(j, "finish")
    /\ UNCHANGED <<clock, builds, files, vm, made, kept>>

(* limactl failed: IsRunning decides. *)
Probe(j) ==
    /\ At(j, "probe")
    /\ \/ vm[job[j].name] = "Running" /\ Goto(j, "finish")
       \/ job' = [job EXCEPT ![j] = [@ EXCEPT !.status = "failed",
                                              !.error = "other", !.pc = "rmRaw"]]
    /\ UNCHANGED <<clock, builds, files, vm, made, kept>>

Finish(j) ==
    /\ At(j, "finish")
    /\ job' = [job EXCEPT ![j] = [@ EXCEPT !.status = "complete", !.pc = "rmRaw"]]
    /\ UNCHANGED <<clock, builds, files, vm, made, kept>>

(* A removal that fails. *)
Keep(j, what) ==
    /\ Cardinality(kept) < MaxKept
    /\ kept' = kept \cup {<<j, what>>}

(* The deferred calls, last registered first.  Neither looks at the error  *)
(* of the removal: what cannot be removed stays, and the next call runs.   *)
RemoveRaw(j) ==
    /\ At(j, "rmRaw")
    /\ \/ raw' = [raw EXCEPT ![job[j].id] = NoFile] /\ UNCHANGED kept
       \/ raw[job[j].id] # NoFile /\ UNCHANGED raw /\ Keep(j, "raw")
    /\ Goto(j, AfterDisk(j))
    /\ UNCHANGED <<clock, builds, image, oci, qcow2, vm, made>>

(* Mutant: the clean-up prunes every derived image. *)
RemoveImage_Prunes(j) ==
    /\ At(j, "rmImage")
    /\ image' = [d \in Ids |-> NoFile]
    /\ Goto(j, "end")
    /\ UNCHANGED <<clock, builds, raw, oci, qcow2, vm, made, kept>>

RemoveImage(j) ==
    /\ At(j, "rmImage")
    /\ \/ image' = [image EXCEPT ![job[j].id] = NoFile] /\ UNCHANGED kept
       \/ image[job[j].id] # NoFile /\ UNCHANGED image /\ Keep(j, "image")
    /\ Goto(j, "end")
    /\ UNCHANGED <<clock, builds, raw, oci, qcow2, vm, made>>

------------------------------------------------------------------------------
(* Someone else starts, stops, creates or deletes a VM. *)
Outside(n) ==
    /\ \E s \in {"absent", "Stopped", "Running"} \ {vm[n]} :
          vm' = [vm EXCEPT ![n] = s]
    /\ job' = IF vm[n] = "absent" THEN Shared(n) ELSE job
    /\ UNCHANGED <<clock, builds, files, made, kept>>

(* lima-web is killed and restarted: the map is empty, goroutines and their *)
(* deferred calls are lost, files, images and VMs stay.                     *)
Crash ==
    /\ builds' = [d \in Ids |-> NoJob]
    /\ job' = [j \in Jobs |-> IF job[j].pc \in {"unused", "end"}
                              THEN job[j]
                              ELSE [job[j] EXCEPT !.pc = "dead"]]
    /\ UNCHANGED <<clock, files, vm, made, kept>>

RunBuild(j) ==
    \/ Begin(j)     \/ CreateLog(j) \/ BuildDerivedImage(j) \/ AllocateRaw(j)
    \/ SaveImage(j) \/ Install(j)   \/ Convert(j)           \/ CreateVm(j)
    \/ Probe(j)     \/ Finish(j)    \/ RemoveRaw(j)         \/ RemoveImage(j)

Next ==
    \/ Tick
    \/ \E j \in Jobs, n \in Names, c \in BOOLEAN : StartBuild(j, n, c)
    \/ \E j \in Jobs : RunBuild(j)
    \/ \E n \in Names : Outside(n)
    \/ Crash

Spec == Init /\ [][Next]_vars

(* Goroutines run and every child process ends. *)
Fairness == \A j \in Jobs : WF_vars(RunBuild(j))

FairSpec == Spec /\ Fairness

------------------------------------------------------------------------------
(* Properties *)

(* IDs are milliseconds: a build shares its workspace with any build that  *)
(* was requested in the same one.                                          *)
OwnId(j) ==
    \A k \in Jobs \ {j} : job[k] # Unused => job[k].id # job[j].id

(* While a build with an ID of its own is between truncate and its clean-up *)
(* nobody replaces or removes its raw disk or its derived image, and what  *)
(* it converts is the system it installed itself; the API finds it.        *)
WorkspacePrivate ==
    \A j \in Jobs :
        LET q == job[j] IN
        OwnId(j) =>
          /\ q.pc \in {"save", "install"} => raw[q.id] = Blank
          /\ q.pc = "install" /\ q.tagged => oci[q.id] = j
          /\ q.pc = "convert" => raw[q.id] = j
          /\ q.tagged /\ q.pc \in Work => image[q.id] = j
          /\ q.pc \in {"create", "probe", "finish"} => qcow2[q.id] = j
          /\ q.pc \in Work \cup Cleanup => builds[q.id] = j

(* A complete build has made a VM of its own from the system it installed, *)
(* although completion may rest on IsRunning(name) alone: unless others    *)
(* used its ID or its name, nothing but its own limactl makes that true.   *)
CompleteMadeOwnVm ==
    \A j \in Jobs :
        job[j].status = "complete" /\ job[j].own /\ OwnId(j) => made[j] = j

(* Whichever step failed, what a build that returned leaves behind is what *)
(* its clean-up tried to remove and could not, or a raw disk that truncate *)
(* left: no path out of runBuild goes past the clean-up of what it made.   *)
LeavesOnlyUnremovable ==
    \A j \in Jobs :
        job[j].pc = "end" /\ OwnId(j) =>
          /\ image[job[j].id] # NoFile => <<j, "image">> \in kept
          /\ raw[job[j].id] # NoFile =>
                <<j, "raw">> \in kept \/ job[j].error = "truncate"

Terminal == {"complete", "failed"}

(* A build's outcome is final: no later step of its own, of another build  *)
(* or of a restart rewrites a terminal status or its error.                *)
OutcomeIsFinal ==
    [][\A j \in Jobs :
          job[j].status \in Terminal =>
            /\ job'[j].status = job[j].status
            /\ job'[j].error = job[j].error]_vars

(* The status and the goroutine of each build, as its clients know them. *)
Lifecycle == INSTANCE BuildLifecycle WITH
                phase <- [j \in Jobs |-> job[j].status],
                busy <- {j \in Jobs : job[j].pc \in Work \cup Cleanup}

(* The pipeline, with all its failures, is a single run of the build: no   *)
(* return path leaves a build pending or running, none concludes it twice, *)
(* and none goes on working on a build of a process that is gone.          *)
ImplementsLifecycle == Lifecycle!LifecycleSpec

(* Every build comes to an end with its clean-up done and a terminal       *)
(* status, unless lima-web is killed.                                      *)
EveryBuildEnds ==
    \A j \in Jobs :
        job[j].pc \in Work ~>
          \/ job[j].pc = "end" /\ job[j].status \in Terminal
          \/ job[j].pc = "dead"
=============================================================================
