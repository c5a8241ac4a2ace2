---------------------------- MODULE MCFunctions ----------------------------
(***************************************************************************)
(* The functions of LimaOutput and QemuWrapper on every input up to a      *)
(* length, built up one line or one option at a time, and the wrapper on   *)
(* successive starts of one machine.                                       *)
(***************************************************************************)
EXTENDS LimaOutput, QemuWrapper

CONSTANTS MaxLines, MaxArgs   \* bounds on the inputs

VARIABLES
    log,       \* limactl's stderr
    out,       \* limactl's list
    args,      \* Lima's command line for QEMU
    template,  \* the firmware comes with a VARS file to copy
    cdrom,     \* LIMA_CDROM names a file
    varsFile   \* the instance's VARS file: none or copied

fnvars == <<log, out, args, template, cdrom, varsFile>>
command == <<args, template, cdrom, varsFile>>

Levels == {"fatal", "error", "info"}

LogLines == {Blank, Text("a")} \cup {Logged(l, m) : l \in Levels,
                                                    m \in {NoText, "a", "b"}}

Machines == {"vm1", "vm2"}

ListLines == {Empty, Garbage}
    \cup {Listed(n, s) : n \in Machines, s \in {"Running", "Stopped"}}

Options == {Machine("q35", "kvm", FALSE), Machine("q35", "none", TRUE),
            Machine("virt", "hvf", FALSE), Option("accel", "kvm"),
            Option("cpu", "host"), Option("cpu", "qemu64"), Code, Vars,
            Option("drive", "disk"), Option("pidfile", "qemu.pid")}

FunctionsInit ==
    /\ log = <<>> /\ out = <<>> /\ args = <<>>
    /\ template \in BOOLEAN /\ cdrom \in BOOLEAN
    /\ varsFile = "none"

(* One input at a time. *)
AddLogLine ==
    /\ out = <<>> /\ args = <<>> /\ Len(log) < MaxLines
    /\ \E line \in LogLines : log' = Append(log, line)
    /\ UNCHANGED <<out, command>>

AddListLine ==
    /\ log = <<>> /\ args = <<>> /\ Len(out) < MaxLines
    /\ \E line \in ListLines : out' = Append(out, line)
    /\ UNCHANGED <<log, command>>

AddOption ==
    /\ log = <<>> /\ out = <<>> /\ Len(args) < MaxArgs /\ varsFile = "none"
    /\ \E o \in Options : args' = Append(args, o)
    /\ UNCHANGED <<log, out, template, cdrom, varsFile>>

Wrapped == WrappedArgs(args, varsFile, template, cdrom)

(* The machine is started, with or without an earlier start's copy; its    *)
(* next start may be in an image that has another firmware.                *)
StartQemu ==
    /\ args # <<>>
    /\ varsFile' = VarsAfter(args, varsFile, template)
    /\ template' \in BOOLEAN
    /\ UNCHANGED <<log, out, args, cdrom>>

FunctionsNext ==
    \/ AddLogLine \/ AddListLine \/ AddOption \/ StartQemu

FunctionsSpec == FunctionsInit /\ [][FunctionsNext]_fnvars

------------------------------------------------------------------------------
(* Properties *)

(* Of the lines with an error that says what is wrong, or else of the lines *)
(* that are not blank, the last one.                                       *)
LastError(lines) ==
    LET bad == {n \in DOMAIN lines :
                   IsError(lines[n]) /\ lines[n].msg # NoText}
        any == {n \in DOMAIN lines : lines[n].kind # "blank"}
    IN  IF bad # {} THEN lines[Max(bad)].msg
        ELSE IF any = {} THEN NoText
        ELSE LET last == lines[Max(any)] IN
             IF last.msg = NoText THEN Raw(last.level) ELSE last.msg

(* The error of a failed limactl is its last fatal or error message, or    *)
(* else the last line that is not blank (lima.go:221).                     *)
ErrorIsLastError == ExtractLimaError(log) = LastError(log)

(* The two readers of limactl's list, one strict and one lenient, agree    *)
(* on an instance that a well-formed list holds (lima.go:93, 169).         *)
ReadersAgree ==
    \A name \in Machines :
        /\ ParseNDJSON(out).ok
        /\ \E n \in Lines(out) : out[n].name = name
        => IsRunning(out, name) = (Get(out, name).status = "Running")

Places(options, Test(_)) == {n \in DOMAIN options : Test(options[n])}

(* What the wrapper has not added. *)
IsLimas(o) == o # OwnVars /\ o.opt # "cdrom"

(* The options of a command line that come from Lima's are those that Lima *)
(* gave, one for one and in their order, but for what asks for KVM; the    *)
(* writable pflash drives are Lima's, or else the one that can be had.     *)
TcgVersionOf(new, options, file, copy) ==
    LET kept == Places(new, IsLimas)
        Rank(n) == Cardinality({m \in kept : m <= n})
        drives == Cardinality(Places(new, IsVars))
    IN  /\ Cardinality(kept) = Len(options)
        /\ \A n \in kept :
              LET o == new[n]  a == options[Rank(n)] IN
              /\ o.opt = a.opt
              /\ o.opt = "machine" => o.val.accel \notin Hypervisors
              /\ o.opt = "accel" => o.val \notin Hypervisors
              /\ o.opt = "cpu" => o.val \notin KvmCpus
              /\ o.opt \in {"drive", "pidfile"} => o = a
        /\ drives = IF Has(options, IsVars)
                    THEN Cardinality(Places(options, IsVars))
                    ELSE IF /\ Has(options, IsCode) /\ Has(options, IsPidfile)
                            /\ copy \/ file # "none"
                    THEN 1 ELSE 0

(* No option that needs KVM reaches QEMU, and nothing else of what Lima    *)
(* asked for is lost or reordered.  A firmware without a writable pflash   *)
(* gets one if there is a way, and never two; a machine that has one keeps *)
(* its own (qemu-tcg-wrapper.sh:52, 84).                                   *)
RunsOnTcg == TcgVersionOf(Wrapped, args, varsFile, template)
=============================================================================
