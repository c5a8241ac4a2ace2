---------------------------- MODULE QemuWrapper ----------------------------
(***************************************************************************)
(* qemu-tcg-wrapper.sh: the QEMU command line that Lima has made for KVM   *)
(* becomes one for software emulation.  A command line is a sequence of    *)
(* options with their values.                                              *)
(***************************************************************************)
EXTENDS Naturals, Sequences, SequencesExt

Option(opt, val) == [opt |-> opt, val |-> val]

(* -machine <type>[,accel=<accel>][,vmport=off] *)
Machine(type, accel, vmport) ==
    Option("machine", [type |-> type, accel |-> accel, vmportOff |-> vmport])

(* -drive if=pflash,readonly=on,file=..., a pflash drive that is writable,  *)
(* or another drive.                                                        *)
Code == Option("drive", "code")
Vars == Option("drive", "vars")

(* The VARS file in the instance directory. *)
OwnVars == Option("drive", "own-vars")

IsCode(o) == o = Code
IsVars(o) == o \in {Vars, OwnVars}

Has(args, Test(_)) == \E n \in DOMAIN args : Test(args[n])

IsPidfile(o) == o.opt = "pidfile"

(* Pass 1: there is a firmware, nothing to store its variables in, a place *)
(* for a copy (the pidfile's directory), and a copy there or one to make.  *)
CanInject(args, varsFile, template) ==
    /\ Has(args, IsCode) /\ ~Has(args, IsVars) /\ Has(args, IsPidfile)
    /\ varsFile # "none" \/ template

(* What becomes of <instance>/ovmf_vars.fd: the copy is made once. *)
VarsAfter(args, varsFile, template) ==
    IF CanInject(args, varsFile, template) /\ varsFile = "none"
    THEN "copied" ELSE varsFile

KvmCpus == {"host", "kvm64", "kvm32"}
Hypervisors == {"kvm", "hvf"}

(* Pass 2, for one option. *)
Rewrite(o) ==
    CASE o.opt = "machine" ->
            Machine(o.val.type,
                    IF o.val.accel \in Hypervisors THEN "none" ELSE o.val.accel,
                    o.val.vmportOff \/ o.val.type = "q35")
      [] o.opt = "accel" /\ o.val \in Hypervisors ->
            Option("accel", "tcg,thread=multi,tb-size=512")
      [] o.opt = "cpu" /\ o.val \in KvmCpus -> Option("cpu", "max")
      [] OTHER -> o

(* Mutant: the drive is injected after every read-only pflash. *)
WrappedArgs_EachCode(args, varsFile, template, cdrom) ==
    LET Piece(n) == <<Rewrite(args[n])>>
                        \o (IF CanInject(args, varsFile, template)
                               /\ IsCode(args[n]) THEN <<OwnVars>> ELSE <<>>)
    IN  FlattenSeq([n \in DOMAIN args |-> Piece(n)])

(* The injected drive follows the first read-only pflash. *)
WrappedArgs(args, varsFile, template, cdrom) ==
    LET new == [n \in DOMAIN args |-> Rewrite(args[n])]
        code == SelectInSeq(args, IsCode)
    IN  (IF CanInject(args, varsFile, template)
         THEN InsertAt(new, code + 1, OwnVars) ELSE new)
            \o (IF cdrom THEN <<Option("cdrom", "iso")>> ELSE <<>>)
=============================================================================
