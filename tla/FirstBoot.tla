----------------------------- MODULE FirstBoot -----------------------------
(***************************************************************************)
(* What the customisations of a bootc build (bootc.go) come to: a          *)
(* Containerfile is generated from them, podman build executes it in       *)
(* order, and in the guest a oneshot service that the Containerfile has    *)
(* embedded configures GNOME Remote Desktop at boot, before its daemon     *)
(* starts, until a marker file says that it is done.                       *)
(***************************************************************************)
EXTENDS Naturals, Sequences

CONSTANT MaxTrouble   \* bound on power losses and failing commands in a guest

ASSUME FirstBootAssumption == MaxTrouble \in Nat

VARIABLES
    wants,     \* the customisations asked for
    status,    \* of the derived image: none, building, built, failed
    next,      \* the instruction podman build executes next
    programs,  \* what is installed in the image
    files,     \* what the Containerfile has written into it
    units,     \* services it has enabled
    power,     \* whether the guest is on
    command,   \* the command of the setup script to run next, 0 for none
    settings,  \* what the script has done to the guest's disk
    key,       \* the TLS key: how many were made before it and with it
    crt,       \* the certificate, by the key it belongs to
    trouble    \* power losses and failures so far

fvars == <<wants, status, next, programs, files, units,
           power, command, settings, key, crt, trouble>>
imageVars == <<wants, status, next, programs, files, units>>
guestVars == <<power, command, settings, key, crt, trouble>>

Customizations == {"ssh", "rdp", "packages", "custom"}
Programs == {"sshd", "grdctl", "openssl"}
RdpUnits == {"gnome-rdp-setup", "gnome-remote-desktop"}

Part(c, wanted, instructions) == IF c \in wanted THEN instructions ELSE <<>>

(* Mutant: only the setup service is enabled. *)
EnableUnits_SetupOnly(c) ==
    (IF "ssh" \in c THEN {"sshd"} ELSE {})
        \cup (IF "rdp" \in c THEN {"gnome-rdp-setup"} ELSE {})

EnableUnits(c) ==
    (IF "ssh" \in c THEN {"sshd"} ELSE {})
        \cup (IF "rdp" \in c THEN RdpUnits ELSE {})

(* The instructions after FROM, in the order they are written. *)
Containerfile(c) ==
    Part("ssh", c, <<"install-ssh">>)
        \o Part("rdp", c, <<"install-rdp", "embed-script", "embed-unit">>)
        \o Part("packages", c, <<"install-packages">>)
        \o (IF EnableUnits(c) # {} THEN <<"enable">> ELSE <<>>)
        \o Part("custom", c, <<"custom">>)

Instruction == Containerfile(wants)[next]

(* systemctl enable knows the unit. *)
UnitExists(u) ==
    /\ u = "sshd" => "sshd" \in programs
    /\ u = "gnome-rdp-setup" => "unit" \in files
    /\ u = "gnome-remote-desktop" => "grdctl" \in programs

(* The setup script; openssl writes the key and then the certificate. *)
Script == <<"mkdir", "key", "crt", "chown", "enable", "set-tls-cert",
            "set-tls-key", "set-credentials", "disable-view-only", "touch">>

Configured == {"chown", "enable", "set-tls-cert", "set-tls-key",
               "set-credentials", "disable-view-only"}

FirstBootTypeOK ==
    /\ wants \subseteq Customizations
    /\ status \in {"none", "building", "built", "failed"}
    /\ next \in 1..Len(Containerfile(Customizations)) + 1
    /\ programs \subseteq Programs
    /\ files \subseteq {"script", "unit"}
    /\ units \subseteq RdpUnits \cup {"sshd"}
    /\ power \in {"off", "on"}
    /\ command \in 0..Len(Script)
    /\ settings \subseteq {Script[n] : n \in 1..Len(Script)}
    /\ key \in 0..MaxTrouble + 1 /\ crt \in 0..key
    /\ trouble \in 0..MaxTrouble

FirstBootInit ==
    /\ wants = {} /\ status = "none" /\ next = 1
    /\ programs = {} /\ files = {} /\ units = {}
    /\ power = "off" /\ command = 0 /\ settings = {}
    /\ key = 0 /\ crt = 0 /\ trouble = 0

------------------------------------------------------------------------------
(* podman build *)

(* hasWork: a build without customisations makes no derived image.  The    *)
(* source image may have any of the programs.                              *)
GenerateContainerfile(c) ==
    /\ status \in {"none", "failed"} /\ c # {}
    /\ wants' = c /\ status' = "building" /\ next' = 1
    /\ programs' \in SUBSET Programs
    /\ files' = {} /\ units' = {}
    /\ UNCHANGED guestVars

Building(i) == status = "building" /\ next <= Len(Containerfile(wants))
               /\ Instruction = i

Advance == next' = next + 1 /\ UNCHANGED <<wants, status, guestVars>>

(* Nothing is installed when the program is there already, or when both    *)
(* package managers fail, which is ignored.                                *)
Install(i, program, packages) ==
    /\ Building(i)
    /\ programs' \in IF program \in programs THEN {programs}
                     ELSE {programs, programs \cup packages}
    /\ Advance /\ UNCHANGED <<files, units>>

InstallSsh == Install("install-ssh", "sshd", {"sshd"})
InstallRdp == Install("install-rdp", "grdctl", {"grdctl", "openssl"})

(* Extra packages may bring any of the programs, or none. *)
InstallPackages ==
    /\ Building("install-packages")
    /\ programs' \in {programs \cup p : p \in SUBSET Programs}
    /\ Advance /\ UNCHANGED <<files, units>>

Embed(i, file) ==
    /\ Building(i)
    /\ files' = files \cup {file}
    /\ Advance /\ UNCHANGED <<programs, units>>

EmbedScript == Embed("embed-script", "script")
EmbedUnit == Embed("embed-unit", "unit")

(* All units or none; an unknown one fails the instruction. *)
EnableServices ==
    /\ Building("enable")
    /\ \A u \in EnableUnits(wants) : UnitExists(u)
    /\ units' = units \cup EnableUnits(wants)
    /\ Advance /\ UNCHANGED <<programs, files>>

(* The user's own instructions, which leave the rest alone. *)
Custom ==
    /\ Building("custom")
    /\ Advance /\ UNCHANGED <<programs, files, units>>

(* Any instruction may fail, and the build with it. *)
InstructionFails ==
    /\ status = "building" /\ next <= Len(Containerfile(wants))
    /\ status' = "failed"
    /\ UNCHANGED <<wants, next, programs, files, units, guestVars>>

ImageBuilt ==
    /\ status = "building" /\ next = Len(Containerfile(wants)) + 1
    /\ status' = "built"
    /\ UNCHANGED <<wants, next, programs, files, units, guestVars>>

PodmanBuild ==
    \/ InstallSsh \/ InstallRdp \/ InstallPackages \/ EmbedScript \/ EmbedUnit
    \/ EnableServices \/ Custom \/ InstructionFails \/ ImageBuilt

------------------------------------------------------------------------------
(* The guest *)

Marker == "touch" \in settings

(* The unit's condition and the script's first line look for the marker. *)
SetupDue == "gnome-rdp-setup" \in units /\ ~Marker

Boot ==
    /\ status = "built" /\ power = "off"
    /\ power' = "on"
    /\ command' = IF SetupDue THEN 1 ELSE 0
    /\ UNCHANGED <<imageVars, settings, key, crt, trouble>>

Running(c) == command # 0 /\ Script[command] = c

(* Mutant: the last command is not noticed. *)
NextCommand_OffByOne == command' = command + 1

NextCommand == command' = IF command = Len(Script) THEN 0 ELSE command + 1

(* Mutant: mkdir without -p. *)
CanRun_MkdirOnce ==
    /\ Running("mkdir") => "mkdir" \notin settings
    /\ Running("key") \/ Running("crt") => "openssl" \in programs

CanRun == Running("key") \/ Running("crt") => "openssl" \in programs

CommandSucceeds ==
    /\ command # 0 /\ CanRun
    /\ settings' = settings \cup {Script[command]}
    /\ key' = IF Running("key") THEN key + 1 ELSE key
    /\ crt' = IF Running("crt") THEN key ELSE crt
    /\ NextCommand
    /\ UNCHANGED <<imageVars, power, trouble>>

(* Mutant: the script goes on after a failing command. *)
CommandFails_GoesOn ==
    /\ command # 0
    /\ \/ ~CanRun /\ UNCHANGED trouble
       \/ trouble < MaxTrouble /\ trouble' = trouble + 1
    /\ NextCommand
    /\ UNCHANGED <<imageVars, power, settings, key, crt>>

(* set -e: the service fails, and the boot goes on without it. *)
CommandFails ==
    /\ command # 0
    /\ \/ ~CanRun /\ UNCHANGED trouble
       \/ trouble < MaxTrouble /\ trouble' = trouble + 1
    /\ command' = 0
    /\ UNCHANGED <<imageVars, power, settings, key, crt>>

PowerLoss ==
    /\ power = "on" /\ trouble < MaxTrouble
    /\ power' = "off" /\ command' = 0 /\ trouble' = trouble + 1
    /\ UNCHANGED <<imageVars, settings, key, crt>>

(* Once the boot is over. *)
Shutdown ==
    /\ power = "on" /\ command = 0
    /\ power' = "off"
    /\ UNCHANGED <<imageVars, command, settings, key, crt, trouble>>

Setup == CommandSucceeds \/ CommandFails

FirstBootNext ==
    \/ \E c \in SUBSET Customizations : GenerateContainerfile(c)
    \/ PodmanBuild
    \/ Boot \/ Setup \/ PowerLoss \/ Shutdown

FirstBootSpec == FirstBootInit /\ [][FirstBootNext]_fvars

(* Commands end, well unless something is the matter with the guest.  A    *)
(* user who boots a guest need not do so again.                            *)
FirstBootFairness ==
    /\ WF_fvars(PodmanBuild)
    /\ WF_fvars(Setup)

FirstBootFairSpec == FirstBootSpec /\ FirstBootFairness

------------------------------------------------------------------------------
(* Properties *)

(* Failing package managers are ignored, yet an image that was built has   *)
(* the services it was asked for: enabling what is not there fails, unless *)
(* the user's own instructions undo it.                                    *)
BuiltHasServices ==
    status = "built" =>
        /\ "ssh" \in wants => "sshd" \in programs \cap units
        /\ "rdp" \in wants =>
              /\ "grdctl" \in programs /\ files = {"script", "unit"}
              /\ RdpUnits \subseteq units

(* The marker stands for a complete configuration and for a certificate    *)
(* that belongs to its key, wherever earlier runs of the script were cut   *)
(* off or failed.                                                          *)
MarkerMeansConfigured ==
    Marker => Configured \subseteq settings /\ key # 0 /\ crt = key

(* A guest that is booted again and again gets its remote desktop in the   *)
(* end: what a run that was cut off left behind does not stop a later one. *)
(* It does take openssl, which nothing installs next to a grdctl that is   *)
(* already in the source image (bootc.go:186).                             *)
SetupCompletes ==
    []<>(power = "on") /\ []<>(power = "off") =>
        (power = "on" /\ "rdp" \in wants /\ "openssl" \in programs ~> Marker)
=============================================================================
