---------------------------- MODULE SerialLimactl ----------------------------
(***************************************************************************)
(* What LimaCtl (lima.go) promises to the rest of lima-web: limactl's      *)
(* mutating commands are carried out one after the other, each of them     *)
(* takes effect at most once, and machines are stopped or deleted by       *)
(* nothing else.  Others may start a machine (lima-up, which does not go   *)
(* through LimaCtl) and, on the machines of Touched, stop it.              *)
(***************************************************************************)

CONSTANTS
    Instances,   \* names of Lima instances
    Touched,     \* machines that stop without lima-web
    NoInstance   \* the instance of no command

VARIABLES
    vm,        \* limactl's status of each instance
    current    \* the command in progress

svars == <<vm, current>>

Commands == {"start", "stop", "delete"}

NoCommand == [inst |-> NoInstance, cmd |-> "none", done |-> FALSE]

(* The status a command leaves an instance in. *)
Outcome(cmd) == IF cmd = "start" THEN "Running"
                ELSE IF cmd = "stop" THEN "Stopped" ELSE "absent"

SerialInit ==
    /\ vm \in [Instances -> {"absent", "Stopped", "Running"}]
    /\ current = NoCommand

Begin(i, cmd) ==
    /\ current = NoCommand
    /\ current' = [inst |-> i, cmd |-> cmd, done |-> FALSE]
    /\ UNCHANGED vm

Perform ==
    /\ current # NoCommand /\ ~current.done
    /\ current' = [current EXCEPT !.done = TRUE]
    /\ vm' = [vm EXCEPT ![current.inst] = Outcome(current.cmd)]

(* A command may end without having done anything. *)
End ==
    /\ current # NoCommand
    /\ current' = NoCommand
    /\ UNCHANGED vm

OtherStarts(i) ==
    /\ vm' = [vm EXCEPT ![i] = "Running"]
    /\ UNCHANGED current

OtherStops(i) ==
    /\ i \in Touched /\ vm[i] = "Running"
    /\ vm' = [vm EXCEPT ![i] = "Stopped"]
    /\ UNCHANGED current

(* lima-web ends, its command with it, and possibly some machines. *)
Restart ==
    /\ current' = NoCommand
    /\ vm' \in [Instances -> {"absent", "Stopped", "Running"}]
    /\ \A i \in Instances :
          vm'[i] # vm[i] => vm[i] = "Running" /\ vm'[i] = "Stopped"

SerialNext ==
    \/ \E i \in Instances, cmd \in Commands : Begin(i, cmd)
    \/ Perform \/ End
    \/ \E i \in Instances : OtherStarts(i) \/ OtherStops(i)
    \/ Restart

SerialSpec == SerialInit /\ [][SerialNext]_svars
=============================================================================
