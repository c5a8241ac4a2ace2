--------------------------- MODULE BuildLifecycle ---------------------------
(***************************************************************************)
(* What BootcManager (bootc.go) promises about a build, whatever happens   *)
(* in its pipeline: it is run once, by one goroutine, and concludes        *)
(* complete or failed, once and for all, before the goroutine ends.  Only  *)
(* the end of lima-web takes the goroutine away earlier.                   *)
(***************************************************************************)

CONSTANT Jobs    \* builds

VARIABLES
    phase,   \* the status a build shows
    busy     \* builds with a goroutine

lvars == <<phase, busy>>

Outcomes == {"complete", "failed"}

LifecycleInit ==
    /\ phase = [j \in Jobs |-> "none"]
    /\ busy = {}

Request(j) ==
    /\ phase[j] = "none"
    /\ phase' = [phase EXCEPT ![j] = "pending"]
    /\ busy' = busy \cup {j}

Start(j) ==
    /\ phase[j] = "pending" /\ j \in busy
    /\ phase' = [phase EXCEPT ![j] = "running"]
    /\ UNCHANGED busy

(* The goroutine may have deferred calls left, or be at its end. *)
Conclude(j) ==
    /\ phase[j] = "running" /\ j \in busy
    /\ \E o \in Outcomes : phase' = [phase EXCEPT ![j] = o]
    /\ busy' \in {busy, busy \ {j}}

Leave(j) ==
    /\ phase[j] \in Outcomes /\ j \in busy
    /\ busy' = busy \ {j}
    /\ UNCHANGED phase

Kill ==
    /\ busy' = {}
    /\ UNCHANGED phase

LifecycleNext ==
    \/ \E j \in Jobs : Request(j) \/ Start(j) \/ Conclude(j) \/ Leave(j)
    \/ Kill

LifecycleSpec == LifecycleInit /\ [][LifecycleNext]_lvars
=============================================================================
