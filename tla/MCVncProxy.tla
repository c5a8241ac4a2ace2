----------------------------- MODULE MCVncProxy -----------------------------
(* Small instances of VncProxy for TLC. *)
EXTENDS VncProxy, TLC

PortSymmetry == Permutations(Ports)

StartStopDelete == {"start", "stop", "delete"}
=============================================================================
