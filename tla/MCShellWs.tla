----------------------------- MODULE MCShellWs -----------------------------
(* Small instances of ShellWs for TLC. *)
EXTENDS ShellWs

(* A create may be refused at once, a bootc build asks whether it runs. *)
CreateStopBootc == {"create", "stop", "bootc"}
=============================================================================
