--------------------------- MODULE MCRemoteDesktop ---------------------------
(* Small instances of RemoteDesktop for TLC. *)
EXTENDS RemoteDesktop

(* Every guest has both servers: an enable may end up with either. *)
BothServers == [i \in Guests |-> {"grd", "xrdp"}]
=============================================================================
