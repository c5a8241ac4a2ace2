------------------------------ MODULE MCLimaWeb ------------------------------
(* Small instances of LimaWeb for TLC. *)
EXTENDS LimaWeb, TLC

(* Goroutines are interchangeable, and so are ports. *)
RequestPortSymmetry == Permutations(Requests) \cup Permutations(Ports)

RequestSymmetry == Permutations(Requests)

(* A create is a start that may be refused at once; web_answers has both. *)
AllButCreate == AllOps \ {"create"}

StopStart == {"start", "stop"}
=============================================================================
