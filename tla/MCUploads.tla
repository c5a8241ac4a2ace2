----------------------------- MODULE MCUploads -----------------------------
(* Small instances of Uploads for TLC. *)
EXTENDS Uploads, TLC

TransferSymmetry == Permutations(Transfers)

Two == 1..2

OneOfEach == [f \in Files |-> CASE f = "box.img" -> "image"
                                [] f = "box.iso" -> "iso"
                                [] OTHER -> "template"]

(* All files have the same stem, which is also the first instance's name. *)
FirstName == [f \in Files |-> 1]
=============================================================================
