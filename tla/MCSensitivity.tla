--------------------------- MODULE MCSensitivity ----------------------------
(* Sensitivity for TLC: the requests under way are alike. *)
EXTENDS Sensitivity, TLC

MCSymmetry == Permutations(ReqIds)
=============================================================================
