----------------------------- MODULE MCSession ------------------------------
(* Instances of Session for TLC. *)
EXTENDS Session, TLC

MCValues == [about : Reads, applied : 0..(Laps - 1)]
MCTimes == (-CHAIN_TIMEOUT)..0
MCControllerUri == {<<NoUri, "controller0">>}
MCUpdateUri == {<<NoUri, "update">>}
MCCreate == NoName("create")
MCSymmetry == Permutations(CallIds)
=============================================================================
