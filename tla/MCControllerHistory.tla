------------------------- MODULE MCControllerHistory ------------------------
(* ControllerHistory for TLC: the log is cut off at MaxBacklog events. *)
EXTENDS ControllerHistory, TLC

CONSTANTS MaxBacklog

MCControllerUri == {<<NoUri, "ctl/controller0">>}
MCUpdateUri == {<<NoUri, "upd#update">>}
MCCreate == [prefix |-> NoPrefix, rest |-> "create"]

MCNext == HNext /\ Len(arrived') <= MaxBacklog
MCSpec == HInit /\ [][MCNext]_hvars

MCSymmetry == Permutations(CallIds)
=============================================================================
