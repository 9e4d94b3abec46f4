---------------------------- MODULE MCController ----------------------------
(* Instances of Controller for TLC. *)
EXTENDS Controller, TLC

CONSTANTS ctl, upd          \* two namespaces a prefix may stand for

\* With "controller0" and "update" as rests, prefixes can spell both URIs and
\* names that are neither; the whole URI in the rest is reached through an
\* undeclared prefix or a name without one.
MCControllerUri == {<<ctl, "controller0">>, <<NoUri, "ctl/controller0">>}
MCUpdateUri == {<<upd, "update">>, <<NoUri, "upd#update">>}
MCCreate == [prefix |-> "3dx_rpc", rest |-> "create"]

MCSymmetry == Permutations(CallIds)
=============================================================================
