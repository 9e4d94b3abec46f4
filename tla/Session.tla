------------------------------ MODULE Session -------------------------------
(***************************************************************************)
(* A controller and its client joined by the two directions of their       *)
(* WebSocket, which neither lose nor reorder messages while it is open.    *)
(*                                                                         *)
(* The client is Onshape's page, which is not part of the repository: it   *)
(* is modelled from what controller.c expects of it and what its comments  *)
(* say it does.  It takes its messages in order, answers an RPC with a     *)
(* result or an error, or, unless it is responsive, never; and its focus   *)
(* comes and goes.  What it reads out carries the property asked for and   *)
(* how many of the bridge's camera writes it has applied (modulo Laps).    *)
(*                                                                         *)
(* The wall clock is steady here, and now stays 0 while the past recedes:  *)
(* only the difference to chain_started is ever used.  Controller.tla has  *)
(* a clock that jumps.                                                     *)
(***************************************************************************)
EXTENDS Controller, SequencesExt

CONSTANTS
    Responsive,         \* whether the client answers every RPC: what may be
    Laps                \* applied writes are counted modulo this

ASSUME SessionAssumption ==
    /\ Responsive \subseteq BOOLEAN /\ Laps \in Nat \ {0}
    /\ Values = [about : Reads, applied : 0..(Laps - 1)]
    /\ Times = (-CHAIN_TIMEOUT)..0
    /\ CREATE \in Names /\ {"controller0", "update"} \subseteq Rests

VARIABLES
    to_client, to_server,   \* messages under way, oldest first
    script,                 \* handshake messages the client has yet to send
    applied,                \* camera writes of the bridge the client applied
    responsive,             \* the client answers every RPC; it never changes
    rpc_age                 \* history: how long the pending RPC is unanswered

svars == <<vars, to_client, to_server, script, applied, responsive, rpc_age>>

NoName(rest) == [prefix |-> NoPrefix, rest |-> rest]
Handshake == <<[type |-> "CALL", proc |-> CREATE, arg |-> "3dmouse"],
               [type |-> "CALL", proc |-> CREATE, arg |-> "known client"],
               [type |-> "SUBSCRIBE", topic |-> NoName("controller0")]>>
FocusUpdate(arg) == [type |-> "CALL", proc |-> NoName("update"), arg |-> arg]

\* A new id is random: it is not that of an RPC or an answer still under way.
Outstanding == {m \in ToSet(to_client) \cup ToSet(to_server) : "id" \in DOMAIN m}
NewIdIsUnused ==
    pending_call_id' # pending_call_id =>
        \A m \in Outstanding : m.id # pending_call_id'

\* What the controller sends goes out; a new RPC starts to age.
Emit ==
    /\ to_client' = to_client \o sent'
    /\ NewIdIsUnused
    /\ rpc_age' = IF pending_call_id' # pending_call_id THEN 0 ELSE rpc_age

----------------------------------------------------------------------------
\* The bridge's side

Deliver ==
    /\ to_server # <<>>
    /\ OnMessage(Head(to_server))
    /\ to_server' = Tail(to_server)
    /\ Emit
    /\ UNCHANGED <<script, applied, responsive>>

MouseEvent(ev) ==
    /\ OnSpnavEvent(ev)
    /\ Emit
    /\ UNCHANGED <<to_server, script, applied, responsive>>

ChangeSensitivity ==
    /\ \E gain \in Gains : SetSensitivity(gain)
    /\ UNCHANGED <<to_client, to_server, script, applied, responsive, rpc_age>>

\* Time passes; beyond CHAIN_TIMEOUT it makes no difference any more.
Elapse ==
    /\ chain # "NONE" /\ now - chain_started < CHAIN_TIMEOUT
    /\ chain_started' = chain_started - 1
    /\ rpc_age' = rpc_age + 1
    /\ Silent
    /\ UNCHANGED <<client, sensitivity, waiting, data, now, chain, step, pending_call_id,
                   active_ev, fresh, to_client, to_server, script, applied, responsive>>

----------------------------------------------------------------------------
\* The client's side (external)

ServerWaits ==
    /\ Silent
    /\ UNCHANGED <<client, sensitivity, running, waiting, data, now, responsive, rpc_age>>

\* The WELCOME, or a reply to one of the client's calls: the next handshake
\* message follows, if there is one left.
TakeReply ==
    /\ to_client # <<>> /\ Head(to_client).type # "CALL"
    /\ to_client' = Tail(to_client)
    /\ to_server' = IF script = <<>> THEN to_server ELSE Append(to_server, Head(script))
    /\ script' = IF script = <<>> THEN script ELSE Tail(script)
    /\ UNCHANGED <<applied>>
    /\ ServerWaits

WritesCamera(rpc) == rpc.method = "self:update" /\ rpc.property = "view.affine"

\* What an RPC gets: a read, an array of the right size, true or something else.
\* Controller.tla has the answers that are not what was asked for.
ResultsOf(rpc) ==
    LET v == [about |-> IF rpc.property \in Reads THEN rpc.property ELSE "model.extents",
              applied |-> applied]
    IN  [kind : CASE rpc.method = "self:update" -> {"other"}
                  [] rpc.property = "view.perspective" -> {"true", "other"}
                  [] rpc.property \in {"view.affine", "views.front"} -> {"sixteen"}
                  [] OTHER -> {"six"},
         v : {v}]

Answer ==
    /\ to_client # <<>> /\ Head(to_client).type = "CALL"
    /\ to_client' = Tail(to_client)
    /\ LET rpc == Head(to_client) IN
       /\ \E result \in ResultsOf(rpc) :
            to_server' = Append(to_server,
                [type |-> "CALLRESULT", id |-> rpc.id, result |-> result])
       /\ applied' = IF WritesCamera(rpc) THEN (applied + 1) % Laps ELSE applied
    /\ UNCHANGED <<script>>
    /\ ServerWaits

\* The client cannot or will not do it, and changes nothing.
Refuse ==
    /\ to_client # <<>> /\ Head(to_client).type = "CALL"
    /\ to_client' = Tail(to_client)
    /\ to_server' = Append(to_server, [type |-> "CALLERROR", id |-> Head(to_client).id])
    /\ UNCHANGED applied
    /\ UNCHANGED <<script>>
    /\ ServerWaits

\* The RPC is taken, and nothing ever comes back.
Ignore ==
    /\ ~responsive
    /\ to_client # <<>> /\ Head(to_client).type = "CALL"
    /\ to_client' = Tail(to_client)
    /\ applied' \in {applied, IF WritesCamera(Head(to_client))
                              THEN (applied + 1) % Laps ELSE applied}
    /\ UNCHANGED <<to_server, script>>
    /\ ServerWaits

\* A bound of the model: one focus update or its reply is under way at a time.
ChangeFocus ==
    /\ script = <<>>
    /\ \A m \in ToSet(to_server) : m.type # "CALL"
    /\ \A m \in ToSet(to_client) : m.type = "CALL"
    /\ \E arg \in {"focus true", "focus false"} :
         to_server' = Append(to_server, FocusUpdate(arg))
    /\ UNCHANGED <<to_client, script, applied>>
    /\ ServerWaits

----------------------------------------------------------------------------

SInit ==
    /\ Init /\ now = 0
    /\ to_client = sent /\ to_server = <<>>
    /\ script = Handshake
    /\ applied = 0
    /\ responsive \in Responsive
    /\ rpc_age = 0

TakeMessage == TakeReply \/ Answer \/ Refuse \/ Ignore
ClientNext == TakeMessage \/ ChangeFocus
SNext ==
    \/ Deliver
    \/ \E ev \in Events : MouseEvent(ev)
    \/ ChangeSensitivity
    \/ Elapse
    \/ ClientNext

SSpec == SInit /\ [][SNext]_svars

\* The poll loop reads whatever has arrived (main.c), and the client takes its
\* messages, whether it answers or not.
FairSpec == SSpec /\ WF_svars(Deliver) /\ WF_svars(TakeMessage)

\* Time passes, and the user does not let go of the mouse.
MouseInUse == WF_svars(Elapse) /\ WF_svars(\E ev \in Events : MouseEvent(ev))

----------------------------------------------------------------------------
\* Properties

\* Whatever the chain has read is what it asked for: a late answer to an RPC of
\* an abandoned chain is never taken for the answer the new chain awaits.
AnswersReachTheirStep ==
    chain # "NONE" =>
        /\ "model_extents" \in fresh => model_extents.about = "model.extents"
        /\ "curr_affine" \in fresh => curr_affine.about = "view.affine"
        /\ "view_extents" \in fresh => view_extents.base.about = "view.extents"

\* No motion is lost to a later one: when the client comes to apply a camera
\* the bridge computed, the camera that was computed from already has every
\* earlier camera the bridge wrote, those of abandoned chains included.
NoOwnWriteLost ==
    to_client # <<>> =>
        LET rpc == Head(to_client) IN
        rpc.type = "CALL" /\ WritesCamera(rpc) /\ "base" \in DOMAIN rpc.value =>
            rpc.value.base \in Values /\ rpc.value.base.applied = applied

\* "The client never answered" (controller.c, at the timeout): a chain is only
\* abandoned when its pending RPC has been unanswered for CHAIN_TIMEOUT.
AbandonedOnlyIfUnanswered ==
    [][chain # "NONE" /\ ChainBegins /\ UNCHANGED to_server =>
         rpc_age >= CHAIN_TIMEOUT]_svars

\* A connection never gets wedged: while the client wants events and they keep
\* coming, chains keep beginning, even if nothing is ever answered again.
NeverWedged ==
    MouseInUse => (<>[]WantsEvents => []<><<ChainBegins>>_svars)

\* A responsive client gets its queued view reset served, or a timeout drops
\* it; it does not wait for ever.
QueuedResetEnds == responsive => (have_pending_button ~> ~have_pending_button)

=============================================================================
