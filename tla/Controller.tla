----------------------------- MODULE Controller -----------------------------
(***************************************************************************)
(* src/src/controller.c: the state machine the bridge keeps for one client *)
(* that has been upgraded to a WebSocket.  It answers the client's WAMP v1 *)
(* handshake and, once the client is known, subscribed and focused, turns  *)
(* each motion or button event of the 3D mouse into a chain of RPCs sent   *)
(* to the client: reads of its view, then writes of the new one.  One      *)
(* chain runs at a time, its next RPC sent from the answer to the last;    *)
(* what arrives meanwhile waits in one motion slot and one button flag.    *)
(*                                                                         *)
(* Each call of on_message, on_spnav_event or set_sensitivity is one step: *)
(* the program is single-threaded and none of them blocks.  Nothing is     *)
(* assumed of the client here: any message may arrive at any time.         *)
(* Session.tla adds the client and the channels.                           *)
(*                                                                         *)
(* Arrays of numbers are opaque: Values are those a client sends, Garbage  *)
(* is anything else a buffer may hold (calloc's zeros, or an array that    *)
(* json_to_floats abandoned half way).  A name is a prefix and a rest.     *)
(***************************************************************************)
EXTENDS Integers, Sequences, FiniteSetsExt

CONSTANTS
    Motions,            \* the axis readings of a motion event (struct sb_event)
    ZeroMotion,         \* the zeroed sb_event a controller starts with
    Gains,              \* accepted sensitivities
    DefaultGain,        \* CONTROLLER_DEFAULT_SENSITIVITY
    Values, Garbage,    \* contents of float buffers, see above
    NoValue,            \* no payload: the value of a read, and TRUE of "motion"
    CallIds, NoCall,    \* RPC ids (wamp_gen_id), and the empty initial one
    Times,              \* readings of the wall clock, time(NULL)
    CHAIN_TIMEOUT,      \* in the unit of Times
    MAX_PREFIXES,       \* entries of the prefix table
    PrefixNames, NoPrefix,   \* what may stand before a ':', and "no colon"
    BaseUris, NoUri,    \* what a prefix may stand for, and the empty string
    Rests,              \* what may follow the colon
    CONTROLLER_URI, UPDATE_URI, \* the <<base, rest>> pairs that spell them
    CREATE              \* the name "3dx_rpc:create", compared unresolved

ASSUME MotionAssumption == ZeroMotion \in Motions
ASSUME GainAssumption == DefaultGain \in Gains
ASSUME DataAssumption == Garbage \notin Values
ASSUME CallIdAssumption == NoCall \notin CallIds
ASSUME TimeAssumption == Times \subseteq Int /\ CHAIN_TIMEOUT \in Nat \ {0}
ASSUME PrefixAssumption == MAX_PREFIXES \in Nat /\ NoPrefix \notin PrefixNames
ASSUME UriAssumption ==
    /\ NoUri \notin BaseUris
    /\ CONTROLLER_URI \cap UPDATE_URI = {}

VARIABLES
    hs, known_client, subscribed, focus, \* the handshake and the client's state
    prefixes,          \* prefixes[0..nprefixes-1]
    closing,           \* on_message failed: main.c reads this client no more
    sensitivity,
    chain, step, pending_call_id, chain_started,
    active_ev, pending_motion, have_pending_motion, have_pending_button,
    model_extents, perspective, curr_affine, new_affine, view_extents,
    now,               \* the wall clock
    sent,              \* the messages the last step sent, at most one
    fresh              \* history: the fields read since the chain began

client == <<hs, known_client, subscribed, focus, prefixes, closing>>
waiting == <<pending_motion, have_pending_motion, have_pending_button>>
running == <<chain, step, pending_call_id, chain_started, active_ev, fresh>>
data == <<model_extents, perspective, curr_affine, new_affine, view_extents>>
vars == <<client, sensitivity, running, waiting, data, now, sent>>

----------------------------------------------------------------------------
\* Data and messages

Stored == Values \cup {Garbage}
Affines == [base : Stored, ev : Motions, gain : Gains, extents : Stored]
Extents == [base : Stored, ev : Motions, gain : Gains]

\* The result of a CALLRESULT, as json_to_floats and cJSON_IsTrue tell them
\* apart: 16 or more numbers, 6 to 15 of them, an array of 16 or more in which
\* something is not a number, true (or a non-zero number), anything else.
Results == [kind : {"sixteen", "six", "mixed", "true", "other"}, v : Values]

\* json_to_floats(arr, out, n): whether it succeeds, and what out then holds
IsFloats(result, n) ==
    result.kind = "sixteen" \/ (result.kind = "six" /\ n = 6)
JsonToFloats(result, out, n) ==
    IF IsFloats(result, n) THEN result.v
    ELSE IF result.kind = "mixed" THEN Garbage ELSE out

Names == [prefix : PrefixNames \cup {NoPrefix}, rest : Rests]
CallArgs == {"3dmouse", "known client", "unknown client",
             "focus true", "focus false", "other"}
Messages ==
    [type : {"PREFIX"}, prefix : PrefixNames, uri : BaseUris]
        \cup [type : {"CALL"}, proc : Names, arg : CallArgs]
        \cup [type : {"SUBSCRIBE"}, topic : Names]
        \cup [type : {"CALLRESULT"}, id : CallIds, result : Results]
        \cup [type : {"CALLERROR"}, id : CallIds]
        \cup [type : {"MALFORMED"}]

Reads == {"model.extents", "view.perspective", "view.affine", "view.extents",
          "views.front"}
Writes == {"motion", "view.extents", "view.affine"}
MotionSteps == {"MSTEP_READ_EXTENTS", "MSTEP_READ_PERSPECTIVE",
                "MSTEP_READ_AFFINE", "MSTEP_READ_VIEWEXTENTS",
                "MSTEP_WRITE_MOTION", "MSTEP_WRITE_VIEWEXTENTS",
                "MSTEP_WRITE_AFFINE"}
ButtonSteps == {"BSTEP_READ_EXTENTS", "BSTEP_READ_FRONT",
                "BSTEP_WRITE_AFFINE", "BSTEP_WRITE_EXTENTS"}

----------------------------------------------------------------------------
\* RPCs.  Ids are 18 random characters: the next one differs from the last.

Rpc(method, property, value) ==
    \E id \in CallIds \ {pending_call_id} :
        /\ pending_call_id' = id
        /\ sent' = <<[type |-> "CALL", id |-> id, method |-> method,
                      property |-> property, value |-> value]>>
RpcRead(property) == Rpc("self:read", property, NoValue)
RpcWrite(property, value) == Rpc("self:update", property, value)

Reply(type) == sent' = <<[type |-> type]>>
Silent == sent' = <<>>

----------------------------------------------------------------------------
\* Chains.  These operators set running', waiting' and sent'.

StartMotionChain(ev) ==
    /\ active_ev' = ev
    /\ chain' = "MOTION" /\ step' = "MSTEP_READ_EXTENTS"
    /\ chain_started' = now
    /\ fresh' = {}
    /\ RpcRead("model.extents")

\* Mutant: the step is left where the last chain was.
StartButtonChainKeepsStep ==
    /\ chain' = "BUTTON"
    /\ chain_started' = now
    /\ fresh' = {}
    /\ RpcRead("model.extents")
    /\ UNCHANGED <<active_ev, step>>

StartButtonChain ==
    /\ chain' = "BUTTON" /\ step' = "BSTEP_READ_EXTENTS"
    /\ chain_started' = now
    /\ fresh' = {}
    /\ RpcRead("model.extents")
    /\ UNCHANGED active_ev

\* The end of a chain that nothing waits for
GoIdle ==
    /\ chain' = "NONE"
    /\ Silent
    /\ UNCHANGED <<step, pending_call_id, chain_started, active_ev, fresh, waiting>>

\* Mutant: what waits is not looked at.
ChainFinishedForgets == GoIdle

\* Mutant: the two slots are looked at in the other order.
ChainFinishedMotionFirst ==
    \/ /\ have_pending_motion
       /\ have_pending_motion' = FALSE
       /\ StartMotionChain(pending_motion)
       /\ UNCHANGED <<pending_motion, have_pending_button>>
    \/ /\ ~have_pending_motion /\ have_pending_button
       /\ have_pending_button' = FALSE
       /\ StartButtonChain
       /\ UNCHANGED <<pending_motion, have_pending_motion>>
    \/ ~have_pending_button /\ ~have_pending_motion /\ GoIdle

ChainFinished ==
    \/ /\ have_pending_button
       /\ have_pending_button' = FALSE
       /\ have_pending_motion' = FALSE   \* a view reset supersedes queued motion
       /\ StartButtonChain
       /\ UNCHANGED pending_motion
    \/ /\ ~have_pending_button /\ have_pending_motion
       /\ have_pending_motion' = FALSE
       /\ StartMotionChain(pending_motion)
       /\ UNCHANGED <<pending_motion, have_pending_button>>
    \/ ~have_pending_button /\ ~have_pending_motion /\ GoIdle

\* The chain goes on to `next', having stored an answer in the field `read'.
Proceed(next, read) ==
    /\ step' = next
    /\ fresh' = fresh \cup read
    /\ UNCHANGED <<chain, chain_started, active_ev, waiting>>

----------------------------------------------------------------------------
\* advance_motion_chain: a case of its switch each.  The default case is left
\* out: ChainStepMatch says that it is never taken.

\* Mutant: the extents are used whatever json_to_floats says.
MStepReadExtentsUnchecked(result) ==
    /\ step = "MSTEP_READ_EXTENTS"
    /\ model_extents' = JsonToFloats(result, model_extents, 6)
    /\ Proceed("MSTEP_READ_PERSPECTIVE", {"model_extents"})
    /\ RpcRead("view.perspective")
    /\ UNCHANGED <<perspective, curr_affine, new_affine, view_extents>>

MStepReadExtents(result) ==
    /\ step = "MSTEP_READ_EXTENTS"
    /\ model_extents' = JsonToFloats(result, model_extents, 6)
    /\ IF IsFloats(result, 6)
       THEN /\ Proceed("MSTEP_READ_PERSPECTIVE", {"model_extents"})
            /\ RpcRead("view.perspective")
       ELSE ChainFinished
    /\ UNCHANGED <<perspective, curr_affine, new_affine, view_extents>>

MStepReadPerspective(result) ==
    /\ step = "MSTEP_READ_PERSPECTIVE"
    /\ perspective' = (result.kind = "true")
    /\ Proceed("MSTEP_READ_AFFINE", {"perspective"})
    /\ RpcRead("view.affine")
    /\ UNCHANGED <<model_extents, curr_affine, new_affine, view_extents>>

\* compute_new_affine: what the new affine is computed from
ComputeNewAffine(affine) ==
    [base |-> affine, ev |-> active_ev, gain |-> sensitivity,
     extents |-> model_extents]

\* Mutant: the affine is used whatever json_to_floats says.
MStepReadAffineUnchecked(result) ==
    /\ step = "MSTEP_READ_AFFINE"
    /\ curr_affine' = JsonToFloats(result, curr_affine, 16)
    /\ new_affine' = ComputeNewAffine(curr_affine')
    /\ IF perspective
       THEN /\ Proceed("MSTEP_WRITE_MOTION", {"curr_affine"})
            /\ RpcWrite("motion", NoValue)
       ELSE /\ Proceed("MSTEP_READ_VIEWEXTENTS", {"curr_affine"})
            /\ RpcRead("view.extents")
    /\ UNCHANGED <<model_extents, perspective, view_extents>>

\* Mutant: the new affine is computed before the answer is stored.
MStepReadAffineTooEarly(result) ==
    /\ step = "MSTEP_READ_AFFINE"
    /\ curr_affine' = JsonToFloats(result, curr_affine, 16)
    /\ new_affine' = ComputeNewAffine(curr_affine)
    /\ IF perspective
       THEN /\ Proceed("MSTEP_WRITE_MOTION", {"curr_affine"})
            /\ RpcWrite("motion", NoValue)
       ELSE /\ Proceed("MSTEP_READ_VIEWEXTENTS", {"curr_affine"})
            /\ RpcRead("view.extents")
    /\ UNCHANGED <<model_extents, perspective, view_extents>>

MStepReadAffine(result) ==
    /\ step = "MSTEP_READ_AFFINE"
    /\ curr_affine' = JsonToFloats(result, curr_affine, 16)
    /\ \/ /\ ~IsFloats(result, 16)
          /\ ChainFinished
          /\ UNCHANGED new_affine
       \/ /\ IsFloats(result, 16)
          /\ new_affine' = ComputeNewAffine(result.v)
          /\ IF perspective
             THEN /\ Proceed("MSTEP_WRITE_MOTION", {"curr_affine"})
                  /\ RpcWrite("motion", NoValue)
             ELSE /\ Proceed("MSTEP_READ_VIEWEXTENTS", {"curr_affine"})
                  /\ RpcRead("view.extents")
    /\ UNCHANGED <<model_extents, perspective, view_extents>>

\* The extents read are scaled in place, by the sensitivity of this moment.
MStepReadViewExtents(result) ==
    /\ step = "MSTEP_READ_VIEWEXTENTS"
    /\ IF IsFloats(result, 6)
       THEN /\ view_extents' = [base |-> result.v, ev |-> active_ev,
                                gain |-> sensitivity]
            /\ Proceed("MSTEP_WRITE_MOTION", {"view_extents"})
            /\ RpcWrite("motion", NoValue)
       ELSE /\ view_extents' = JsonToFloats(result, view_extents, 6)
            /\ ChainFinished
    /\ UNCHANGED <<model_extents, perspective, curr_affine, new_affine>>

MStepWriteMotion ==
    /\ step = "MSTEP_WRITE_MOTION"
    /\ IF perspective
       THEN /\ Proceed("MSTEP_WRITE_AFFINE", {})
            /\ RpcWrite("view.affine", new_affine)
       ELSE /\ Proceed("MSTEP_WRITE_VIEWEXTENTS", {})
            /\ RpcWrite("view.extents", view_extents)
    /\ UNCHANGED data

MStepWriteViewExtents ==
    /\ step = "MSTEP_WRITE_VIEWEXTENTS"
    /\ Proceed("MSTEP_WRITE_AFFINE", {})
    /\ RpcWrite("view.affine", new_affine)
    /\ UNCHANGED data

MStepWriteAffine ==
    /\ step = "MSTEP_WRITE_AFFINE"
    /\ ChainFinished
    /\ UNCHANGED data

AdvanceMotionChain(result) ==
    \/ MStepReadExtents(result)
    \/ MStepReadPerspective(result)
    \/ MStepReadAffine(result)
    \/ MStepReadViewExtents(result)
    \/ MStepWriteMotion
    \/ MStepWriteViewExtents
    \/ MStepWriteAffine

----------------------------------------------------------------------------
\* advance_button_chain

BStepReadExtents(result) ==
    /\ step = "BSTEP_READ_EXTENTS"
    /\ model_extents' = JsonToFloats(result, model_extents, 6)
    /\ IF IsFloats(result, 6)
       THEN /\ Proceed("BSTEP_READ_FRONT", {"model_extents"})
            /\ RpcRead("views.front")
       ELSE ChainFinished
    /\ UNCHANGED <<perspective, curr_affine, new_affine, view_extents>>

\* The front view is written back as it came, whatever it is.
BStepReadFront(result) ==
    /\ step = "BSTEP_READ_FRONT"
    /\ Proceed("BSTEP_WRITE_AFFINE", {})
    /\ RpcWrite("view.affine", [front |-> result])
    /\ UNCHANGED data

BStepWriteAffine ==
    /\ step = "BSTEP_WRITE_AFFINE"
    /\ Proceed("BSTEP_WRITE_EXTENTS", {})
    /\ RpcWrite("view.extents", [fit |-> model_extents])
    /\ UNCHANGED data

BStepWriteExtents ==
    /\ step = "BSTEP_WRITE_EXTENTS"
    /\ ChainFinished
    /\ UNCHANGED data

AdvanceButtonChain(result) ==
    \/ BStepReadExtents(result)
    \/ BStepReadFront(result)
    \/ BStepWriteAffine
    \/ BStepWriteExtents

----------------------------------------------------------------------------
\* controller_on_message, by message type

\* resolve_uri: the first entry of the table with this prefix; an undeclared
\* prefix is dropped, colon included.
Entries(name) == {i \in 1..Len(prefixes) : prefixes[i].prefix = name.prefix}
\* Mutant: the last declaration of a prefix counts.
ResolveLast(name) ==
    <<IF Entries(name) = {} THEN NoUri ELSE prefixes[Max(Entries(name))].uri,
      name.rest>>

Resolve(name) ==
    <<IF Entries(name) = {} THEN NoUri ELSE prefixes[Min(Entries(name))].uri,
      name.rest>>

\* Mutant: off by one at the end of the table.
OnPrefixOffByOne(m) ==
    /\ m.type = "PREFIX"
    /\ prefixes' = IF Len(prefixes) <= MAX_PREFIXES
                   THEN Append(prefixes, [prefix |-> m.prefix, uri |-> m.uri])
                   ELSE prefixes
    /\ Silent
    /\ UNCHANGED <<hs, known_client, subscribed, focus, closing, running, waiting, data>>

\* A declaration that finds the table full is dropped without a word.
OnPrefix(m) ==
    /\ m.type = "PREFIX"
    /\ prefixes' = IF Len(prefixes) < MAX_PREFIXES
                   THEN Append(prefixes, [prefix |-> m.prefix, uri |-> m.uri])
                   ELSE prefixes
    /\ Silent
    /\ UNCHANGED <<hs, known_client, subscribed, focus, closing, running, waiting, data>>

CreateMouse(m) ==
    /\ hs = "HS_WAIT_MOUSE"
    /\ m.proc = CREATE /\ m.arg = "3dmouse"
    /\ hs' = "HS_WAIT_CONTROLLER"
    /\ Reply("CALLRESULT")
    /\ UNCHANGED <<known_client, subscribed, focus, prefixes, closing>>

CreateController(m) ==
    /\ hs = "HS_WAIT_CONTROLLER"
    /\ m.proc = CREATE /\ m.arg \in {"known client", "unknown client"}
    /\ hs' = "HS_READY"
    /\ known_client' = (m.arg = "known client")
    /\ Reply("CALLRESULT")
    /\ UNCHANGED <<subscribed, focus, prefixes, closing>>

\* Any other call before the handshake is over ends the connection.
RefuseHandshake(m) ==
    /\ \/ hs = "HS_WAIT_MOUSE" /\ ~(m.proc = CREATE /\ m.arg = "3dmouse")
       \/ /\ hs = "HS_WAIT_CONTROLLER"
          /\ ~(m.proc = CREATE /\ m.arg \in {"known client", "unknown client"})
    /\ closing' = TRUE
    /\ Silent
    /\ UNCHANGED <<hs, known_client, subscribed, focus, prefixes>>

\* A focus update; an argument without a "focus" field changes nothing.
UpdateFocus(m) ==
    /\ hs = "HS_READY" /\ Resolve(m.proc) \in UPDATE_URI
    /\ focus' = CASE m.arg = "focus true" -> TRUE
                  [] m.arg = "focus false" -> FALSE
                  [] OTHER -> focus
    /\ Reply("CALLRESULT")
    /\ UNCHANGED <<hs, known_client, subscribed, prefixes, closing>>

UnknownProcedure(m) ==
    /\ hs = "HS_READY" /\ Resolve(m.proc) \notin UPDATE_URI
    /\ Reply("CALLERROR")
    /\ UNCHANGED client

OnCall(m) ==
    /\ m.type = "CALL"
    /\ \/ CreateMouse(m)
       \/ CreateController(m)
       \/ RefuseHandshake(m)
       \/ UpdateFocus(m)
       \/ UnknownProcedure(m)
    /\ UNCHANGED <<running, waiting, data>>

\* Accepted in any state of the handshake.
OnSubscribe(m) ==
    /\ m.type = "SUBSCRIBE"
    /\ IF Resolve(m.topic) \in CONTROLLER_URI
       THEN subscribed' = TRUE /\ focus' = TRUE
       ELSE UNCHANGED <<subscribed, focus>>
    /\ Silent
    /\ UNCHANGED <<hs, known_client, prefixes, closing, running, waiting, data>>

\* Mutant: the id of an answer is not compared.
AnswersAny(m) == chain # "NONE"

Answers(m) == chain # "NONE" /\ m.id = pending_call_id

OnCallResult(m) ==
    /\ m.type = "CALLRESULT"
    /\ Answers(m)
    /\ \/ chain = "MOTION" /\ AdvanceMotionChain(m.result)
       \/ chain = "BUTTON" /\ AdvanceButtonChain(m.result)
    /\ UNCHANGED client

\* Mutant: the chain waits on after an error.
OnCallErrorIgnored(m) ==
    /\ m.type = "CALLERROR"
    /\ Answers(m)
    /\ Silent
    /\ UNCHANGED <<client, running, waiting, data>>

OnCallError(m) ==
    /\ m.type = "CALLERROR"
    /\ Answers(m)
    /\ ChainFinished
    /\ UNCHANGED <<client, data>>

\* An answer to no RPC, or to one that is not the pending one any more.
OnStrayAnswer(m) ==
    /\ m.type \in {"CALLRESULT", "CALLERROR"}
    /\ ~Answers(m)
    /\ Silent
    /\ UNCHANGED <<client, running, waiting, data>>

\* Not JSON, not an array, or no number in front.
OnMalformed(m) ==
    /\ m.type = "MALFORMED"
    /\ closing' = TRUE
    /\ Silent
    /\ UNCHANGED <<hs, known_client, subscribed, focus, prefixes, running, waiting, data>>

OnMessage(m) ==
    /\ ~closing
    /\ \/ OnPrefix(m)
       \/ OnCall(m)
       \/ OnSubscribe(m)
       \/ OnCallResult(m)
       \/ OnCallError(m)
       \/ OnStrayAnswer(m)
       \/ OnMalformed(m)
    /\ UNCHANGED <<sensitivity, now>>

----------------------------------------------------------------------------
\* controller_on_spnav_event.  A client being closed still gets its calls:
\* main.c hands an event to every slot that has a controller.

Events == [type : {"MOTION"}, motion : Motions] \cup [type : {"BUTTON"}]

\* Mutant: the client's name is not asked for.
WantsEventsOfAnyone == hs = "HS_READY" /\ subscribed /\ focus

WantsEvents == hs = "HS_READY" /\ known_client /\ subscribed /\ focus
\* Mutant: a chain waits for ever.
TimedOutNever == FALSE

TimedOut == chain # "NONE" /\ now - chain_started >= CHAIN_TIMEOUT

IgnoreEvent ==
    /\ ~WantsEvents
    /\ Silent
    /\ UNCHANGED <<running, waiting>>

\* No chain, or one given up with everything that waits for it.
StartChain(ev) ==
    /\ WantsEvents
    /\ chain = "NONE" \/ TimedOut
    /\ have_pending_motion' = (have_pending_motion /\ ~TimedOut)
    /\ have_pending_button' = (have_pending_button /\ ~TimedOut)
    /\ UNCHANGED pending_motion
    /\ \/ ev.type = "MOTION" /\ StartMotionChain(ev.motion)
       \/ ev.type = "BUTTON" /\ StartButtonChain

\* A chain runs: the newest motion replaces the one waiting.
QueueEvent(ev) ==
    /\ WantsEvents
    /\ chain # "NONE" /\ ~TimedOut
    /\ \/ /\ ev.type = "MOTION"
          /\ pending_motion' = ev.motion
          /\ have_pending_motion' = TRUE
          /\ UNCHANGED have_pending_button
       \/ /\ ev.type = "BUTTON"
          /\ have_pending_button' = TRUE
          /\ UNCHANGED <<pending_motion, have_pending_motion>>
    /\ Silent
    /\ UNCHANGED running

OnSpnavEvent(ev) ==
    /\ \/ IgnoreEvent
       \/ StartChain(ev)
       \/ QueueEvent(ev)
    /\ UNCHANGED <<client, sensitivity, data, now>>

----------------------------------------------------------------------------
\* controller_set_sensitivity with an accepted value; others change nothing.
SetSensitivity(gain) ==
    /\ sensitivity' = gain
    /\ Silent
    /\ UNCHANGED <<client, running, waiting, data, now>>

\* The wall clock moves on, or is set, forwards or backwards.
Clock ==
    /\ now' \in Times
    /\ Silent
    /\ UNCHANGED <<client, sensitivity, running, waiting, data>>

\* controller_create: the WELCOME goes out at once.
Init ==
    /\ hs = "HS_WAIT_MOUSE"
    /\ known_client = FALSE /\ subscribed = FALSE /\ focus = FALSE
    /\ prefixes = <<>>
    /\ closing = FALSE
    /\ sensitivity = DefaultGain
    /\ chain = "NONE" /\ step = "MSTEP_READ_EXTENTS"
    /\ pending_call_id = NoCall
    /\ now \in Times /\ chain_started = 0
    /\ active_ev = ZeroMotion /\ pending_motion = ZeroMotion
    /\ have_pending_motion = FALSE /\ have_pending_button = FALSE
    /\ model_extents = Garbage /\ curr_affine = Garbage
    /\ new_affine = Garbage /\ view_extents = Garbage
    /\ perspective = FALSE
    /\ sent = <<[type |-> "WELCOME"]>>
    /\ fresh = {}

Next ==
    \/ \E m \in Messages : OnMessage(m)
    \/ \E ev \in Events : OnSpnavEvent(ev)
    \/ \E gain \in Gains : SetSensitivity(gain)
    \/ Clock

Spec == Init /\ [][Next]_vars

----------------------------------------------------------------------------
\* Properties

ClientTypeOK ==
    /\ hs \in {"HS_WAIT_MOUSE", "HS_WAIT_CONTROLLER", "HS_READY"}
    /\ known_client \in BOOLEAN /\ subscribed \in BOOLEAN
    /\ focus \in BOOLEAN /\ closing \in BOOLEAN
    /\ prefixes \in Seq([prefix : PrefixNames, uri : BaseUris])
    /\ Len(prefixes) <= MAX_PREFIXES

ChainTypeOK ==
    /\ chain \in {"NONE", "MOTION", "BUTTON"}
    /\ step \in MotionSteps \cup ButtonSteps
    /\ pending_call_id \in CallIds \cup {NoCall}
    /\ chain # "NONE" => pending_call_id \in CallIds
    /\ chain_started \in Times \cup {0}
    /\ active_ev \in Motions /\ pending_motion \in Motions
    /\ have_pending_motion \in BOOLEAN /\ have_pending_button \in BOOLEAN
    /\ fresh \subseteq {"model_extents", "perspective", "curr_affine", "view_extents"}
    /\ DOMAIN sent \in {{}, {1}}

DataTypeOK ==
    /\ model_extents \in Stored /\ curr_affine \in Stored
    /\ perspective \in BOOLEAN
    /\ new_affine \in Affines \cup {Garbage}
    /\ view_extents \in Extents \cup {Garbage}

\* Every variable holds what its C counterpart can hold, a running chain always
\* awaits an answer, and one call of the controller sends at most one message.
TypeOK ==
    /\ ClientTypeOK
    /\ ChainTypeOK
    /\ DataTypeOK
    /\ sensitivity \in Gains
    /\ now \in Times

\* The step belongs to the kind of chain that runs, and the two steps of an
\* orthographic view are only reached with one: the default cases of the
\* switches in advance_motion_chain and advance_button_chain are dead code.
ChainStepMatch ==
    /\ chain = "MOTION" => step \in MotionSteps
    /\ chain = "BUTTON" => step \in ButtonSteps
    /\ chain = "MOTION" /\ step \in {"MSTEP_READ_VIEWEXTENTS", "MSTEP_WRITE_VIEWEXTENTS"}
          => ~perspective

\* Nothing waits behind a chain that does not run.  Only chain_finished serves
\* the slots, so an event left there would wait until another chain ends.
NoOrphanedWork ==
    chain = "NONE" => ~have_pending_motion /\ ~have_pending_button

\* Only clients that gave one of the known names "during the handshake are ever
\* sent mouse events" (README), and only once they have subscribed, whatever the
\* order of the messages that got them there.
OnlyKnownClients ==
    chain # "NONE" => hs = "HS_READY" /\ known_client /\ subscribed

\* What a chain writes was read by that chain and computed from its event: no
\* buffer left over from an earlier or an abandoned chain reaches the client.
WritesAreFresh ==
    \A i \in 1..Len(sent) :
        LET rpc == sent[i] IN
        rpc.type = "CALL" /\ rpc.method = "self:update" =>
            /\ chain = "MOTION" =>
                 {"model_extents", "perspective", "curr_affine"} \subseteq fresh
            /\ chain = "MOTION" /\ rpc.property = "view.affine" =>
                 /\ rpc.value \in [base : Values, ev : {active_ev}, gain : Gains,
                                   extents : Values]
                 /\ rpc.value.base = curr_affine
                 /\ rpc.value.extents = model_extents
            /\ chain = "MOTION" /\ rpc.property = "view.extents" =>
                 /\ "view_extents" \in fresh
                 /\ rpc.value \in [base : Values, ev : {active_ev}, gain : Gains]
            /\ chain = "BUTTON" /\ rpc.property = "view.extents" =>
                 /\ "model_extents" \in fresh
                 /\ rpc.value = [fit |-> model_extents]
                 /\ model_extents \in Values

\* Why it is so, step by step: by the time a step is reached its chain has
\* read what the writes ahead of it need, and no field it read is garbage.
WriteSteps == {"MSTEP_WRITE_MOTION", "MSTEP_WRITE_VIEWEXTENTS", "MSTEP_WRITE_AFFINE"}
FreshData ==
    /\ chain # "NONE" /\ "model_extents" \in fresh => model_extents \in Values
    /\ chain # "NONE" /\ "curr_affine" \in fresh => curr_affine \in Values
    /\ chain = "MOTION" /\ step # "MSTEP_READ_EXTENTS" => "model_extents" \in fresh
    /\ chain = "BUTTON" /\ step # "BSTEP_READ_EXTENTS" => "model_extents" \in fresh
    /\ chain = "MOTION" /\ step \notin {"MSTEP_READ_EXTENTS", "MSTEP_READ_PERSPECTIVE"}
          => "perspective" \in fresh
    /\ chain = "MOTION" /\ step \in WriteSteps \cup {"MSTEP_READ_VIEWEXTENTS"} =>
          /\ "curr_affine" \in fresh
          /\ new_affine \in [base : {curr_affine}, ev : {active_ev}, gain : Gains,
                             extents : {model_extents}]
    /\ chain = "MOTION" /\ step \in WriteSteps /\ ~perspective =>
          /\ "view_extents" \in fresh
          /\ view_extents \in [base : Values, ev : {active_ev}, gain : Gains]

\* This step sends the first RPC of a chain.
ChainBegins ==
    /\ chain' # "NONE"
    /\ Len(sent') = 1 /\ sent'[1].type = "CALL" /\ sent'[1].property = "model.extents"
    /\ pending_call_id' # pending_call_id

\* Once a prefix is declared, what a name with it means never changes for the
\* rest of the connection, neither by declaring it again nor by filling the
\* table.
DeclaredNamesAreStable ==
    [][prefixes' # prefixes =>
         \A name \in Names : Entries(name) # {} => Resolve(name)' = Resolve(name)]_vars
=============================================================================
