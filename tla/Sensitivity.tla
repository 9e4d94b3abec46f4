---------------------------- MODULE Sensitivity -----------------------------
(***************************************************************************)
(* The mouse sensitivity: the value in force in the bridge and the copy of *)
(* it in every controller (main.c), the file that carries it over restarts *)
(* of the bridge, and the overlays in the browser that show and change it  *)
(* (browser-extension/overlay.js) by requests that each have a connection, *)
(* and so an order, of their own.                                          *)
(*                                                                         *)
(* A sensitivity is an integer; what "%g" prints, in the file and in the   *)
(* replies, is the nearest multiple of GRAIN.  An overlay shows a value    *)
(* twice, each time as nearly as it can: by its slider, which has a range  *)
(* and a step, and by a label of two decimals.  The bridge handles one     *)
(* request at a time.  A save is two steps, the file being empty between   *)
(* them: fopen truncates it and only fclose writes to it.                  *)
(***************************************************************************)
EXTENDS Integers

CONSTANTS
    Slots,              \* slots of the client table
    Overlays, Script,   \* who sends requests; Script is any other client
    ReqIds,             \* bound: requests under way at once
    Asked,              \* what a script may ask for, accepted or not
    Flags,              \* what --sensitivity may be given, accepted or not
    LOW, HIGH, DEFAULT, GRAIN,
    SLIDER_MIN, SLIDER_MAX, SLIDER_STEP,
    None, Empty, Rejected,
    Failures,           \* what may go wrong
    MaxRuns             \* bound: runs of the bridge

Accepted == LOW..HIGH
Nearest(v, step) == ((v + step \div 2) \div step) * step
Rounded(v) == Nearest(v, GRAIN)

\* A range input given a value takes the nearest of its positions; the label's
\* two decimals are those of the step.
Position(v) ==
    IF v < SLIDER_MIN THEN SLIDER_MIN
    ELSE IF v > SLIDER_MAX THEN SLIDER_MAX ELSE Nearest(v, SLIDER_STEP)
Display(v) == [slider |-> Position(v), label |-> Nearest(v, SLIDER_STEP)]
Sliders == {v \in SLIDER_MIN..SLIDER_MAX : Nearest(v, SLIDER_STEP) = v}

ASSUME RangeAssumption ==
    /\ LOW \in Nat /\ HIGH \in Nat /\ GRAIN \in Nat \ {0}
    /\ DEFAULT \in Accepted
ASSUME SliderAssumption ==
    /\ SLIDER_STEP \in Nat \ {0}
    /\ SLIDER_MIN \in Accepted /\ SLIDER_MAX \in Accepted /\ SLIDER_MIN <= SLIDER_MAX
    /\ SLIDER_MIN \in Sliders /\ SLIDER_MAX \in Sliders
ASSUME PrintingAssumption ==
    \A v \in {LOW, HIGH, DEFAULT} \cup Sliders : Rounded(v) = v
ASSUME RequestAssumption ==
    Asked \cup Flags \subseteq Nat /\ Script \notin Overlays

\* A request under way, seen from whoever sent it: an entry of requests that is
\* not None
Requests ==
    [owner : Overlays \cup {Script}, method : {"GET", "POST"}, value : Asked \cup Sliders \cup {None},
     state : {"sent", "saving", "answered", "lost"}, reply : Accepted \cup {None, Rejected}]

ASSUME MarkerAssumption ==
    /\ None \notin Nat /\ Empty \notin Nat /\ Rejected \notin Nat
    /\ None \notin Requests /\ None \notin Overlays
ASSUME BoundAssumption ==
    /\ Failures \subseteq {"save fails", "crash in save", "request lost"}
    /\ MaxRuns \in Nat

VARIABLES
    proc,           \* the bridge: "stopped", "running" or, in between, "saving"
    runs,
    g_sensitivity,
    flag,           \* --sensitivity of this run, or None
    gain,           \* c->sensitivity of the controller in a slot, None without one
    conf,           \* sensitivity.conf: None, Empty or the number in it
    requests,
    shown, postTimer, status,   \* of each overlay
    acked,          \* history: the last value a POST was answered with, None
                    \* if a failure befell its save or a crash a later one
    undisturbed     \* history: the overlays that have acted alone, see Acts

bridge == <<proc, runs, g_sensitivity, flag, gain, conf, acked>>
page == <<shown, postTimer, status>>
vars == <<bridge, requests, page, undisturbed>>

Request(owner, method, value) ==
    [owner |-> owner, method |-> method, value |-> value, state |-> "sent", reply |-> None]
Send(owner, method, value) ==
    \E id \in ReqIds :
        /\ requests[id] = None
        /\ requests' = [requests EXCEPT ![id] = Request(owner, method, value)]
In(id, state) == requests[id] # None /\ requests[id].state = state
Sent(id, method) == proc = "running" /\ In(id, "sent") /\ requests[id].method = method
Answer(id, reply) ==
    requests' = [requests EXCEPT ![id].state = "answered", ![id].reply = reply]
Forget(id) == requests' = [requests EXCEPT ![id] = None]
UnderWay(o) == {id \in ReqIds : requests[id] # None /\ requests[id].owner = o}

\* An overlay acts alone when it does what it does with nothing else of its own
\* under way, or about to be, and nobody else has changed the value since.
Acts(o, alone) == undisturbed' = IF alone THEN undisturbed \cup {o} ELSE undisturbed \ {o}
Disturbs(owner) == undisturbed' = undisturbed \cap {owner}

----------------------------------------------------------------------------
\* Runs of the bridge

\* Mutant: whatever number is in the file is taken.
LoadedUnchecked == IF conf \in {None, Empty} THEN DEFAULT ELSE conf

\* load_persisted_sensitivity
Loaded == IF conf \in Accepted THEN conf ELSE DEFAULT

\* A flag out of range ends the run before it begins.
Start ==
    /\ proc = "stopped" /\ runs < MaxRuns
    /\ runs' = runs + 1
    /\ flag' \in (Flags \cap Accepted) \cup {None}
    /\ g_sensitivity' = IF flag' = None THEN Loaded ELSE flag'
    /\ gain' = [s \in Slots |-> None]
    /\ proc' = "running"
    /\ Disturbs(None)
    /\ UNCHANGED <<conf, acked, requests, page>>

\* The bridge is gone, and with it what it has not answered.
LoseRequests ==
    requests' = [id \in ReqIds |->
        IF In(id, "sent") \/ In(id, "saving") THEN [requests[id] EXCEPT !.state = "lost"]
        ELSE requests[id]]

Stop ==
    /\ proc = "running"
    /\ proc' = "stopped"
    /\ LoseRequests
    /\ UNCHANGED <<runs, g_sensitivity, flag, gain, conf, acked, page, undisturbed>>

CrashInSave ==
    /\ proc = "saving" /\ "crash in save" \in Failures
    /\ proc' = "stopped"
    /\ LoseRequests
    /\ acked' = None
    /\ UNCHANGED <<runs, g_sensitivity, flag, gain, conf, page, undisturbed>>

----------------------------------------------------------------------------
\* Controllers

OnlyGain == UNCHANGED <<proc, runs, g_sensitivity, flag, conf, acked, requests, page, undisturbed>>

\* Mutant: the new controller keeps the sensitivity it was created with.
UpgradeDefault(s) ==
    /\ proc = "running" /\ gain[s] = None
    /\ gain' = [gain EXCEPT ![s] = DEFAULT]
    /\ OnlyGain

\* handle_ws_upgrade: a controller is created and given the value in force.
Upgrade(s) ==
    /\ proc = "running" /\ gain[s] = None
    /\ gain' = [gain EXCEPT ![s] = g_sensitivity]
    /\ OnlyGain

CloseClient(s) ==
    /\ proc = "running" /\ gain[s] # None
    /\ gain' = [gain EXCEPT ![s] = None]
    /\ OnlyGain

----------------------------------------------------------------------------
\* handle_sensitivity_request

Get(id) ==
    /\ Sent(id, "GET")
    /\ Answer(id, Rounded(g_sensitivity))
    /\ UNCHANGED <<bridge, page, undisturbed>>

PostRejected(id) ==
    /\ Sent(id, "POST") /\ requests[id].value \notin Accepted
    /\ Answer(id, Rejected)
    /\ UNCHANGED <<bridge, page, undisturbed>>

\* The value is in force at once, in every controller.
Apply(id) ==
    /\ Sent(id, "POST") /\ requests[id].value \in Accepted
    /\ g_sensitivity' = requests[id].value
    /\ gain' = [s \in Slots |-> IF gain[s] = None THEN None ELSE requests[id].value]
    /\ Disturbs(requests[id].owner)
    /\ UNCHANGED <<runs, flag, page>>

\* fopen has truncated the file.
BeginSave(id) ==
    /\ conf' = Empty /\ proc' = "saving"
    /\ requests' = [requests EXCEPT ![id].state = "saving"]
    /\ UNCHANGED acked

AnswerUnsaved(id, reported) ==
    /\ Answer(id, Rounded(requests[id].value))
    /\ acked' = reported
    /\ UNCHANGED <<conf, proc>>

\* Mutant: the value is saved only in a run without the flag.
PostUnsaved(id) ==
    /\ Apply(id)
    /\ IF flag = None THEN BeginSave(id) ELSE AnswerUnsaved(id, Rounded(requests[id].value))

\* If the file cannot be opened the client is answered all the same.
Post(id) ==
    /\ Apply(id)
    /\ BeginSave(id) \/ ("save fails" \in Failures /\ AnswerUnsaved(id, None))

\* The rest of save_persisted_sensitivity, whose result is not looked at, and
\* the answer.
SaveEnds ==
    /\ proc = "saving"
    /\ proc' = "running"
    /\ \/ conf' = Rounded(g_sensitivity) /\ acked' = Rounded(g_sensitivity)
       \/ "save fails" \in Failures /\ acked' = None /\ UNCHANGED conf
    /\ \E id \in ReqIds : In(id, "saving") /\ Answer(id, Rounded(g_sensitivity))
    /\ UNCHANGED <<runs, g_sensitivity, flag, gain, page, undisturbed>>

----------------------------------------------------------------------------
\* Requests: no free slot, a time-out, a network that fails, or a bridge that
\* is not running

Lose(id) ==
    /\ \/ In(id, "sent") /\ ("request lost" \in Failures \/ proc = "stopped")
       \/ In(id, "answered") /\ "request lost" \in Failures
    /\ requests' = [requests EXCEPT ![id].state = "lost"]
    /\ UNCHANGED <<bridge, page, undisturbed>>

ScriptSends ==
    /\ \E v \in Asked : Send(Script, "POST", v)
    /\ UNCHANGED <<bridge, page, undisturbed>>

ScriptDone(id) ==
    /\ In(id, "answered") \/ In(id, "lost")
    /\ requests[id].owner = Script
    /\ Forget(id)
    /\ UNCHANGED <<bridge, page, undisturbed>>

----------------------------------------------------------------------------
\* An overlay (overlay.js, buildUi)

\* The panel is opened: loadCurrent.
Open(o) ==
    /\ Acts(o, UnderWay(o) = {} /\ postTimer[o] = None)
    /\ Send(o, "GET", None)
    /\ status' = [status EXCEPT ![o] = "loading"]
    /\ UNCHANGED <<bridge, shown, postTimer>>

Drag(o, v) ==
    /\ status[o] # "closed"
    /\ shown' = [shown EXCEPT ![o] = Display(v)]
    /\ status' = [status EXCEPT ![o] = "ready"]
    /\ Acts(o, UnderWay(o) = {})
    /\ UNCHANGED <<bridge, requests>>

\* Mutant: a timer that runs is left to post the value it was set for.
InputKeepsTimer(o, v) ==
    /\ Drag(o, v)
    /\ postTimer' = [postTimer EXCEPT ![o] = IF @ = None THEN v ELSE @]

\* The slider is moved: only the last value of a quick movement is posted.
Input(o, v) ==
    /\ Drag(o, v)
    /\ postTimer' = [postTimer EXCEPT ![o] = v]

\* postValue
PostValue(o) ==
    /\ postTimer[o] # None
    /\ Acts(o, UnderWay(o) = {} /\ o \in undisturbed)
    /\ Send(o, "POST", postTimer[o])
    /\ postTimer' = [postTimer EXCEPT ![o] = None]
    /\ UNCHANGED <<bridge, shown, status>>

Receive(id) ==
    /\ In(id, "answered") /\ requests[id].owner \in Overlays
    /\ LET o == requests[id].owner
           reply == requests[id].reply
       IN  \/ /\ requests[id].method = "GET"
              /\ shown' = [shown EXCEPT ![o] = Display(reply)]
              /\ status' = [status EXCEPT ![o] = "ready"]
           \/ /\ requests[id].method = "POST"
              /\ status' = [status EXCEPT ![o] = IF reply = Rejected THEN "rejected" ELSE "saved"]
              /\ UNCHANGED shown
    /\ Forget(id)
    /\ UNCHANGED <<bridge, postTimer, undisturbed>>

Fail(id) ==
    /\ In(id, "lost") /\ requests[id].owner \in Overlays
    /\ status' = [status EXCEPT ![requests[id].owner] = "not reachable"]
    /\ Forget(id)
    /\ UNCHANGED <<bridge, shown, postTimer, undisturbed>>

----------------------------------------------------------------------------

\* A file may be there, from an earlier version or edited by hand.
Init ==
    /\ proc = "stopped" /\ runs = 0
    /\ g_sensitivity = DEFAULT /\ flag = None
    /\ gain = [s \in Slots |-> None]
    /\ conf \in Asked \cup {None, Empty}
    /\ requests = [id \in ReqIds |-> None]
    /\ shown = [o \in Overlays |-> None]
    /\ postTimer = [o \in Overlays |-> None]
    /\ status = [o \in Overlays |-> "closed"]
    /\ acked = None
    /\ undisturbed = {}

Serve(id) == Get(id) \/ PostRejected(id) \/ Post(id)
Page(o) == Open(o) \/ (\E v \in Sliders : Input(o, v)) \/ PostValue(o)

Next ==
    \/ Start \/ Stop \/ CrashInSave \/ SaveEnds \/ ScriptSends
    \/ \E s \in Slots : Upgrade(s) \/ CloseClient(s)
    \/ \E id \in ReqIds : Serve(id) \/ Lose(id) \/ ScriptDone(id) \/ Receive(id) \/ Fail(id)
    \/ \E o \in Overlays : Page(o)

Spec == Init /\ [][Next]_vars

----------------------------------------------------------------------------
\* Properties

BridgeTypeOK ==
    /\ proc \in {"stopped", "running", "saving"} /\ runs \in 0..MaxRuns
    /\ g_sensitivity \in Accepted
    /\ flag \in Accepted \cup {None}
    /\ gain \in [Slots -> Accepted \cup {None}]

\* The value in force and every copy of it are accepted values, whatever was
\* asked for and whatever is in the file; the replies hold accepted values too,
\* and a slider a position of its own.
TypeOK ==
    /\ BridgeTypeOK
    /\ conf \in Nat \cup {None, Empty}
    /\ acked \in Accepted \cup {None}
    /\ requests \in [ReqIds -> Requests \cup {None}]
    /\ shown \in [Overlays -> [slider : SLIDER_MIN..SLIDER_MAX, label : Nat] \cup {None}]
    /\ postTimer \in [Overlays -> Sliders \cup {None}]
    /\ status \in [Overlays -> {"closed", "loading", "ready", "saved", "rejected",
                                "not reachable"}]
    /\ undisturbed \subseteq Overlays

\* The setting "applies equally in Firefox and Chromium" (README): every
\* controller has the value in force, whether it was there when the value was
\* posted or came later, in a run with the flag or without.
ControllersAgree ==
    proc # "stopped" => \A s \in Slots : gain[s] \in {None, g_sensitivity}

\* A value "picked in the browser sticks" (main.c): a run without the flag
\* begins with the last value a POST was answered with, also after runs with
\* the flag and whatever failed before, unless its own save failed or a crash
\* hit a later one.
AcknowledgedSticks ==
    [][proc = "stopped" /\ proc' = "running" /\ flag' = None /\ acked # None =>
         g_sensitivity' = acked]_vars

\* An overlay only ever hears of the bridge's value by answers.  When it has
\* acted alone, has nothing under way and says that all is well, its slider and
\* its label show the value the bridge uses as nearly as they can: with
\* "--sensitivity 5" the slider stands at its end, 3, and the label says 5.00.
OverlayShowsTheBridge ==
    \A o \in undisturbed :
        /\ proc = "running" /\ status[o] \in {"saved", "ready"}
        /\ postTimer[o] = None /\ UnderWay(o) = {}
        => shown[o] = Display(Rounded(g_sensitivity))
=============================================================================
