-------------------------- MODULE SensitivityProofs -------------------------
(***************************************************************************)
(* Proofs about Sensitivity, for any number of controllers, overlays,      *)
(* requests under way and runs of the bridge.  First, the value in force   *)
(* is always an accepted one, and every controller has it: what "%g" makes *)
(* of a value does not matter to that, since what the file holds is        *)
(* checked when it is loaded.  Then what does depend on it: a value that   *)
(* was acknowledged comes back, and an overlay shows what is in force.     *)
(***************************************************************************)
EXTENDS Sensitivity, TLAPS

IInv == BridgeTypeOK /\ ControllersAgree

\* None is not a number, and the default is an accepted value.
LEMMA ConstantsOK == None \notin Accepted /\ DEFAULT \in Accepted /\ MaxRuns \in Nat
<1>1. None \notin Accepted
  BY RangeAssumption, MarkerAssumption DEF Accepted
<1>2. DEFAULT \in Accepted
  BY RangeAssumption
<1>3. MaxRuns \in Nat
  BY BoundAssumption
<1> QED BY <1>1, <1>2, <1>3

\* The bridge starts with no controllers, and they start in agreement.
LEMMA InitEstablishes == Init => IInv
BY ConstantsOK DEF Init, IInv, BridgeTypeOK, ControllersAgree

\* However the bridge starts, it starts with an accepted value and no client.
LEMMA StartKeeps == ASSUME IInv, Start PROVE IInv'
<1> USE ConstantsOK DEF IInv, BridgeTypeOK, Start
<1>1. g_sensitivity' \in Accepted
  BY DEF Loaded
<1>2. runs' \in 0..MaxRuns
  OBVIOUS
<1>3. gain' \in [Slots -> Accepted \cup {None}]
  OBVIOUS
<1>4. ControllersAgree'
  BY DEF ControllersAgree
<1> QED BY <1>1, <1>2, <1>3, <1>4

\* A POST reaches every controller in the step that changes the value.
LEMMA PostKeeps == ASSUME IInv, NEW id \in ReqIds, Post(id) PROVE IInv'
<1> DEFINE v == requests[id].value
<1> USE DEF IInv, BridgeTypeOK
<1>1. v \in Accepted /\ g_sensitivity' = v /\ UNCHANGED <<runs, flag>>
  BY DEF Post, Apply
<1>2. gain' = [s \in Slots |-> IF gain[s] = None THEN None ELSE v]
  BY DEF Post, Apply
<1>3. proc' \in {"running", "saving"}
  BY DEF Post, Apply, BeginSave, AnswerUnsaved, Sent
<1>4. BridgeTypeOK'
  BY <1>1, <1>2, <1>3
<1>5. ControllersAgree'
  BY <1>1, <1>2 DEF ControllersAgree
<1> QED BY <1>4, <1>5

\* A new controller gets the value in force; a client that goes takes its own
\* with it.
LEMMA SlotKeeps ==
    ASSUME IInv, NEW s \in Slots, Upgrade(s) \/ CloseClient(s) PROVE IInv'
<1> USE DEF IInv, BridgeTypeOK
<1>1. /\ UNCHANGED <<proc, runs, g_sensitivity, flag>>
      /\ gain' = [gain EXCEPT ![s] = g_sensitivity] \/ gain' = [gain EXCEPT ![s] = None]
      /\ proc = "running"
  BY DEF Upgrade, CloseClient, OnlyGain
<1>2. BridgeTypeOK'
  BY <1>1
<1>3. ControllersAgree'
  BY <1>1 DEF ControllersAgree
<1> QED BY <1>2, <1>3

\* Nothing else touches the value or its copies, whatever becomes of the bridge,
\* its file and the requests.
LEMMA OthersKeep ==
    ASSUME IInv, UNCHANGED <<runs, g_sensitivity, flag, gain>>,
           \/ proc' = proc
           \/ proc' = "stopped"
           \/ proc = "saving" /\ proc' = "running"
    PROVE  IInv'
BY DEF IInv, BridgeTypeOK, ControllersAgree

\* Every step keeps the invariant.
LEMMA NextKeeps == IInv /\ [Next]_vars => IInv'
<1> SUFFICES ASSUME IInv, [Next]_vars PROVE IInv'
  OBVIOUS
<1>1. CASE Start
  BY <1>1, StartKeeps
<1>2. CASE Stop \/ CrashInSave
  <2>1. UNCHANGED <<runs, g_sensitivity, flag, gain>> /\ proc' = "stopped"
    BY <1>2 DEF Stop, CrashInSave
  <2> QED BY <2>1, OthersKeep
<1>3. CASE SaveEnds
  <2>1. /\ UNCHANGED <<runs, g_sensitivity, flag, gain>>
        /\ proc = "saving" /\ proc' = "running"
    BY <1>3 DEF SaveEnds
  <2> QED BY <2>1, OthersKeep
<1>4. CASE ScriptSends \/ UNCHANGED vars
  <2>1. UNCHANGED <<runs, g_sensitivity, flag, gain, proc>>
    BY <1>4 DEF ScriptSends, vars, bridge
  <2> QED BY <2>1, OthersKeep
<1>5. ASSUME NEW s \in Slots, Upgrade(s) \/ CloseClient(s) PROVE IInv'
  BY <1>5, SlotKeeps
<1>6. ASSUME NEW id \in ReqIds,
             Serve(id) \/ Lose(id) \/ ScriptDone(id) \/ Receive(id) \/ Fail(id)
      PROVE  IInv'
  <2>1. CASE Post(id)
    BY <2>1, PostKeeps
  <2>2. CASE ~Post(id)
    <3>1. UNCHANGED <<runs, g_sensitivity, flag, gain, proc>>
      BY <1>6, <2>2 DEF Serve, Get, PostRejected, Lose, ScriptDone, Receive, Fail, bridge
    <3> QED BY <3>1, OthersKeep
  <2> QED BY <2>1, <2>2
<1>7. ASSUME NEW o \in Overlays, Page(o) PROVE IInv'
  <2>1. UNCHANGED <<runs, g_sensitivity, flag, gain, proc>>
    BY <1>7 DEF Page, Open, Input, Drag, PostValue, bridge
  <2> QED BY <2>1, OthersKeep
<1> QED BY <1>1, <1>2, <1>3, <1>4, <1>5, <1>6, <1>7 DEF Next

\* Every controller works with the value in force, at every moment at which the
\* bridge can handle anything else.
THEOREM AgreementHolds == Spec => []ControllersAgree
<1>1. IInv => ControllersAgree
  BY DEF IInv
<1> QED BY <1>1, InitEstablishes, NextKeeps, PTL DEF Spec

----------------------------------------------------------------------------

\* Division leaves less than the divisor.
LEMMA DivStep ==
    ASSUME NEW a \in Nat, NEW g \in Nat \ {0}
    PROVE  a \div g \in Nat /\ (a \div g) * g <= a /\ a < (a \div g) * g + g
OBVIOUS

\* Rounding down to a multiple keeps the order.
LEMMA DivMono ==
    ASSUME NEW a \in Nat, NEW b \in Nat, NEW g \in Nat \ {0}, a <= b
    PROVE  (a \div g) * g <= (b \div g) * g
<1> DEFINE p == a \div g
           q == b \div g
<1>1. p \in Nat /\ q \in Nat /\ p * g <= a /\ b < q * g + g
  BY DivStep
<1> HIDE DEF p, q
<1>2. SUFFICES ASSUME ~(p * g <= q * g) PROVE FALSE
  BY DEF p, q
<1>3. p > q
  BY <1>1, <1>2
<1>4. p * g >= (q + 1) * g
  BY <1>1, <1>3
<1>5. (q + 1) * g = q * g + g
  BY <1>1
<1> QED BY <1>1, <1>4, <1>5

\* Between two multiples of a step, the nearest multiple is between them too.
LEMMA NearestFits ==
    ASSUME NEW step \in Nat \ {0}, NEW a \in Nat, NEW b \in Nat, NEW v \in a..b,
           Nearest(a, step) = a, Nearest(b, step) = b
    PROVE  Nearest(v, step) \in a..b
<1> DEFINE h == step \div 2
<1>1. h \in Nat
  OBVIOUS
<1> HIDE DEF h
<1>2. a + h \in Nat /\ v + h \in Nat /\ b + h \in Nat /\ a + h <= v + h /\ v + h <= b + h
  BY <1>1
<1>3. Nearest(a, step) <= Nearest(v, step) /\ Nearest(v, step) <= Nearest(b, step)
  BY <1>2, DivMono DEF Nearest, h
<1>4. Nearest(v, step) \in Int
  BY <1>2, DivStep DEF Nearest, h
<1> QED BY <1>3, <1>4

\* The nearest multiple is a number.
LEMMA NearestNat ==
    ASSUME NEW step \in Nat \ {0}, NEW v \in Nat PROVE Nearest(v, step) \in Nat
<1>1. step \div 2 \in Nat /\ v + step \div 2 \in Nat
  OBVIOUS
<1>2. (v + step \div 2) \div step \in Nat
  BY <1>1, DivStep
<1> QED BY <1>2 DEF Nearest

\* What "%g" prints of an accepted value is an accepted value: the ends of the
\* range print as themselves.
LEMMA RoundedFits == \A v \in Accepted : Rounded(v) \in Accepted
<1>1. GRAIN \in Nat \ {0} /\ LOW \in Nat /\ HIGH \in Nat
  BY RangeAssumption
<1>2. Nearest(LOW, GRAIN) = LOW /\ Nearest(HIGH, GRAIN) = HIGH
  BY PrintingAssumption DEF Rounded
<1> QED BY <1>1, <1>2, NearestFits DEF Accepted, Rounded

\* The slider's positions are accepted values, and it shows them as they are.
LEMMA SlidersFit ==
    /\ Sliders \subseteq Accepted /\ Accepted \subseteq Nat
    /\ \A v \in Sliders : Rounded(v) = v
<1>1. Sliders \subseteq SLIDER_MIN..SLIDER_MAX
  BY DEF Sliders
<1> QED BY <1>1, RangeAssumption, SliderAssumption, PrintingAssumption DEF Accepted

Displays == [slider : SLIDER_MIN..SLIDER_MAX, label : Nat]

\* Wherever a value lies, the slider shows it within its range.
LEMMA DisplayFits == \A v \in Accepted : Display(v) \in Displays
<1> SUFFICES ASSUME NEW v \in Accepted PROVE Display(v) \in Displays
  OBVIOUS
<1>1. v \in Nat /\ SLIDER_MIN \in Nat /\ SLIDER_MAX \in Nat /\ SLIDER_STEP \in Nat \ {0}
      /\ SLIDER_MIN <= SLIDER_MAX
  BY RangeAssumption, SliderAssumption DEF Accepted
<1>2. Nearest(SLIDER_MIN, SLIDER_STEP) = SLIDER_MIN
      /\ Nearest(SLIDER_MAX, SLIDER_STEP) = SLIDER_MAX
  BY SliderAssumption DEF Sliders
<1>3. v \in SLIDER_MIN..SLIDER_MAX => Nearest(v, SLIDER_STEP) \in SLIDER_MIN..SLIDER_MAX
  BY <1>1, <1>2, NearestFits
<1>4. Position(v) \in SLIDER_MIN..SLIDER_MAX
  BY <1>1, <1>3 DEF Position
<1>5. Nearest(v, SLIDER_STEP) \in Nat
  BY <1>1, NearestNat
<1> QED BY <1>4, <1>5 DEF Display, Displays

\* The last acknowledged value is in the file, except while it is written.
SavedFits ==
    acked # None => acked \in Accepted /\ (proc # "saving" => conf = acked)

\* A reply that tells a value, or none yet
Telling(r) == r.reply \in Accepted \/ (r.reply = None /\ r.state # "answered")

\* Only a POST is rejected: a GET is answered with a value.
RepliesFit ==
    \A id \in ReqIds : requests[id] # None /\ requests[id].method = "GET" => Telling(requests[id])

Own(id, o) == requests[id] # None /\ requests[id].owner = o

\* Of an overlay that acts alone at most one request is under way, with no
\* timer running.  An answer to it is about the value in force: only a POST of
\* another changes that, and it disturbs the overlay.
RequestFits(id, o) ==
    /\ postTimer[o] = None
    /\ \A other \in ReqIds : Own(other, o) => other = id
    /\ requests[id].method = "GET" /\ requests[id].state = "answered"
         => requests[id].reply = Rounded(g_sensitivity)
    /\ requests[id].method = "POST" =>
         /\ requests[id].value \in Sliders /\ shown[o] = Display(requests[id].value)
         /\ requests[id].state \in {"saving", "answered"} => g_sensitivity = requests[id].value

\* What an overlay that acts alone shows, with nothing under way
PageFits(o) ==
    /\ postTimer[o] # None => shown[o] = Display(postTimer[o])
    /\ /\ status[o] \in {"saved", "ready"} /\ postTimer[o] = None
       /\ \A id \in ReqIds : ~Own(id, o)
       => shown[o] = Display(Rounded(g_sensitivity))

Fits(o) == (\A id \in ReqIds : Own(id, o) => RequestFits(id, o)) /\ PageFits(o)
ActsAlone == \A o \in undisturbed : Fits(o)

PInv == IInv /\ TypeOK /\ RepliesFit /\ SavedFits /\ ActsAlone

\* A request that moves on is the same request, in its new state.
LEMMA MovedRequest ==
    ASSUME TypeOK, NEW id \in ReqIds, requests[id] # None,
           NEW state \in {"sent", "saving", "answered", "lost"},
           NEW reply \in Accepted \cup {None, Rejected},
           \/ requests' = [requests EXCEPT ![id].state = state, ![id].reply = reply]
           \/ /\ requests' = [requests EXCEPT ![id].state = state]
              /\ reply = requests[id].reply
    PROVE  /\ requests' \in [ReqIds -> Requests \cup {None}]
           /\ requests'[id] # None
           /\ requests'[id].owner = requests[id].owner
           /\ requests'[id].method = requests[id].method
           /\ requests'[id].value = requests[id].value
           /\ requests'[id].state = state /\ requests'[id].reply = reply
           /\ \A other \in ReqIds : other # id => requests'[other] = requests[other]
<1>1. requests[id] \in Requests /\ requests \in [ReqIds -> Requests \cup {None}]
  BY DEF TypeOK
<1>2. None \notin Requests
  BY MarkerAssumption
<1>3. requests'[id] = [owner |-> requests[id].owner, method |-> requests[id].method,
                       value |-> requests[id].value, state |-> state, reply |-> reply]
  <2>1. CASE requests' = [requests EXCEPT ![id].state = state, ![id].reply = reply]
    <3>1. requests'[id] = [requests[id] EXCEPT !.state = state, !.reply = reply]
      BY <1>1, <2>1
    <3> QED BY <1>1, <3>1 DEF Requests
  <2>2. CASE requests' = [requests EXCEPT ![id].state = state] /\ reply = requests[id].reply
    <3>1. requests'[id] = [requests[id] EXCEPT !.state = state]
      BY <1>1, <2>2
    <3> QED BY <1>1, <2>2, <3>1 DEF Requests
  <2> QED BY <2>1, <2>2
<1>4. requests'[id] \in Requests
  BY <1>1, <1>3 DEF Requests
<1>5. \A other \in ReqIds : other # id => requests'[other] = requests[other]
  BY <1>1
<1>6. requests' \in [ReqIds -> Requests \cup {None}]
  BY <1>1, <1>4, <1>5
<1>7. requests'[id] # None
  BY <1>2, <1>4
<1> QED BY <1>1, <1>3, <1>5, <1>6, <1>7 DEF Requests

\* A request takes an entry that was free, and leaves it free.
LEMMA SentRequest ==
    ASSUME TypeOK, NEW owner \in Overlays \cup {Script}, NEW method \in {"GET", "POST"},
           NEW value \in Asked \cup Sliders \cup {None}, Send(owner, method, value)
    PROVE  /\ requests' \in [ReqIds -> Requests \cup {None}]
           /\ \E id \in ReqIds :
                /\ requests[id] = None
                /\ requests'[id] = Request(owner, method, value) /\ requests'[id] # None
                /\ \A other \in ReqIds : other # id => requests'[other] = requests[other]
<1>1. requests \in [ReqIds -> Requests \cup {None}]
  BY DEF TypeOK
<1>2. Request(owner, method, value) \in Requests /\ None \notin Requests
  BY MarkerAssumption DEF Request, Requests
<1>3. PICK id \in ReqIds :
        requests[id] = None /\ requests' = [requests EXCEPT ![id] = Request(owner, method, value)]
  BY DEF Send
<1> QED BY <1>1, <1>2, <1>3

\* An entry is given back.
LEMMA ForgottenRequest ==
    ASSUME TypeOK, NEW id \in ReqIds, Forget(id)
    PROVE  /\ requests' \in [ReqIds -> Requests \cup {None}] /\ requests'[id] = None
           /\ \A other \in ReqIds : other # id => requests'[other] = requests[other]
BY DEF TypeOK, Forget

\* The bridge goes: what it has not answered is lost, request by request.
LEMMA LostRequests ==
    ASSUME TypeOK, LoseRequests
    PROVE  /\ requests' \in [ReqIds -> Requests \cup {None}]
           /\ \A id \in ReqIds :
                \/ requests'[id] = requests[id]
                \/ /\ requests[id] # None /\ requests'[id] # None
                   /\ requests'[id] = [requests[id] EXCEPT !.state = "lost"]
                   /\ requests[id] \in Requests
<1>1. requests \in [ReqIds -> Requests \cup {None}] /\ None \notin Requests
  BY MarkerAssumption DEF TypeOK
<1>2. ASSUME NEW id \in ReqIds, In(id, "sent") \/ In(id, "saving")
      PROVE  /\ requests'[id] = [requests[id] EXCEPT !.state = "lost"]
             /\ requests[id] \in Requests /\ requests'[id] \in Requests
  <2>1. requests[id] \in Requests /\ requests'[id] = [requests[id] EXCEPT !.state = "lost"]
    BY <1>1, <1>2 DEF In, LoseRequests
  <2> QED BY <2>1 DEF Requests
<1>3. ASSUME NEW id \in ReqIds, ~(In(id, "sent") \/ In(id, "saving"))
      PROVE  requests'[id] = requests[id]
  BY <1>3 DEF LoseRequests
<1>4. \A id \in ReqIds : requests'[id] \in Requests \cup {None}
  BY <1>1, <1>2, <1>3
<1>5. requests' \in [ReqIds -> Requests \cup {None}]
  BY <1>4 DEF LoseRequests
<1> QED BY <1>1, <1>2, <1>3, <1>5

\* What stands of TypeOK besides the bridge's own: the file, the requests, the
\* pages
LEMMA TypesPreserved == PInv /\ [Next]_vars => TypeOK'
<1> SUFFICES ASSUME PInv, [Next]_vars PROVE TypeOK'
  OBVIOUS
<1> USE DEF PInv
<1>b. BridgeTypeOK'
  BY NextKeeps DEF IInv
<1>n. Accepted \subseteq Nat /\ Sliders \subseteq Accepted /\ g_sensitivity \in Accepted
  BY SlidersFit DEF IInv, BridgeTypeOK
<1>g. Rounded(g_sensitivity) \in Accepted
  BY <1>n, RoundedFits
<1>1. CASE Start
  BY <1>1, <1>b DEF Start, Disturbs, TypeOK, page
<1>2. CASE Stop \/ CrashInSave
  <2>1. requests' \in [ReqIds -> Requests \cup {None}]
    BY <1>2, LostRequests DEF Stop, CrashInSave
  <2> QED BY <1>2, <1>b, <2>1 DEF Stop, CrashInSave, TypeOK, page
<1>3. CASE SaveEnds
  <2>1. PICK id \in ReqIds : In(id, "saving") /\ Answer(id, Rounded(g_sensitivity))
    BY <1>3 DEF SaveEnds
  <2>2. requests' \in [ReqIds -> Requests \cup {None}]
    BY <1>g, <2>1, MovedRequest DEF In, Answer
  <2>3. conf' \in Nat \cup {None, Empty} /\ acked' \in Accepted \cup {None}
    BY <1>3, <1>g, <1>n DEF SaveEnds, TypeOK
  <2> QED BY <1>3, <1>b, <2>2, <2>3 DEF SaveEnds, TypeOK, page
<1>4. CASE ScriptSends
  <2>1. requests' \in [ReqIds -> Requests \cup {None}]
    BY <1>4, SentRequest DEF ScriptSends
  <2> QED BY <1>4, <1>b, <2>1 DEF ScriptSends, TypeOK, page, bridge
<1>5. CASE UNCHANGED vars
  BY <1>5, <1>b DEF vars, bridge, page, TypeOK
<1>6. ASSUME NEW s \in Slots, Upgrade(s) \/ CloseClient(s) PROVE TypeOK'
  BY <1>6, <1>b DEF Upgrade, CloseClient, OnlyGain, TypeOK, page
<1>7. ASSUME NEW id \in ReqIds, Get(id) \/ PostRejected(id) \/ Lose(id) PROVE TypeOK'
  <2>1. requests' \in [ReqIds -> Requests \cup {None}]
    <3>1. CASE Get(id) \/ PostRejected(id)
      BY <3>1, <1>g, MovedRequest DEF Get, PostRejected, Sent, In, Answer
    <3>2. CASE Lose(id)
      <4>1. requests[id] # None /\ requests[id].reply \in Accepted \cup {None, Rejected}
        BY <3>2 DEF Lose, In, TypeOK, Requests
      <4> QED BY <3>2, <4>1, MovedRequest DEF Lose
    <3> QED BY <1>7, <3>1, <3>2
  <2> QED BY <1>7, <1>b, <2>1 DEF Get, PostRejected, Lose, TypeOK, page, bridge
<1>8. ASSUME NEW id \in ReqIds, Post(id) PROVE TypeOK'
  <2>1. /\ requests[id] # None /\ requests[id].value \in Accepted
        /\ requests[id].reply \in Accepted \cup {None, Rejected}
    BY <1>8 DEF Post, Apply, Sent, In, TypeOK, Requests
  <2>2. Rounded(requests[id].value) \in Accepted
    BY <2>1, RoundedFits
  <2>3. CASE BeginSave(id)
    <3>1. requests' \in [ReqIds -> Requests \cup {None}]
      BY <2>1, <2>3, MovedRequest DEF BeginSave
    <3> QED BY <1>8, <1>b, <2>3, <3>1 DEF Post, Apply, BeginSave, Disturbs, TypeOK, page
  <2>4. CASE AnswerUnsaved(id, None)
    <3>1. requests' \in [ReqIds -> Requests \cup {None}]
      BY <2>1, <2>2, <2>4, MovedRequest DEF AnswerUnsaved, Answer
    <3> QED BY <1>8, <1>b, <2>4, <3>1 DEF Post, Apply, AnswerUnsaved, Disturbs, TypeOK, page
  <2> QED BY <1>8, <2>3, <2>4 DEF Post
<1>9. ASSUME NEW id \in ReqIds, ScriptDone(id) \/ Receive(id) \/ Fail(id) PROVE TypeOK'
  <2>1. requests' \in [ReqIds -> Requests \cup {None}]
    BY <1>9, ForgottenRequest DEF ScriptDone, Receive, Fail
  <2>2. CASE ScriptDone(id)
    BY <1>b, <2>1, <2>2 DEF ScriptDone, TypeOK, page, bridge
  <2>3. CASE Receive(id)
    <3>1. requests[id].owner \in Overlays
      BY <2>3 DEF Receive
    <3>r. requests[id].method = "GET" => Display(requests[id].reply) \in Displays
      BY <2>3, DisplayFits DEF Receive, In, RepliesFit, Telling
    <3>2. shown' \in [Overlays -> Displays \cup {None}]
      BY <2>3, <3>1, <3>r DEF Receive, TypeOK, Displays
    <3> QED BY <1>b, <2>1, <2>3, <3>2 DEF Receive, TypeOK, Displays, bridge
  <2>4. CASE Fail(id)
    BY <1>b, <2>1, <2>4 DEF Fail, TypeOK, bridge
  <2> QED BY <1>9, <2>2, <2>3, <2>4
<1>10. ASSUME NEW o \in Overlays, Page(o) PROVE TypeOK'
  <2>1. CASE Open(o)
    <3>1. requests' \in [ReqIds -> Requests \cup {None}]
      BY <2>1, SentRequest DEF Open
    <3> QED BY <1>b, <2>1, <3>1 DEF Open, Acts, TypeOK, bridge
  <2>2. CASE \E v \in Sliders : Input(o, v)
    <3>1. PICK v \in Sliders : Input(o, v)
      BY <2>2
    <3>d. Display(v) \in Displays
      BY <1>n, DisplayFits
    <3>2. shown' \in [Overlays -> Displays \cup {None}]
          /\ postTimer' \in [Overlays -> Sliders \cup {None}]
      BY <3>1, <3>d DEF Input, Drag, TypeOK, Displays
    <3>3. status' = [status EXCEPT ![o] = "ready"] /\ undisturbed' \subseteq Overlays
      BY <3>1 DEF Input, Drag, Acts, TypeOK
    <3>4. UNCHANGED <<conf, acked, requests>>
      BY <3>1 DEF Input, Drag, bridge
    <3> QED BY <1>b, <3>2, <3>3, <3>4 DEF TypeOK, Displays
  <2>3. CASE PostValue(o)
    <3>1. postTimer[o] \in Sliders
      BY <2>3 DEF PostValue, TypeOK
    <3>2. requests' \in [ReqIds -> Requests \cup {None}]
      BY <2>3, <3>1, SentRequest DEF PostValue
    <3> QED BY <1>b, <2>3, <3>2 DEF PostValue, Acts, TypeOK, bridge
  <2> QED BY <1>10, <2>1, <2>2, <2>3 DEF Page
<1> QED BY <1>1, <1>2, <1>3, <1>4, <1>5, <1>6, <1>7, <1>8, <1>9, <1>10 DEF Next, Serve

\* What was acknowledged is in the file once the save is over; a save that
\* fails, or dies, is not acknowledged any longer.
LEMMA SavedPreserved == PInv /\ [Next]_vars => SavedFits'
<1> SUFFICES ASSUME PInv, [Next]_vars PROVE SavedFits'
  OBVIOUS
<1> USE DEF PInv, SavedFits
<1>1. CASE SaveEnds
  <2>1. Rounded(g_sensitivity) \in Accepted
    BY RoundedFits DEF IInv, BridgeTypeOK
  <2> QED BY <1>1, <2>1 DEF SaveEnds
<1>2. ASSUME NEW id \in ReqIds, Post(id) PROVE SavedFits'
  BY <1>2 DEF Post, Apply, BeginSave, AnswerUnsaved, Sent
<1>3. CASE Start
  BY <1>3 DEF Start
<1>4. CASE Stop \/ CrashInSave
  BY <1>4 DEF Stop, CrashInSave
<1>5. CASE UNCHANGED <<conf, acked, proc>>
  BY <1>5
<1> QED
  BY <1>1, <1>2, <1>3, <1>4, <1>5
  DEF Next, Serve, Page, vars, bridge, ScriptSends, Upgrade, CloseClient, OnlyGain, Get,
      PostRejected, Lose, ScriptDone, Receive, Fail, Open, Input, Drag, PostValue

\* A GET is answered with the value, rounded; no step rejects one.
LEMMA RepliesPreserved == PInv /\ [Next]_vars => RepliesFit'
<1> SUFFICES ASSUME PInv, [Next]_vars, NEW id \in ReqIds,
                    requests'[id] # None, requests'[id].method = "GET"
             PROVE  Telling(requests'[id])
  BY DEF RepliesFit
<1> USE DEF PInv
<1>g. Rounded(g_sensitivity) \in Accepted
  BY RoundedFits DEF IInv, BridgeTypeOK
<1>1. CASE requests'[id] = requests[id]
  BY <1>1 DEF RepliesFit
<1>2. CASE Stop \/ CrashInSave
  <2>1. LoseRequests
    BY <1>2 DEF Stop, CrashInSave
  <2> QED BY <1>1, <2>1, LostRequests DEF Requests, RepliesFit, Telling
<1>3. ASSUME NEW i \in ReqIds, In(i, "saving"), Answer(i, Rounded(g_sensitivity))
      PROVE  Telling(requests'[id])
  <2>1. /\ requests'[i].reply = Rounded(g_sensitivity)
        /\ \A other \in ReqIds : other # i => requests'[other] = requests[other]
    BY <1>3, <1>g, MovedRequest DEF In, Answer
  <2> QED BY <1>1, <1>g, <2>1 DEF Telling
<1>4. ASSUME NEW i \in ReqIds, Get(i) \/ PostRejected(i)
      PROVE  Telling(requests'[id])
  <2>1. CASE Get(i)
    <3>1. /\ requests'[i].reply = Rounded(g_sensitivity)
          /\ \A other \in ReqIds : other # i => requests'[other] = requests[other]
      BY <2>1, <1>g, MovedRequest DEF Get, Sent, In, Answer
    <3> QED BY <1>1, <1>g, <3>1 DEF Telling
  <2>2. CASE PostRejected(i)
    <3>1. /\ requests'[i].method = "POST"
          /\ \A other \in ReqIds : other # i => requests'[other] = requests[other]
      BY <2>2, MovedRequest DEF PostRejected, Sent, In, Answer
    <3> QED BY <1>1, <3>1
  <2> QED BY <1>4, <2>1, <2>2
<1>5. ASSUME NEW i \in ReqIds, Post(i) PROVE Telling(requests'[id])
  <2>1. /\ requests[i] # None /\ requests[i].method = "POST" /\ requests[i].value \in Accepted
        /\ requests[i].reply \in Accepted \cup {None, Rejected}
    BY <1>5 DEF Post, Apply, Sent, In, TypeOK, Requests
  <2>2. Rounded(requests[i].value) \in Accepted
    BY <2>1, RoundedFits
  <2> QED BY <1>1, <1>5, <2>1, <2>2, MovedRequest DEF Post, BeginSave, AnswerUnsaved, Answer
<1>6. ASSUME NEW i \in ReqIds, Lose(i) PROVE Telling(requests'[id])
  <2>1. requests[i] # None /\ requests[i].reply \in Accepted \cup {None, Rejected}
    BY <1>6 DEF Lose, In, TypeOK, Requests
  <2>2. /\ requests'[i].reply = requests[i].reply /\ requests'[i].state = "lost"
        /\ requests'[i].method = requests[i].method
        /\ \A other \in ReqIds : other # i => requests'[other] = requests[other]
    BY <1>6, <2>1, MovedRequest DEF Lose
  <2> QED BY <1>1, <2>1, <2>2 DEF RepliesFit, Telling
<1>7. ASSUME NEW i \in ReqIds, Forget(i) PROVE Telling(requests'[id])
  BY <1>1, <1>7, ForgottenRequest
<1>8. ASSUME NEW owner \in Overlays \cup {Script}, NEW method \in {"GET", "POST"},
             NEW value \in Asked \cup Sliders \cup {None}, Send(owner, method, value)
      PROVE  Telling(requests'[id])
  <2>1. PICK i \in ReqIds :
          /\ requests'[i] = Request(owner, method, value)
          /\ \A other \in ReqIds : other # i => requests'[other] = requests[other]
    BY <1>8, SentRequest
  <2>2. Telling(requests'[i])
    BY <2>1 DEF Request, Telling
  <2> QED BY <1>1, <2>1, <2>2
<1>9. ASSUME NEW o \in Overlays, Page(o) PROVE Telling(requests'[id])
  <2>1. CASE Open(o)
    BY <1>8, <2>1 DEF Open
  <2>2. CASE PostValue(o)
    BY <1>8, <2>2 DEF PostValue, TypeOK
  <2>3. CASE UNCHANGED requests
    BY <1>1, <2>3
  <2> QED BY <1>9, <2>1, <2>2, <2>3 DEF Page, Input, Drag
<1>10. CASE ScriptSends
  BY <1>8, <1>10 DEF ScriptSends
<1>11. CASE SaveEnds
  BY <1>3, <1>11 DEF SaveEnds
<1>12. CASE UNCHANGED requests
  BY <1>1, <1>12
<1> QED
  BY <1>2, <1>4, <1>5, <1>6, <1>7, <1>9, <1>10, <1>11, <1>12
  DEF Next, Serve, vars, Start, Upgrade, CloseClient, OnlyGain, ScriptDone, Receive, Fail

\* A request of this overlay's may have moved on, as long as its answer tells of
\* the value in force.
Moved(id, o) ==
    /\ requests[id] # None /\ requests'[id] # None
    /\ requests'[id].owner = requests[id].owner
    /\ requests'[id].method = requests[id].method
    /\ requests'[id].value = requests[id].value
    /\ Own(id, o) =>
         /\ requests[id].method = "GET" /\ requests'[id].state = "answered"
              => requests'[id].reply = Rounded(g_sensitivity)
         /\ requests[id].method = "POST" /\ requests'[id].state \in {"saving", "answered"}
              => g_sensitivity = requests[id].value

Ours(id, o) == requests'[id] # None /\ requests'[id].owner = o

\* What others do, and the bridge's answers, leave a lone overlay as it is.
LEMMA FitsKept ==
    ASSUME NEW o, Fits(o),
           UNCHANGED g_sensitivity,
           postTimer'[o] = postTimer[o], shown'[o] = shown[o], status'[o] = status[o],
           \A id \in ReqIds : \/ requests'[id] = requests[id]
                              \/ ~Own(id, o) /\ ~Ours(id, o)
                              \/ Moved(id, o)
    PROVE  Fits(o)'
<1>1. ASSUME NEW id \in ReqIds PROVE Own(id, o)' = Own(id, o)
  BY DEF Own, Ours, Moved
<1>2. Rounded(g_sensitivity)' = Rounded(g_sensitivity)
  BY DEF Rounded
<1>3. ASSUME NEW id \in ReqIds, Own(id, o)' PROVE RequestFits(id, o)'
  <2>1. Own(id, o) /\ RequestFits(id, o)
    BY <1>1, <1>3 DEF Fits
  <2>2. CASE requests'[id] = requests[id]
    BY <1>1, <1>2, <2>1, <2>2 DEF RequestFits
  <2>3. CASE Moved(id, o)
    BY <1>1, <1>2, <2>1, <2>3 DEF RequestFits, Moved
  <2> QED BY <2>1, <2>2, <2>3
<1>4. PageFits(o)'
  BY <1>1, <1>2 DEF Fits, PageFits
<1> QED BY <1>3, <1>4 DEF Fits

\* What the bridge does with requests: it answers, or goes.
LEMMA AnswersKeepFits ==
    ASSUME PInv, NEW o \in undisturbed,
           \/ Stop \/ CrashInSave \/ SaveEnds
           \/ \E id \in ReqIds : Get(id) \/ PostRejected(id) \/ Lose(id)
    PROVE  Fits(o)'
<1> USE DEF PInv, ActsAlone
<1>1. UNCHANGED <<g_sensitivity, postTimer, shown, status>>
  BY DEF Stop, CrashInSave, SaveEnds, Get, PostRejected, Lose, bridge, page
<1>2. SUFFICES ASSUME NEW id \in ReqIds
               PROVE  requests'[id] = requests[id] \/ Moved(id, o)
  BY <1>1, FitsKept
<1>3. CASE Stop \/ CrashInSave
  <2>1. LoseRequests
    BY <1>3 DEF Stop, CrashInSave
  <2> QED BY <2>1, LostRequests DEF Requests, Moved
<1>g. Rounded(g_sensitivity) \in Accepted
  BY RoundedFits DEF IInv, BridgeTypeOK
<1>4. CASE SaveEnds
  <2>1. PICK i \in ReqIds : In(i, "saving") /\ Answer(i, Rounded(g_sensitivity))
    BY <1>4 DEF SaveEnds
  <2>2. /\ requests'[i] # None
        /\ requests'[i].owner = requests[i].owner /\ requests'[i].method = requests[i].method
        /\ requests'[i].value = requests[i].value
        /\ requests'[i].reply = Rounded(g_sensitivity)
        /\ \A other \in ReqIds : other # i => requests'[other] = requests[other]
    BY <1>g, <2>1, MovedRequest DEF In, Answer
  <2>3. Own(i, o) /\ requests[i].method = "POST" => g_sensitivity = requests[i].value
    BY <2>1 DEF In, Fits, RequestFits
  <2> QED BY <2>1, <2>2, <2>3 DEF In, Moved
<1>5. ASSUME NEW i \in ReqIds, Get(i) PROVE requests'[id] = requests[id] \/ Moved(id, o)
  <2>1. /\ requests[i] # None /\ requests'[i] # None /\ requests[i].method = "GET"
        /\ requests'[i].owner = requests[i].owner /\ requests'[i].method = requests[i].method
        /\ requests'[i].value = requests[i].value
        /\ requests'[i].reply = Rounded(g_sensitivity)
        /\ \A other \in ReqIds : other # i => requests'[other] = requests[other]
    BY <1>g, <1>5, MovedRequest DEF Get, Sent, In, Answer
  <2> QED BY <2>1 DEF Moved
<1>6. ASSUME NEW i \in ReqIds, PostRejected(i)
      PROVE  requests'[id] = requests[id] \/ Moved(id, o)
  <2>1. /\ requests[i] # None /\ requests'[i] # None /\ requests[i].method = "POST"
        /\ requests'[i].owner = requests[i].owner /\ requests'[i].method = requests[i].method
        /\ requests'[i].value = requests[i].value /\ requests[i].value \notin Accepted
        /\ \A other \in ReqIds : other # i => requests'[other] = requests[other]
    BY <1>6, MovedRequest DEF PostRejected, Sent, In, Answer
  <2>2. ~Own(i, o)
    BY <2>1, SlidersFit DEF Fits, RequestFits
  <2> QED BY <2>1, <2>2 DEF Moved
<1>7. ASSUME NEW i \in ReqIds, Lose(i) PROVE requests'[id] = requests[id] \/ Moved(id, o)
  <2>1. requests[i] # None /\ requests[i].reply \in Accepted \cup {None, Rejected}
    BY <1>7 DEF Lose, In, TypeOK, Requests
  <2>2. /\ requests'[i] # None /\ requests'[i].state = "lost"
        /\ requests'[i].owner = requests[i].owner /\ requests'[i].method = requests[i].method
        /\ requests'[i].value = requests[i].value
        /\ \A other \in ReqIds : other # i => requests'[other] = requests[other]
    BY <1>7, <2>1, MovedRequest DEF Lose
  <2> QED BY <2>1, <2>2 DEF Moved
<1> QED BY <1>3, <1>4, <1>5, <1>6, <1>7

\* A POST that changes the value disturbs everyone but its owner, who sent the
\* value it shows.
LEMMA PostKeepsFits ==
    ASSUME PInv, NEW id \in ReqIds, Post(id), NEW o \in undisturbed'
    PROVE  Fits(o)'
<1> USE DEF PInv, ActsAlone
<1>1. /\ requests[id] # None /\ requests[id].method = "POST" /\ requests[id].value \in Accepted
      /\ requests[id].reply \in Accepted \cup {None, Rejected}
      /\ g_sensitivity' = requests[id].value
      /\ undisturbed' = undisturbed \cap {requests[id].owner}
      /\ UNCHANGED <<postTimer, shown, status>>
  BY DEF Post, Apply, Sent, In, TypeOK, Requests, Disturbs, page
<1>2. Rounded(requests[id].value) \in Accepted
  BY <1>1, RoundedFits
<1>3. /\ requests'[id] # None
      /\ requests'[id].owner = requests[id].owner /\ requests'[id].method = requests[id].method
      /\ requests'[id].value = requests[id].value
      /\ \A other \in ReqIds : other # id => requests'[other] = requests[other]
  <2>1. CASE requests' = [requests EXCEPT ![id].state = "saving"]
    BY <1>1, <2>1, MovedRequest
  <2>2. CASE Answer(id, Rounded(requests[id].value))
    BY <1>1, <1>2, <2>2, MovedRequest DEF Answer
  <2> QED BY <2>1, <2>2 DEF Post, BeginSave, AnswerUnsaved
<1>4. Own(id, o) /\ Fits(o) /\ Own(id, o)'
  BY <1>1, <1>3 DEF Own
<1>5. RequestFits(id, o)
  BY <1>4 DEF Fits
<1>6. ASSUME NEW other \in ReqIds, Own(other, o)' PROVE other = id
  BY <1>3, <1>5, <1>6 DEF Own, RequestFits
<1>7. RequestFits(id, o)'
  BY <1>1, <1>3, <1>5, <1>6 DEF RequestFits
<1>8. PageFits(o)'
  BY <1>1, <1>4 DEF Fits, PageFits
<1> QED BY <1>6, <1>7, <1>8 DEF Fits

\* What an overlay does, and what it gets, concerns no other overlay; a client
\* that is none concerns none.
LEMMA OthersKeepFits ==
    ASSUME PInv, NEW o \in undisturbed, NEW p \in Overlays \cup {Script}, p # o,
           UNCHANGED g_sensitivity,
           postTimer'[o] = postTimer[o], shown'[o] = shown[o], status'[o] = status[o],
           \/ UNCHANGED requests
           \/ \E method \in {"GET", "POST"}, value \in Asked \cup Sliders \cup {None} :
                Send(p, method, value)
           \/ \E id \in ReqIds : requests[id].owner = p /\ Forget(id)
    PROVE  Fits(o)'
<1> USE DEF PInv, ActsAlone
<1>1. CASE UNCHANGED requests
  BY <1>1, FitsKept
<1>2. ASSUME NEW method \in {"GET", "POST"}, NEW value \in Asked \cup Sliders \cup {None},
             Send(p, method, value)
      PROVE  Fits(o)'
  <2>1. PICK id \in ReqIds :
          /\ requests[id] = None
          /\ requests'[id] = Request(p, method, value)
          /\ \A other \in ReqIds : other # id => requests'[other] = requests[other]
    BY <1>2, SentRequest
  <2>2. ~Own(id, o) /\ ~Ours(id, o)
    BY <2>1 DEF Own, Ours, Request
  <2> QED BY <2>1, <2>2, FitsKept
<1>3. ASSUME NEW id \in ReqIds, requests[id].owner = p, Forget(id) PROVE Fits(o)'
  <2>1. requests'[id] = None /\ \A other \in ReqIds : other # id => requests'[other] = requests[other]
    BY <1>3, ForgottenRequest
  <2>2. ~Own(id, o) /\ ~Ours(id, o)
    BY <1>3, <2>1 DEF Own, Ours
  <2> QED BY <2>1, <2>2, FitsKept
<1> QED BY <1>1, <1>2, <1>3

\* An overlay that starts a request when it has none, and no timer
LEMMA SendingFits ==
    ASSUME PInv, NEW o \in Overlays, UnderWay(o) = {}, postTimer'[o] = None,
           UNCHANGED shown, g_sensitivity' = g_sensitivity,
           NEW method \in {"GET", "POST"}, NEW value \in Asked \cup Sliders \cup {None},
           Send(o, method, value),
           method = "POST" => value \in Sliders /\ shown[o] = Display(value)
    PROVE  Fits(o)'
<1>1. PICK id \in ReqIds :
        /\ requests'[id] = Request(o, method, value) /\ requests'[id] # None
        /\ \A other \in ReqIds : other # id => requests'[other] = requests[other]
  BY SentRequest DEF PInv
<1>2. \A other \in ReqIds : ~Own(other, o)
  BY DEF UnderWay, Own
<1>3. \A other \in ReqIds : Own(other, o)' => other = id
  BY <1>1, <1>2 DEF Own
<1>4. Own(id, o)'
  BY <1>1 DEF Own, Request
<1>5. RequestFits(id, o)'
  BY <1>1, <1>3 DEF RequestFits, Request
<1>6. PageFits(o)'
  BY <1>4 DEF PageFits
<1> QED BY <1>3, <1>5, <1>6 DEF Fits

\* An overlay's own steps: when it acts alone, what it says holds of itself.
LEMMA PageKeepsFits ==
    ASSUME PInv, NEW p \in Overlays, Page(p), NEW o \in undisturbed' PROVE Fits(o)'
<1> USE DEF PInv, ActsAlone
<1>1. o \in Overlays
  BY TypesPreserved DEF Next, TypeOK
<1>2. UNCHANGED g_sensitivity
  BY DEF Page, Open, Input, Drag, PostValue, bridge
<1>3. CASE Open(p)
  <2>1. CASE o = p
    <3>1. UnderWay(o) = {} /\ postTimer[o] = None
      BY <1>3, <2>1 DEF Open, Acts
    <3> QED BY <1>1, <1>2, <1>3, <2>1, <3>1, SendingFits DEF Open
  <2>2. CASE o # p
    BY <1>2, <1>3, <2>2, OthersKeepFits DEF Open, Acts, TypeOK
  <2> QED BY <2>1, <2>2
<1>4. ASSUME NEW v \in Sliders, Input(p, v) PROVE Fits(o)'
  <2>1. CASE o = p
    <3>1. UnderWay(o) = {} /\ UNCHANGED requests /\ shown'[o] = Display(v) /\ postTimer'[o] = v
      BY <1>1, <1>4, <2>1 DEF Input, Drag, Acts, TypeOK
    <3>2. v # None
      BY SlidersFit, ConstantsOK
    <3>3. \A id \in ReqIds : ~Own(id, o)'
      BY <3>1 DEF UnderWay, Own
    <3> QED BY <3>1, <3>2, <3>3 DEF Fits, PageFits
  <2>2. CASE o # p
    BY <1>2, <1>4, <2>2, OthersKeepFits DEF Input, Drag, Acts, TypeOK
  <2> QED BY <2>1, <2>2
<1>5. CASE PostValue(p)
  <2>1. CASE o = p
    <3>1. UnderWay(o) = {} /\ o \in undisturbed /\ postTimer[o] # None /\ postTimer'[o] = None
          /\ UNCHANGED shown
      BY <1>1, <1>5, <2>1 DEF PostValue, Acts, TypeOK
    <3>2. postTimer[o] \in Sliders /\ shown[o] = Display(postTimer[o])
      BY <1>1, <3>1 DEF TypeOK, Fits, PageFits
    <3> QED BY <1>1, <1>2, <1>5, <2>1, <3>1, <3>2, SendingFits DEF PostValue
  <2>2. CASE o # p
    <3>1. postTimer[p] \in Sliders
      BY <1>5 DEF PostValue, TypeOK
    <3> QED BY <1>2, <1>5, <2>2, <3>1, OthersKeepFits DEF PostValue, Acts, TypeOK
  <2> QED BY <2>1, <2>2
<1> QED BY <1>3, <1>4, <1>5 DEF Page

\* An answer tells an overlay that acts alone the value in force.
LEMMA ReceiptKeepsFits ==
    ASSUME PInv, NEW id \in ReqIds, Receive(id) \/ Fail(id), NEW o \in undisturbed
    PROVE  Fits(o)'
<1> USE DEF PInv, ActsAlone
<1> DEFINE p == requests[id].owner
<1>1. p \in Overlays /\ requests[id] # None /\ Forget(id)
      /\ UNCHANGED <<g_sensitivity, postTimer>>
  BY DEF Receive, Fail, In, bridge
<1>2. o \in Overlays
  BY DEF TypeOK
<1>3. CASE p # o
  BY <1>1, <1>3, OthersKeepFits DEF Receive, Fail, TypeOK
<1>4. CASE p = o
  <2>1. Own(id, o) /\ RequestFits(id, o)
    BY <1>1, <1>4 DEF Own, Fits
  <2>2. \A other \in ReqIds : ~Own(other, o)'
    <3>1. requests'[id] = None
          /\ \A other \in ReqIds : other # id => requests'[other] = requests[other]
      BY <1>1, ForgottenRequest
    <3> QED BY <2>1, <3>1 DEF Own, RequestFits
  <2>3. postTimer[o] = None
    BY <2>1 DEF RequestFits
  <2>4. CASE Receive(id)
    <3>1. requests[id].method = "GET" => shown'[o] = Display(Rounded(g_sensitivity))
      <4>1. requests[id].method = "GET" => requests[id].reply = Rounded(g_sensitivity)
        BY <2>1, <2>4 DEF Receive, In, RequestFits
      <4>2. requests[id].method = "GET" => shown'[o] = Display(requests[id].reply)
        BY <1>2, <1>4, <2>4 DEF Receive, TypeOK
      <4> QED BY <4>1, <4>2
    <3>2. requests[id].method = "POST" =>
            shown'[o] = Display(g_sensitivity) /\ g_sensitivity \in Sliders
      BY <1>2, <1>4, <2>1, <2>4 DEF Receive, In, RequestFits, TypeOK
    <3>3. shown'[o] = Display(Rounded(g_sensitivity))
      BY <2>4, <3>1, <3>2, SlidersFit DEF Receive
    <3>n. UNCHANGED g_sensitivity
      BY <1>1
    <3>4. PageFits(o)'
      BY <1>1, <2>3, <3>3, <3>n DEF PageFits, Display, Position, Nearest, Rounded
    <3> QED BY <2>2, <3>4 DEF Fits
  <2>5. CASE Fail(id)
    <3>1. status'[o] = "not reachable"
      BY <1>2, <1>4, <2>5 DEF Fail, TypeOK
    <3> QED BY <1>1, <2>2, <2>3, <3>1 DEF Fits, PageFits
  <2> QED BY <2>4, <2>5
<1> QED BY <1>3, <1>4

\* Every step leaves every overlay that has acted alone right about the bridge.
LEMMA AlonePreserved == PInv /\ [Next]_vars => ActsAlone'
<1> SUFFICES ASSUME PInv, [Next]_vars, NEW o \in undisturbed' PROVE Fits(o)'
  BY DEF ActsAlone
<1> USE DEF PInv
<1>1. CASE Start
  <2>1. undisturbed' = {}
    BY <1>1, MarkerAssumption DEF Start, Disturbs, TypeOK
  <2> QED BY <2>1
<1>2. CASE Stop \/ CrashInSave \/ SaveEnds
           \/ \E id \in ReqIds : Get(id) \/ PostRejected(id) \/ Lose(id)
  <2>1. o \in undisturbed
    BY <1>2 DEF Stop, CrashInSave, SaveEnds, Get, PostRejected, Lose
  <2> QED BY <1>2, <2>1, AnswersKeepFits
<1>3. ASSUME NEW id \in ReqIds, Post(id) PROVE Fits(o)'
  BY <1>3, PostKeepsFits
<1>4. ASSUME NEW id \in ReqIds, Receive(id) \/ Fail(id) PROVE Fits(o)'
  <2>1. o \in undisturbed
    BY <1>4 DEF Receive, Fail
  <2> QED BY <1>4, <2>1, ReceiptKeepsFits
<1>5. ASSUME NEW p \in Overlays, Page(p) PROVE Fits(o)'
  BY <1>5, PageKeepsFits
<1>6. CASE ScriptSends \/ \E id \in ReqIds : ScriptDone(id)
  <2>1. UNCHANGED <<g_sensitivity, postTimer, shown, status, undisturbed>>
    BY <1>6 DEF ScriptSends, ScriptDone, bridge, page
  <2>2. Script # o
    BY <2>1, RequestAssumption DEF TypeOK
  <2> QED BY <1>6, <2>1, <2>2, OthersKeepFits DEF ScriptSends, ScriptDone
<1>7. CASE UNCHANGED <<g_sensitivity, requests, page, undisturbed>>
  BY <1>7, FitsKept DEF ActsAlone, page
<1> QED
  BY <1>1, <1>2, <1>3, <1>4, <1>5, <1>6, <1>7
  DEF Next, Serve, vars, bridge, Upgrade, CloseClient, OnlyGain

\* No request, no acknowledged value and no lone overlay at the start
LEMMA InitFits == Init => PInv
<1> SUFFICES ASSUME Init PROVE PInv
  OBVIOUS
<1>1. TypeOK
  BY InitEstablishes, RequestAssumption DEF Init, IInv, TypeOK
<1>2. RepliesFit /\ SavedFits /\ ActsAlone
  BY DEF Init, RepliesFit, SavedFits, ActsAlone
<1> QED BY <1>1, <1>2, InitEstablishes DEF PInv

\* Every reachable state satisfies PInv.
THEOREM PagesAndBridgeFit == Spec => []PInv
<1>1. PInv /\ [Next]_vars => PInv'
  BY NextKeeps, TypesPreserved, RepliesPreserved, SavedPreserved, AlonePreserved DEF PInv
<1> QED BY <1>1, InitFits, PTL DEF Spec

\* The value in force is an accepted one in every run, and so are every
\* copy and every reply; every slider stands within its range.
THEOREM ValuesAccepted == Spec => []TypeOK
<1>1. PInv => TypeOK
  BY DEF PInv
<1> QED BY <1>1, PagesAndBridgeFit, PTL

\* An overlay that acts alone and says that all is well shows what the bridge
\* uses, as nearly as its slider and its label can.
THEOREM OverlaysAreRight == Spec => []OverlayShowsTheBridge
<1>1. PInv => OverlayShowsTheBridge
  <2> SUFFICES ASSUME PInv, NEW o \in undisturbed,
                      status[o] \in {"saved", "ready"}, postTimer[o] = None, UnderWay(o) = {}
               PROVE  shown[o] = Display(Rounded(g_sensitivity))
    BY DEF OverlayShowsTheBridge
  <2>1. \A id \in ReqIds : ~Own(id, o)
    BY DEF UnderWay, Own
  <2> QED BY <2>1 DEF PInv, ActsAlone, Fits, PageFits
<1> QED BY <1>1, PagesAndBridgeFit, PTL

\* What a POST was answered with last is what the next run without the flag
\* begins with.
THEOREM PickedValuesStick == Spec => AcknowledgedSticks
<1> DEFINE Sticks ==
      proc = "stopped" /\ proc' = "running" /\ flag' = None /\ acked # None
        => g_sensitivity' = acked
<1>1. PInv /\ [Next]_vars => [Sticks]_vars
  <2> SUFFICES ASSUME PInv, [Next]_vars, proc = "stopped", proc' = "running", flag' = None,
                      acked # None
               PROVE  g_sensitivity' = acked
    OBVIOUS
  <2>1. Start
    BY DEF Next, Serve, Page, vars, bridge, Stop, CrashInSave, SaveEnds, ScriptSends, Upgrade,
           CloseClient, OnlyGain, Get, PostRejected, Post, Apply, Sent, Lose, ScriptDone, Receive,
           Fail, Open, Input, Drag, PostValue
  <2> QED BY <2>1 DEF Start, Loaded, PInv, SavedFits
<1>2. Spec => [][Sticks]_vars
  BY <1>1, PagesAndBridgeFit, PTL DEF Spec
<1> QED BY <1>2 DEF AcknowledgedSticks
=============================================================================
