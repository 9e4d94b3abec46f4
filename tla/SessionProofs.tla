--------------------------- MODULE SessionProofs ----------------------------
(***************************************************************************)
(* Proofs about Session, for channels of any length and any number of RPC  *)
(* ids.  A chain goes on only when the client has taken every RPC before:  *)
(* hence what is under way when an RPC is sent is known, and so is what    *)
(* the client has applied by the time it applies it.                       *)
(***************************************************************************)
EXTENDS Session, ControllerProofs

----------------------------------------------------------------------------
\* What one call of the controller does to its chain

\* The property that the RPC of a step is about, and its method
PropertyOf ==
    [s \in MotionSteps \cup ButtonSteps |->
        CASE s \in {"MSTEP_READ_EXTENTS", "BSTEP_READ_EXTENTS"} -> "model.extents"
          [] s = "MSTEP_READ_PERSPECTIVE" -> "view.perspective"
          [] s \in {"MSTEP_READ_AFFINE", "MSTEP_WRITE_AFFINE", "BSTEP_WRITE_AFFINE"} ->
               "view.affine"
          [] s \in {"MSTEP_READ_VIEWEXTENTS", "MSTEP_WRITE_VIEWEXTENTS",
                    "BSTEP_WRITE_EXTENTS"} -> "view.extents"
          [] s = "MSTEP_WRITE_MOTION" -> "motion"
          [] s = "BSTEP_READ_FRONT" -> "views.front"]
FirstSteps == {"MSTEP_READ_EXTENTS", "BSTEP_READ_EXTENTS"}
ReadSteps == FirstSteps \cup {"MSTEP_READ_PERSPECTIVE", "MSTEP_READ_AFFINE",
                              "MSTEP_READ_VIEWEXTENTS", "BSTEP_READ_FRONT"}
MethodOf(s) == IF s \in ReadSteps THEN "self:read" ELSE "self:update"

\* The steps that follow one another in a chain
Follows ==
    {<<"MSTEP_READ_EXTENTS", "MSTEP_READ_PERSPECTIVE">>,
     <<"MSTEP_READ_PERSPECTIVE", "MSTEP_READ_AFFINE">>,
     <<"MSTEP_READ_AFFINE", "MSTEP_WRITE_MOTION">>,
     <<"MSTEP_READ_AFFINE", "MSTEP_READ_VIEWEXTENTS">>,
     <<"MSTEP_READ_VIEWEXTENTS", "MSTEP_WRITE_MOTION">>,
     <<"MSTEP_WRITE_MOTION", "MSTEP_WRITE_AFFINE">>,
     <<"MSTEP_WRITE_MOTION", "MSTEP_WRITE_VIEWEXTENTS">>,
     <<"MSTEP_WRITE_VIEWEXTENTS", "MSTEP_WRITE_AFFINE">>,
     <<"BSTEP_READ_EXTENTS", "BSTEP_READ_FRONT">>,
     <<"BSTEP_READ_FRONT", "BSTEP_WRITE_AFFINE">>,
     <<"BSTEP_WRITE_AFFINE", "BSTEP_WRITE_EXTENTS">>}

TheRpc(id, method, property, value) ==
    [type |-> "CALL", id |-> id, method |-> method, property |-> property, value |-> value]
Sends(method, property, value) ==
    /\ pending_call_id' \in CallIds \ {pending_call_id}
    /\ sent' = <<TheRpc(pending_call_id', method, property, value)>>

\* No RPC: the chain is where it was, or at its end.
Stays ==
    /\ sent' = <<>> \/ \E type \in {"CALLRESULT", "CALLERROR"} : sent' = <<[type |-> type]>>
    /\ UNCHANGED pending_call_id
    /\ \/ chain' = "NONE"
       \/ UNCHANGED <<chain, step, fresh, model_extents, curr_affine, view_extents>>

\* The first RPC of a chain
Begins ==
    /\ chain' # "NONE" /\ step' \in FirstSteps /\ fresh' = {}
    /\ Sends("self:read", "model.extents", NoValue)

\* What the answer to a step leaves in the fields
Stores(m) ==
    \/ /\ step \in FirstSteps
       /\ model_extents' = m.result.v /\ fresh' = fresh \cup {"model_extents"}
       /\ UNCHANGED <<curr_affine, view_extents>>
    \/ /\ step = "MSTEP_READ_AFFINE"
       /\ curr_affine' = m.result.v /\ fresh' = fresh \cup {"curr_affine"}
       /\ UNCHANGED <<model_extents, view_extents>>
    \/ /\ step = "MSTEP_READ_VIEWEXTENTS"
       /\ view_extents'.base = m.result.v /\ fresh' = fresh \cup {"view_extents"}
       /\ UNCHANGED <<model_extents, curr_affine>>
    \/ /\ step \notin FirstSteps \cup {"MSTEP_READ_AFFINE", "MSTEP_READ_VIEWEXTENTS"}
       /\ fresh' \in {fresh, fresh \cup {"perspective"}}
       /\ UNCHANGED <<model_extents, curr_affine, view_extents>>

\* The next RPC of a chain, sent from the answer to the last
GoesOn(m) ==
    /\ chain # "NONE" /\ UNCHANGED chain
    /\ m.type = "CALLRESULT" /\ m.id = pending_call_id
    /\ <<step, step'>> \in Follows
    /\ Stores(m)
    /\ \E value :
         /\ Sends(MethodOf(step'), PropertyOf[step'], value)
         /\ step' = "MSTEP_WRITE_AFFINE" => value = new_affine /\ UNCHANGED data
         /\ step' = "BSTEP_WRITE_AFFINE" => \E result : value = [front |-> result]

\* chain_finished serves what waits, or nothing.
LEMMA FinishMoves == ASSUME ChainFinished PROVE Stays \/ Begins
<1>1. CASE have_pending_button
  BY <1>1 DEF ChainFinished, StartButtonChain, RpcRead, Rpc, Begins, Sends, TheRpc, FirstSteps
<1>2. CASE ~have_pending_button /\ have_pending_motion
  BY <1>2 DEF ChainFinished, StartMotionChain, RpcRead, Rpc, Begins, Sends, TheRpc, FirstSteps
<1>3. CASE ~have_pending_button /\ ~have_pending_motion
  BY <1>3 DEF ChainFinished, GoIdle, Silent, Stays
<1> QED BY <1>1, <1>2, <1>3

\* An RPC is as Rpc makes it.
LEMMA RpcIsSent ==
    ASSUME NEW method, NEW property, NEW value, Rpc(method, property, value)
    PROVE  Sends(method, property, value)
BY DEF Rpc, Sends, TheRpc

\* A step of a motion chain
LEMMA MotionMoves ==
    ASSUME NEW m, m.type = "CALLRESULT", m.id = pending_call_id, chain = "MOTION",
           AdvanceMotionChain(m.result)
    PROVE  Stays \/ Begins \/ GoesOn(m)
<1>p. PropertyOf["MSTEP_READ_PERSPECTIVE"] = "view.perspective"
      /\ PropertyOf["MSTEP_READ_AFFINE"] = "view.affine"
      /\ PropertyOf["MSTEP_WRITE_AFFINE"] = "view.affine"
      /\ PropertyOf["MSTEP_READ_VIEWEXTENTS"] = "view.extents"
      /\ PropertyOf["MSTEP_WRITE_VIEWEXTENTS"] = "view.extents"
      /\ PropertyOf["MSTEP_WRITE_MOTION"] = "motion"
  BY DEF PropertyOf, MotionSteps
<1> USE RpcIsSent DEF RpcRead, RpcWrite, Proceed, Follows, Stores, MethodOf, ReadSteps, FirstSteps
<1>1. CASE MStepReadExtents(m.result)
  <2>1. CASE ~IsFloats(m.result, 6)
    BY <1>1, <2>1, FinishMoves DEF MStepReadExtents
  <2>2. CASE IsFloats(m.result, 6)
    <3>1. /\ step = "MSTEP_READ_EXTENTS" /\ step' = "MSTEP_READ_PERSPECTIVE"
          /\ model_extents' = m.result.v /\ fresh' = fresh \cup {"model_extents"}
          /\ UNCHANGED <<chain, curr_affine, view_extents>>
          /\ Sends("self:read", "view.perspective", NoValue)
      BY <1>1, <2>2 DEF MStepReadExtents, JsonToFloats
    <3> QED BY <1>p, <3>1 DEF GoesOn
  <2> QED BY <2>1, <2>2
<1>2. CASE MStepReadPerspective(m.result)
  <2>1. /\ step = "MSTEP_READ_PERSPECTIVE" /\ step' = "MSTEP_READ_AFFINE"
        /\ fresh' = fresh \cup {"perspective"}
        /\ UNCHANGED <<chain, model_extents, curr_affine, view_extents>>
        /\ Sends("self:read", "view.affine", NoValue)
    BY <1>2 DEF MStepReadPerspective
  <2> QED BY <1>p, <2>1 DEF GoesOn
<1>3. CASE MStepReadAffine(m.result)
  <2>1. CASE ~IsFloats(m.result, 16)
    BY <1>3, <2>1, FinishMoves DEF MStepReadAffine
  <2>2. CASE IsFloats(m.result, 16)
    <3>1. /\ step = "MSTEP_READ_AFFINE" /\ curr_affine' = m.result.v
          /\ fresh' = fresh \cup {"curr_affine"}
          /\ UNCHANGED <<chain, model_extents, view_extents>>
          /\ \/ /\ step' = "MSTEP_WRITE_MOTION"
                /\ Sends("self:update", "motion", NoValue)
             \/ /\ step' = "MSTEP_READ_VIEWEXTENTS"
                /\ Sends("self:read", "view.extents", NoValue)
      BY <1>3, <2>2 DEF MStepReadAffine, JsonToFloats
    <3> QED BY <1>p, <3>1 DEF GoesOn
  <2> QED BY <2>1, <2>2
<1>4. CASE MStepReadViewExtents(m.result)
  <2>1. CASE ~IsFloats(m.result, 6)
    BY <1>4, <2>1, FinishMoves DEF MStepReadViewExtents
  <2>2. CASE IsFloats(m.result, 6)
    <3>1. /\ step = "MSTEP_READ_VIEWEXTENTS" /\ step' = "MSTEP_WRITE_MOTION"
          /\ view_extents'.base = m.result.v /\ fresh' = fresh \cup {"view_extents"}
          /\ UNCHANGED <<chain, model_extents, curr_affine>>
          /\ Sends("self:update", "motion", NoValue)
      BY <1>4, <2>2 DEF MStepReadViewExtents
    <3> QED BY <1>p, <3>1 DEF GoesOn
  <2> QED BY <2>1, <2>2
<1>5. CASE MStepWriteMotion \/ MStepWriteViewExtents
  <2>1. /\ step \in {"MSTEP_WRITE_MOTION", "MSTEP_WRITE_VIEWEXTENTS"}
        /\ UNCHANGED <<chain, data>> /\ fresh' = fresh
        /\ \/ step' = "MSTEP_WRITE_AFFINE" /\ Sends("self:update", "view.affine", new_affine)
           \/ /\ step = "MSTEP_WRITE_MOTION" /\ step' = "MSTEP_WRITE_VIEWEXTENTS"
              /\ Sends("self:update", "view.extents", view_extents)
    BY <1>5 DEF MStepWriteMotion, MStepWriteViewExtents
  <2> QED BY <1>p, <2>1 DEF GoesOn, data
<1>6. CASE MStepWriteAffine
  BY <1>6, FinishMoves DEF MStepWriteAffine
<1> QED BY <1>1, <1>2, <1>3, <1>4, <1>5, <1>6 DEF AdvanceMotionChain

\* A step of a button chain
LEMMA ButtonMoves ==
    ASSUME NEW m, m.type = "CALLRESULT", m.id = pending_call_id, chain = "BUTTON",
           AdvanceButtonChain(m.result)
    PROVE  Stays \/ Begins \/ GoesOn(m)
<1>p. PropertyOf["BSTEP_READ_FRONT"] = "views.front"
      /\ PropertyOf["BSTEP_WRITE_AFFINE"] = "view.affine"
      /\ PropertyOf["BSTEP_WRITE_EXTENTS"] = "view.extents"
  BY DEF PropertyOf, ButtonSteps
<1> USE RpcIsSent DEF RpcRead, RpcWrite, Proceed, Follows, Stores, MethodOf, ReadSteps, FirstSteps
<1>1. CASE BStepReadExtents(m.result)
  <2>1. CASE ~IsFloats(m.result, 6)
    BY <1>1, <2>1, FinishMoves DEF BStepReadExtents
  <2>2. CASE IsFloats(m.result, 6)
    <3>1. /\ step = "BSTEP_READ_EXTENTS" /\ step' = "BSTEP_READ_FRONT"
          /\ model_extents' = m.result.v /\ fresh' = fresh \cup {"model_extents"}
          /\ UNCHANGED <<chain, curr_affine, view_extents>>
          /\ Sends("self:read", "views.front", NoValue)
      BY <1>1, <2>2 DEF BStepReadExtents, JsonToFloats
    <3> QED BY <1>p, <3>1 DEF GoesOn
  <2> QED BY <2>1, <2>2
<1>2. CASE BStepReadFront(m.result)
  <2>1. /\ step = "BSTEP_READ_FRONT" /\ step' = "BSTEP_WRITE_AFFINE" /\ fresh' = fresh
        /\ UNCHANGED <<chain, model_extents, curr_affine, view_extents>>
        /\ Sends("self:update", "view.affine", [front |-> m.result])
    BY <1>2 DEF BStepReadFront, data
  <2> QED BY <1>p, <2>1 DEF GoesOn
<1>3. CASE BStepWriteAffine
  <2>1. /\ step = "BSTEP_WRITE_AFFINE" /\ step' = "BSTEP_WRITE_EXTENTS" /\ fresh' = fresh
        /\ UNCHANGED <<chain, model_extents, curr_affine, view_extents>>
        /\ Sends("self:update", "view.extents", [fit |-> model_extents])
    BY <1>3 DEF BStepWriteAffine, data
  <2> QED BY <1>p, <2>1 DEF GoesOn
<1>4. CASE BStepWriteExtents
  BY <1>4, FinishMoves DEF BStepWriteExtents
<1> QED BY <1>1, <1>2, <1>3, <1>4 DEF AdvanceButtonChain

\* A message: only an answer to the pending RPC moves the chain.
LEMMA MessageMoves == ASSUME NEW m, OnMessage(m) PROVE Stays \/ Begins \/ GoesOn(m)
<1>1. CASE OnCallResult(m)
  BY <1>1, MotionMoves, ButtonMoves DEF OnCallResult, Answers
<1>2. CASE OnCallError(m)
  BY <1>2, FinishMoves DEF OnCallError
<1>3. CASE OnPrefix(m) \/ OnSubscribe(m) \/ OnStrayAnswer(m) \/ OnMalformed(m)
  BY <1>3 DEF OnPrefix, OnSubscribe, OnStrayAnswer, OnMalformed, Silent, Stays, running, data
<1>4. CASE OnCall(m)
  BY <1>4 DEF OnCall, CreateMouse, CreateController, RefuseHandshake, UpdateFocus,
              UnknownProcedure, Silent, Reply, Stays, running, data
<1> QED BY <1>1, <1>2, <1>3, <1>4 DEF OnMessage

\* An event: it begins a chain, or waits, or is not wanted.
LEMMA EventMoves == ASSUME NEW ev, OnSpnavEvent(ev) PROVE Stays \/ Begins
<1>1. CASE IgnoreEvent \/ QueueEvent(ev)
  BY <1>1 DEF OnSpnavEvent, IgnoreEvent, QueueEvent, Silent, Stays, running, data
<1>2. CASE StartChain(ev)
  <2>1. StartMotionChain(ev.motion) \/ StartButtonChain
    BY <1>2 DEF StartChain
  <2> QED BY <2>1, RpcIsSent DEF StartMotionChain, StartButtonChain, RpcRead, Begins, FirstSteps
<1> QED BY <1>1, <1>2 DEF OnSpnavEvent

----------------------------------------------------------------------------
\* What is under way

IsRpc(m) == m.type = "CALL"
IsAnswer(m) == m.type \in {"CALLRESULT", "CALLERROR"}
FromClient == {m \in Messages : ~IsAnswer(m)}

ToClientTypes ==
    /\ to_client \in Seq(ToSet(to_client))
    /\ \A i \in DOMAIN to_client : IsRpc(to_client[i]) =>
         LET m == to_client[i] IN
         /\ m = TheRpc(m.id, m.method, m.property, m.value)
         /\ m.id \in CallIds
ChannelTypes ==
    /\ ToClientTypes
    /\ to_server \in Seq(Messages) /\ script \in Seq(FromClient)
    /\ applied \in 0..(Laps - 1) /\ now = 0

\* Of the RPCs under way to the client, all but the oldest are the first of
\* their chain, and only the newest can be the pending one.
PendingIsLast ==
    \A i, j \in DOMAIN to_client :
        i < j /\ IsRpc(to_client[i]) /\ IsRpc(to_client[j]) =>
            /\ to_client[i].id # pending_call_id
            /\ to_client[j].method = "self:read" /\ to_client[j].property = "model.extents"

\* Once the pending RPC is answered, no RPC is under way to the client.
AnsweredIsTaken ==
    \A i \in DOMAIN to_server :
        IsAnswer(to_server[i]) /\ to_server[i].id = pending_call_id =>
            \A j \in DOMAIN to_client : ~IsRpc(to_client[j])

\* A chain beyond its first step has nothing but its pending RPC under way.
OnlyPendingUnderWay ==
    chain # "NONE" /\ step \notin FirstSteps =>
        \A i \in DOMAIN to_client : IsRpc(to_client[i]) => to_client[i].id = pending_call_id

\* The pending RPC, and the answer to it, are those of the step; a camera read
\* has every camera write that the client has applied.
PendingFitsStep ==
    chain # "NONE" =>
        /\ \A i \in DOMAIN to_client :
             IsRpc(to_client[i]) /\ to_client[i].id = pending_call_id =>
               /\ to_client[i].property = PropertyOf[step]
               /\ to_client[i].method = MethodOf(step)
        /\ \A i \in DOMAIN to_server :
             to_server[i].type = "CALLRESULT" /\ to_server[i].id = pending_call_id =>
               /\ step \in ReadSteps => to_server[i].result.v.about = PropertyOf[step]
               /\ step = "MSTEP_READ_AFFINE" => to_server[i].result.v.applied = applied

\* A chain that has read its camera has the one the client has, until it writes;
\* and so has a camera under way to the client.
CameraFits ==
    /\ /\ chain = "MOTION"
       /\ step \in {"MSTEP_READ_VIEWEXTENTS", "MSTEP_WRITE_MOTION", "MSTEP_WRITE_VIEWEXTENTS"}
       => curr_affine.applied = applied
    /\ \A i \in DOMAIN to_client :
         IsRpc(to_client[i]) /\ WritesCamera(to_client[i])
           /\ "base" \in DOMAIN to_client[i].value =>
             /\ to_client[i].value.base \in Values
             /\ to_client[i].value.base.applied = applied

UnderWay ==
    /\ PendingIsLast /\ AnsweredIsTaken /\ OnlyPendingUnderWay
    /\ PendingFitsStep /\ CameraFits /\ AnswersReachTheirStep

SInv == IInv /\ ChannelTypes /\ UnderWay

\* A channel whose head is taken
LEMMA Popped ==
    ASSUME NEW S, NEW s \in Seq(S), s # <<>>
    PROVE  /\ Head(s) = s[1] /\ 1 \in DOMAIN s /\ Head(s) \in S
           /\ Tail(s) \in Seq(S)
           /\ \A i \in DOMAIN Tail(s) : i \in Nat /\ i + 1 \in DOMAIN s /\ Tail(s)[i] = s[i + 1]
<1>1. Len(s) \in Nat /\ Len(s) > 0 /\ DOMAIN s = 1..Len(s)
  OBVIOUS
<1>2. Len(Tail(s)) = Len(s) - 1 /\ DOMAIN Tail(s) = 1..(Len(s) - 1) /\ Tail(s) \in Seq(S)
  OBVIOUS
<1>3. \A i \in 1..(Len(s) - 1) : Tail(s)[i] = s[i + 1]
  OBVIOUS
<1> QED BY <1>1, <1>2, <1>3

\* A channel that takes a message
LEMMA Pushed ==
    ASSUME NEW S, NEW s \in Seq(S), NEW m
    PROVE  /\ Append(s, m) \in Seq(S \cup {m}) /\ s \o <<m>> = Append(s, m)
           /\ Len(s) + 1 \in DOMAIN Append(s, m) /\ Append(s, m)[Len(s) + 1] = m
           /\ DOMAIN s = 1..Len(s) /\ Len(s) \in Nat
           /\ \A i \in DOMAIN Append(s, m) :
                i = Len(s) + 1 \/ (i \in DOMAIN s /\ Append(s, m)[i] = s[i])
<1>1. Len(s) \in Nat /\ DOMAIN s = 1..Len(s)
  OBVIOUS
<1>2. s \in Seq(S \cup {m}) /\ m \in S \cup {m}
  OBVIOUS
<1>3. /\ Append(s, m) \in Seq(S \cup {m}) /\ DOMAIN Append(s, m) = 1..(Len(s) + 1)
      /\ Append(s, m)[Len(s) + 1] = m
      /\ \A i \in 1..Len(s) : Append(s, m)[i] = s[i]
  BY <1>2
<1>4. s \o <<m>> = Append(s, m)
  BY <1>2
<1> QED BY <1>1, <1>3, <1>4

\* A sequence is one over its own elements.
LEMMA OwnElements == ASSUME NEW S, NEW s \in Seq(S) PROVE s \in Seq(ToSet(s))
BY DEF ToSet

\* The id of a new RPC is none of those under way.
LEMMA NewIdIsNew ==
    ASSUME ChannelTypes, NewIdIsUnused, pending_call_id' # pending_call_id
    PROVE  /\ \A i \in DOMAIN to_client : IsRpc(to_client[i]) => to_client[i].id # pending_call_id'
           /\ \A i \in DOMAIN to_server : IsAnswer(to_server[i]) => to_server[i].id # pending_call_id'
<1>1. ASSUME NEW i \in DOMAIN to_client, IsRpc(to_client[i])
      PROVE  to_client[i].id # pending_call_id'
  <2>1. "id" \in DOMAIN to_client[i]
    BY <1>1 DEF ChannelTypes, ToClientTypes, TheRpc
  <2>2. to_client[i] \in Outstanding
    BY <2>1 DEF Outstanding, ToSet
  <2> QED BY <2>2 DEF NewIdIsUnused
<1>2. ASSUME NEW i \in DOMAIN to_server, IsAnswer(to_server[i])
      PROVE  to_server[i].id # pending_call_id'
  <2>1. to_server[i] \in Messages
    BY DEF ChannelTypes, ToClientTypes
  <2>2. "id" \in DOMAIN to_server[i]
    BY <1>2, <2>1 DEF Messages, IsAnswer
  <2>3. to_server[i] \in Outstanding
    BY <2>2 DEF Outstanding, ToSet
  <2> QED BY <2>3 DEF NewIdIsUnused
<1> QED BY <1>1, <1>2

\* What a call of the controller takes from the client and sends to it
FromServer ==
    /\ \A i \in DOMAIN to_server' : \E j \in DOMAIN to_server : to_server'[i] = to_server[j]
    /\ applied' = applied

\* The channel to the client, with at most a reply added
LEMMA RepliesOnly ==
    ASSUME ChannelTypes, to_client' = to_client \o sent',
           sent' = <<>> \/ \E type \in {"CALLRESULT", "CALLERROR"} : sent' = <<[type |-> type]>>
    PROVE  /\ to_client' \in Seq(ToSet(to_client)')
           /\ \A i \in DOMAIN to_client' :
                IsRpc(to_client'[i]) => i \in DOMAIN to_client /\ to_client'[i] = to_client[i]
<1>1. to_client \in Seq(ToSet(to_client))
  BY DEF ChannelTypes, ToClientTypes
<1>2. CASE sent' = <<>>
  <2>1. to_client' = to_client
    BY <1>1, <1>2
  <2> QED BY <1>1, <2>1
<1>3. ASSUME NEW type \in {"CALLRESULT", "CALLERROR"}, sent' = <<[type |-> type]>>
      PROVE  /\ to_client' \in Seq(ToSet(to_client)')
             /\ \A i \in DOMAIN to_client' :
                  IsRpc(to_client'[i]) => i \in DOMAIN to_client /\ to_client'[i] = to_client[i]
  <2> DEFINE reply == [type |-> type]
  <2>1. to_client' = Append(to_client, reply)
    BY <1>1, <1>3, Pushed
  <2>2. to_client' \in Seq(ToSet(to_client) \cup {reply})
    BY <1>1, <2>1, Pushed
  <2>3. to_client' \in Seq(ToSet(to_client'))
    BY <2>2, OwnElements
  <2>4. \A i \in DOMAIN to_client' :
          to_client'[i] = reply \/ (i \in DOMAIN to_client /\ to_client'[i] = to_client[i])
    BY <1>1, <2>1, Pushed
  <2>5. ~IsRpc(reply)
    BY DEF IsRpc
  <2> QED BY <2>3, <2>4, <2>5 DEF IsRpc, ToSet
<1> QED BY <1>2, <1>3

\* The channel to the client, with an RPC added
LEMMA RpcAdded ==
    ASSUME ChannelTypes, to_client' = to_client \o sent', NEW rpc, sent' = <<rpc>>
    PROVE  /\ to_client' \in Seq(ToSet(to_client)')
           /\ \E n \in DOMAIN to_client' :
                /\ to_client'[n] = rpc
                /\ \A i \in DOMAIN to_client' : i # n =>
                     i \in DOMAIN to_client /\ to_client'[i] = to_client[i] /\ i < n
<1>1. to_client \in Seq(ToSet(to_client))
  BY DEF ChannelTypes, ToClientTypes
<1>2. to_client' = Append(to_client, rpc)
  BY <1>1, Pushed
<1>3. to_client' \in Seq(ToSet(to_client) \cup {rpc})
  BY <1>1, <1>2, Pushed
<1>4. to_client' \in Seq(ToSet(to_client'))
  BY <1>3, OwnElements
<1> DEFINE n == Len(to_client) + 1
<1>5. n \in DOMAIN to_client' /\ to_client'[n] = rpc
  BY <1>1, <1>2, Pushed
<1>6. ASSUME NEW i \in DOMAIN to_client', i # n
      PROVE  i \in DOMAIN to_client /\ to_client'[i] = to_client[i] /\ i < n
  <2>1. i \in DOMAIN to_client /\ to_client'[i] = to_client[i]
    BY <1>1, <1>2, <1>6, Pushed
  <2>2. DOMAIN to_client = 1..Len(to_client) /\ Len(to_client) \in Nat
    BY <1>1, Pushed
  <2> QED BY <2>1, <2>2
<1> QED BY <1>4, <1>5, <1>6 DEF ToSet

\* A call that leaves the chain where it was, or ends it
LEMMA StaysKeeps ==
    ASSUME SInv, Stays, to_client' = to_client \o sent', FromServer
    PROVE  UnderWay'
<1>1. \A i \in DOMAIN to_client' :
        IsRpc(to_client'[i]) => i \in DOMAIN to_client /\ to_client'[i] = to_client[i]
  BY RepliesOnly DEF SInv, Stays
<1>2. /\ PendingIsLast /\ AnsweredIsTaken /\ OnlyPendingUnderWay
      /\ PendingFitsStep /\ CameraFits /\ AnswersReachTheirStep
  BY DEF SInv, UnderWay
<1>3. UNCHANGED <<pending_call_id, applied>>
  BY DEF Stays, FromServer
<1>4. PendingIsLast'
  BY <1>1, <1>2, <1>3 DEF PendingIsLast, IsRpc
<1>5. AnsweredIsTaken'
  BY <1>1, <1>2, <1>3 DEF AnsweredIsTaken, IsRpc, IsAnswer, FromServer
<1>6. chain' = "NONE"
        \/ UNCHANGED <<chain, step, fresh, model_extents, curr_affine, view_extents>>
  BY DEF Stays
<1>7. OnlyPendingUnderWay'
  BY <1>1, <1>2, <1>3, <1>6 DEF OnlyPendingUnderWay, IsRpc
<1>8. PendingFitsStep'
  BY <1>1, <1>2, <1>3, <1>6 DEF PendingFitsStep, IsRpc, FromServer, MethodOf
<1>9. CameraFits'
  BY <1>1, <1>2, <1>3, <1>6 DEF CameraFits, IsRpc, WritesCamera
<1>10. AnswersReachTheirStep'
  BY <1>2, <1>6 DEF AnswersReachTheirStep
<1> QED BY <1>4, <1>5, <1>7, <1>8, <1>9, <1>10 DEF UnderWay

\* A call that begins a chain: its RPC is the newest, with an id of its own.
LEMMA BeginsKeeps ==
    ASSUME SInv, Begins, to_client' = to_client \o sent', NewIdIsUnused, FromServer
    PROVE  UnderWay'
<1> DEFINE rpc == TheRpc(pending_call_id', "self:read", "model.extents", NoValue)
<1>1. sent' = <<rpc>> /\ pending_call_id' # pending_call_id
  BY DEF Begins, Sends
<1>2. PICK n \in DOMAIN to_client' :
        /\ to_client'[n] = rpc
        /\ \A i \in DOMAIN to_client' : i # n =>
             i \in DOMAIN to_client /\ to_client'[i] = to_client[i] /\ i < n
  BY <1>1, RpcAdded DEF SInv
<1>3. /\ rpc.type = "CALL" /\ rpc.id = pending_call_id' /\ rpc.method = "self:read"
      /\ rpc.property = "model.extents"
  BY DEF TheRpc
<1>4. /\ \A i \in DOMAIN to_client : IsRpc(to_client[i]) => to_client[i].id # pending_call_id'
      /\ \A i \in DOMAIN to_server : IsAnswer(to_server[i]) => to_server[i].id # pending_call_id'
  BY <1>1, NewIdIsNew DEF SInv
<1> HIDE DEF rpc
<1>5. \A i \in DOMAIN to_server' : IsAnswer(to_server'[i]) => to_server'[i].id # pending_call_id'
  BY <1>4 DEF FromServer, IsAnswer
<1>6. chain' # "NONE" /\ step' \in FirstSteps /\ fresh' = {} /\ applied' = applied
  BY DEF Begins, FromServer
<1>7. PendingIsLast'
  <2> SUFFICES ASSUME NEW i \in DOMAIN to_client', NEW j \in DOMAIN to_client', i < j,
                      IsRpc(to_client'[i]), IsRpc(to_client'[j])
               PROVE  /\ to_client'[i].id # pending_call_id'
                      /\ to_client'[j].method = "self:read"
                      /\ to_client'[j].property = "model.extents"
    BY DEF PendingIsLast, IsRpc
  <2>0. DOMAIN to_client' \subseteq Int
    <3>1. to_client' \in Seq(ToSet(to_client)')
      BY <1>1, RpcAdded DEF SInv
    <3> QED BY <3>1
  <2>1. i # n
    BY <1>2, <2>0
  <2>2. i \in DOMAIN to_client /\ to_client'[i] = to_client[i]
    BY <1>2, <2>1
  <2>3. CASE j = n
    BY <1>2, <1>3, <1>4, <2>2, <2>3
  <2>4. CASE j # n
    BY <1>2, <1>4, <2>2, <2>4 DEF SInv, UnderWay, PendingIsLast
  <2> QED BY <2>3, <2>4
<1>8. AnsweredIsTaken'
  BY <1>5 DEF AnsweredIsTaken, IsAnswer
<1>9. OnlyPendingUnderWay' /\ AnswersReachTheirStep'
  BY <1>6 DEF OnlyPendingUnderWay, AnswersReachTheirStep
<1>10. PendingFitsStep'
  <2>1. PropertyOf[step'] = "model.extents" /\ MethodOf(step') = "self:read"
    BY <1>6 DEF PropertyOf, MethodOf, FirstSteps, ReadSteps, MotionSteps, ButtonSteps
  <2>2. ASSUME NEW i \in DOMAIN to_client', IsRpc(to_client'[i]),
               to_client'[i].id = pending_call_id'
        PROVE  to_client'[i] = rpc
    BY <1>2, <1>4, <2>2
  <2>3. ~\E i \in DOMAIN to_server' :
          to_server'[i].type = "CALLRESULT" /\ to_server'[i].id = pending_call_id'
    BY <1>5 DEF IsAnswer
  <2> QED BY <1>3, <2>1, <2>2, <2>3 DEF PendingFitsStep, IsRpc, MethodOf
<1>11. CameraFits'
  <2>1. step' \notin {"MSTEP_READ_VIEWEXTENTS", "MSTEP_WRITE_MOTION", "MSTEP_WRITE_VIEWEXTENTS"}
    BY <1>6 DEF FirstSteps
  <2>2. ASSUME NEW i \in DOMAIN to_client', IsRpc(to_client'[i]), WritesCamera(to_client'[i])
        PROVE  i \in DOMAIN to_client /\ to_client'[i] = to_client[i]
    BY <1>2, <1>3, <2>2 DEF WritesCamera
  <2> QED BY <1>6, <2>1, <2>2 DEF SInv, UnderWay, CameraFits, IsRpc, WritesCamera
<1> QED BY <1>7, <1>8, <1>9, <1>10, <1>11 DEF UnderWay

\* A call that goes on with a chain: the answer it takes was to the step the
\* chain is at, and nothing is under way to the client but the RPC it sends.
LEMMA GoesOnKeeps ==
    ASSUME SInv, IInv', to_server # <<>>, GoesOn(Head(to_server)),
           to_client' = to_client \o sent', NewIdIsUnused, FromServer
    PROVE  UnderWay'
<1> DEFINE m == Head(to_server)
<1>m. 1 \in DOMAIN to_server /\ m = to_server[1] /\ m.type = "CALLRESULT" /\ m.id = pending_call_id
  BY Popped DEF SInv, ChannelTypes, ToClientTypes, GoesOn
<1>1. PICK value :
        /\ Sends(MethodOf(step'), PropertyOf[step'], value)
        /\ step' = "MSTEP_WRITE_AFFINE" => value = new_affine /\ UNCHANGED data
        /\ step' = "BSTEP_WRITE_AFFINE" => \E result : value = [front |-> result]
  BY DEF GoesOn
<1> DEFINE rpc == TheRpc(pending_call_id', MethodOf(step'), PropertyOf[step'], value)
<1>2. sent' = <<rpc>> /\ pending_call_id' # pending_call_id
  BY <1>1 DEF Sends
<1>3. PICK n \in DOMAIN to_client' :
        /\ to_client'[n] = rpc
        /\ \A i \in DOMAIN to_client' : i # n =>
             i \in DOMAIN to_client /\ to_client'[i] = to_client[i] /\ i < n
  BY <1>2, RpcAdded DEF SInv
<1>4. /\ rpc.type = "CALL" /\ rpc.id = pending_call_id' /\ rpc.method = MethodOf(step')
      /\ rpc.property = PropertyOf[step'] /\ rpc.value = value
  BY DEF TheRpc
<1>5. \A i \in DOMAIN to_client : ~IsRpc(to_client[i])
  BY <1>m DEF SInv, UnderWay, AnsweredIsTaken, IsAnswer
<1>6. \A i \in DOMAIN to_server : IsAnswer(to_server[i]) => to_server[i].id # pending_call_id'
  BY <1>2, NewIdIsNew DEF SInv
<1> HIDE DEF rpc
<1>7. \A i \in DOMAIN to_client' : IsRpc(to_client'[i]) => i = n
  BY <1>3, <1>5
<1>8. \A i \in DOMAIN to_server' : IsAnswer(to_server'[i]) => to_server'[i].id # pending_call_id'
  BY <1>6 DEF FromServer, IsAnswer
<1>9. /\ chain' = chain /\ chain # "NONE" /\ <<step, step'>> \in Follows /\ Stores(m)
      /\ applied' = applied
  BY DEF GoesOn, FromServer
<1>10. /\ step \in ReadSteps => m.result.v.about = PropertyOf[step]
       /\ step = "MSTEP_READ_AFFINE" => m.result.v.applied = applied
  BY <1>m, <1>9 DEF SInv, UnderWay, PendingFitsStep
<1>11. PendingIsLast'
  <2>1. DOMAIN to_client' \subseteq Int
    <3>1. to_client' \in Seq(ToSet(to_client)')
      BY <1>2, RpcAdded DEF SInv
    <3> QED BY <3>1
  <2> QED BY <1>7, <2>1 DEF PendingIsLast, IsRpc
<1>12. AnsweredIsTaken'
  BY <1>8 DEF AnsweredIsTaken, IsAnswer
<1>13. OnlyPendingUnderWay'
  BY <1>3, <1>4, <1>7 DEF OnlyPendingUnderWay, IsRpc
<1>14. PendingFitsStep'
  <2>1. ~\E i \in DOMAIN to_server' :
          to_server'[i].type = "CALLRESULT" /\ to_server'[i].id = pending_call_id'
    BY <1>8 DEF IsAnswer
  <2> QED BY <1>3, <1>4, <1>7, <2>1 DEF PendingFitsStep, IsRpc, MethodOf
<1>15. CameraFits'
  <2>1. chain \in {"MOTION", "BUTTON"} /\ (chain = "BUTTON" => step \in ButtonSteps)
    BY <1>9 DEF SInv, IInv, TypeOK, ChainTypeOK, ChainStepMatch
  <2>2. chain' = "MOTION" /\ step' \in {"MSTEP_READ_VIEWEXTENTS", "MSTEP_WRITE_MOTION",
                                       "MSTEP_WRITE_VIEWEXTENTS"}
          => curr_affine'.applied = applied'
    <3> SUFFICES ASSUME chain' = "MOTION",
                        step' \in {"MSTEP_READ_VIEWEXTENTS", "MSTEP_WRITE_MOTION",
                                  "MSTEP_WRITE_VIEWEXTENTS"}
                 PROVE  curr_affine'.applied = applied
      BY <1>9
    <3>1. step = "MSTEP_READ_AFFINE"
            \/ step \in {"MSTEP_READ_VIEWEXTENTS", "MSTEP_WRITE_MOTION"}
      BY <1>9 DEF Follows
    <3>2. CASE step = "MSTEP_READ_AFFINE"
      <4>1. curr_affine' = m.result.v
        BY <1>9, <3>2 DEF Stores, FirstSteps
      <4> QED BY <1>10, <3>2, <4>1
    <3>3. CASE step \in {"MSTEP_READ_VIEWEXTENTS", "MSTEP_WRITE_MOTION"}
      <4>1. curr_affine' = curr_affine
        BY <1>9, <3>3 DEF Stores, FirstSteps
      <4> QED BY <1>9, <3>3, <4>1 DEF SInv, UnderWay, CameraFits
    <3> QED BY <3>1, <3>2, <3>3
  <2>3. ASSUME WritesCamera(rpc), "base" \in DOMAIN rpc.value
        PROVE  rpc.value.base \in Values /\ rpc.value.base.applied = applied
    <3>1. step' = "MSTEP_WRITE_AFFINE" \/ step' = "BSTEP_WRITE_AFFINE"
      BY <1>4, <1>9, <2>3 DEF WritesCamera, MethodOf, PropertyOf, Follows, ReadSteps, FirstSteps,
                              MotionSteps, ButtonSteps
    <3>2. CASE step' = "BSTEP_WRITE_AFFINE"
      <4>1. PICK result : value = [front |-> result]
        BY <1>1, <3>2
      <4> QED BY <1>4, <2>3, <4>1
    <3>3. CASE step' = "MSTEP_WRITE_AFFINE"
      <4>1. step \in {"MSTEP_WRITE_MOTION", "MSTEP_WRITE_VIEWEXTENTS"} /\ value = new_affine
        BY <1>1, <1>9, <3>3 DEF Follows
      <4>2. chain = "MOTION"
        BY <2>1, <4>1 DEF ButtonSteps
      <4>3. value.base = curr_affine /\ curr_affine \in Values
        BY <4>1, <4>2 DEF SInv, IInv, FreshData, WriteSteps
      <4>4. curr_affine.applied = applied
        BY <4>1, <4>2 DEF SInv, UnderWay, CameraFits
      <4> QED BY <1>4, <4>3, <4>4
    <3> QED BY <3>1, <3>2, <3>3
  <2> QED BY <1>3, <1>7, <1>9, <2>2, <2>3 DEF CameraFits, IsRpc, WritesCamera
<1>16. AnswersReachTheirStep'
  <2>1. /\ PropertyOf["MSTEP_READ_EXTENTS"] = "model.extents"
        /\ PropertyOf["BSTEP_READ_EXTENTS"] = "model.extents"
        /\ PropertyOf["MSTEP_READ_AFFINE"] = "view.affine"
        /\ PropertyOf["MSTEP_READ_VIEWEXTENTS"] = "view.extents"
    BY DEF PropertyOf, MotionSteps, ButtonSteps
  <2>2. /\ "model_extents" \in fresh => model_extents.about = "model.extents"
        /\ "curr_affine" \in fresh => curr_affine.about = "view.affine"
        /\ "view_extents" \in fresh => view_extents.base.about = "view.extents"
    BY <1>9 DEF SInv, UnderWay, AnswersReachTheirStep
  <2>3. CASE step \in FirstSteps
    <3>1. /\ model_extents' = m.result.v /\ fresh' = fresh \cup {"model_extents"}
          /\ UNCHANGED <<curr_affine, view_extents>>
      BY <1>9, <2>3 DEF Stores, FirstSteps
    <3> QED BY <1>10, <2>1, <2>2, <2>3, <3>1 DEF AnswersReachTheirStep, FirstSteps, ReadSteps
  <2>4. CASE step = "MSTEP_READ_AFFINE"
    <3>1. /\ curr_affine' = m.result.v /\ fresh' = fresh \cup {"curr_affine"}
          /\ UNCHANGED <<model_extents, view_extents>>
      BY <1>9, <2>4 DEF Stores, FirstSteps
    <3> QED BY <1>10, <2>1, <2>2, <2>4, <3>1 DEF AnswersReachTheirStep, ReadSteps
  <2>5. CASE step = "MSTEP_READ_VIEWEXTENTS"
    <3>1. /\ view_extents'.base = m.result.v /\ fresh' = fresh \cup {"view_extents"}
          /\ UNCHANGED <<model_extents, curr_affine>>
      BY <1>9, <2>5 DEF Stores, FirstSteps
    <3> QED BY <1>10, <2>1, <2>2, <2>5, <3>1 DEF AnswersReachTheirStep, ReadSteps
  <2>6. CASE step \notin FirstSteps \cup {"MSTEP_READ_AFFINE", "MSTEP_READ_VIEWEXTENTS"}
    <3>1. /\ fresh' \in {fresh, fresh \cup {"perspective"}}
          /\ UNCHANGED <<model_extents, curr_affine, view_extents>>
      BY <1>9, <2>6 DEF Stores
    <3> QED BY <2>2, <3>1 DEF AnswersReachTheirStep
  <2> QED BY <2>3, <2>4, <2>5, <2>6
<1> QED BY <1>11, <1>12, <1>13, <1>14, <1>15, <1>16 DEF UnderWay

----------------------------------------------------------------------------
\* The client's side

\* What the client puts under way: nothing, a message that is no answer, or an
\* answer to the RPC it takes, with the property asked for and what it applied.
AnswersHead(a) ==
    /\ IsRpc(Head(to_client)) /\ a.id = Head(to_client).id
    /\ a.type = "CALLRESULT" => a.result \in ResultsOf(Head(to_client))
FromTheClient ==
    /\ \A i \in DOMAIN to_server' :
         \/ \E j \in DOMAIN to_server : to_server'[i] = to_server[j]
         \/ ~IsAnswer(to_server'[i])
         \/ AnswersHead(to_server'[i])
    /\ applied' = applied \/ (IsRpc(Head(to_client)) /\ WritesCamera(Head(to_client)))

\* When the client takes a message, the others move up.  If that was the pending
\* RPC, it was the last; if it was a camera write, no other is under way.
LEMMA TakenKeeps ==
    ASSUME SInv, to_client # <<>>, to_client' = Tail(to_client), FromTheClient,
           UNCHANGED <<running, data>>
    PROVE  UnderWay'
<1> DEFINE h == Head(to_client)
<1>1. /\ h = to_client[1] /\ 1 \in DOMAIN to_client
      /\ \A i \in DOMAIN to_client' :
           i \in Nat /\ i + 1 \in DOMAIN to_client /\ to_client'[i] = to_client[i + 1]
  BY Popped DEF SInv, ChannelTypes, ToClientTypes
<1>2. UNCHANGED <<chain, step, pending_call_id, fresh, model_extents, curr_affine, view_extents>>
  BY DEF running, data
<1>3. /\ PendingIsLast /\ AnsweredIsTaken /\ OnlyPendingUnderWay
      /\ PendingFitsStep /\ CameraFits /\ AnswersReachTheirStep
  BY DEF SInv, UnderWay
<1>4. \A i \in DOMAIN to_client' : i \in Nat /\ 1 < i + 1
  BY <1>1
<1>5. IsRpc(h) => \A i \in DOMAIN to_client' : IsRpc(to_client'[i]) =>
        /\ h.id # pending_call_id
        /\ to_client'[i].method = "self:read"
  BY <1>1, <1>3, <1>4 DEF PendingIsLast
<1> HIDE DEF h
<1>6. PendingIsLast'
  <2> SUFFICES ASSUME NEW i \in DOMAIN to_client', NEW j \in DOMAIN to_client', i < j,
                      IsRpc(to_client'[i]), IsRpc(to_client'[j])
               PROVE  /\ to_client'[i].id # pending_call_id
                      /\ to_client'[j].method = "self:read"
                      /\ to_client'[j].property = "model.extents"
    BY <1>2 DEF PendingIsLast, IsRpc
  <2>1. i + 1 < j + 1
    BY <1>1
  <2> QED BY <1>1, <1>3, <2>1 DEF PendingIsLast
<1>7. AnsweredIsTaken'
  <2> SUFFICES ASSUME NEW i \in DOMAIN to_server', IsAnswer(to_server'[i]),
                      to_server'[i].id = pending_call_id,
                      NEW k \in DOMAIN to_client', IsRpc(to_client'[k])
               PROVE  FALSE
    BY <1>2 DEF AnsweredIsTaken, IsAnswer, IsRpc
  <2>1. CASE \E j \in DOMAIN to_server : to_server'[i] = to_server[j]
    BY <1>1, <1>3, <2>1 DEF AnsweredIsTaken
  <2>2. CASE AnswersHead(to_server'[i])
    BY <1>5, <2>2 DEF AnswersHead, h
  <2> QED BY <2>1, <2>2 DEF FromTheClient
<1>8. OnlyPendingUnderWay'
  BY <1>1, <1>2, <1>3 DEF OnlyPendingUnderWay, IsRpc
<1>9. PendingFitsStep'
  <2> SUFFICES ASSUME chain # "NONE" PROVE PendingFitsStep'
    BY <1>2 DEF PendingFitsStep
  <2>1. ASSUME NEW i \in DOMAIN to_client', IsRpc(to_client'[i]),
               to_client'[i].id = pending_call_id
        PROVE  to_client'[i].property = PropertyOf[step] /\ to_client'[i].method = MethodOf(step)
    BY <1>1, <1>3, <2>1 DEF PendingFitsStep
  <2>2. ASSUME NEW i \in DOMAIN to_server', to_server'[i].type = "CALLRESULT",
               to_server'[i].id = pending_call_id
        PROVE  /\ step \in ReadSteps => to_server'[i].result.v.about = PropertyOf[step]
               /\ step = "MSTEP_READ_AFFINE" => to_server'[i].result.v.applied = applied'
    <3>1. CASE \E j \in DOMAIN to_server : to_server'[i] = to_server[j]
      <4>1. PICK j \in DOMAIN to_server : to_server'[i] = to_server[j]
        BY <3>1
      <4>2. \A k \in DOMAIN to_client : ~IsRpc(to_client[k])
        BY <1>3, <2>2, <4>1 DEF AnsweredIsTaken, IsAnswer
      <4>3. applied' = applied
        BY <1>1, <4>2 DEF FromTheClient, h
      <4> QED BY <1>3, <2>2, <4>1, <4>3 DEF PendingFitsStep
    <3>2. CASE AnswersHead(to_server'[i])
      <4>1. IsRpc(h) /\ h.id = pending_call_id /\ to_server'[i].result \in ResultsOf(h)
        BY <2>2, <3>2 DEF AnswersHead, h
      <4>2. h.property = PropertyOf[step] /\ h.method = MethodOf(step)
        BY <1>1, <1>3, <4>1 DEF PendingFitsStep
      <4>3. /\ to_server'[i].result.v.about
                 = IF h.property \in Reads THEN h.property ELSE "model.extents"
            /\ to_server'[i].result.v.applied = applied
        BY <4>1 DEF ResultsOf
      <4>4. step \in ReadSteps => PropertyOf[step] \in Reads /\ h.method = "self:read"
        BY <4>2 DEF ReadSteps, FirstSteps, PropertyOf, MotionSteps, ButtonSteps, Reads, MethodOf
      <4>5. step \in ReadSteps => applied' = applied
        BY <4>4 DEF FromTheClient, WritesCamera, h
      <4> QED BY <4>2, <4>3, <4>4, <4>5 DEF ReadSteps
    <3> QED BY <2>2, <3>1, <3>2 DEF FromTheClient, IsAnswer
  <2> QED BY <1>2, <2>1, <2>2 DEF PendingFitsStep, IsRpc, MethodOf
<1>10. CameraFits'
  <2>1. ASSUME chain = "MOTION", step \in {"MSTEP_READ_VIEWEXTENTS", "MSTEP_WRITE_MOTION",
                                          "MSTEP_WRITE_VIEWEXTENTS"}
        PROVE  curr_affine.applied = applied'
    <3>1. IsRpc(h) => h.id = pending_call_id
      BY <1>1, <1>3, <2>1 DEF OnlyPendingUnderWay, FirstSteps
    <3>2. IsRpc(h) => h.property = PropertyOf[step] /\ h.method = MethodOf(step)
      BY <1>1, <1>3, <2>1, <3>1 DEF PendingFitsStep
    <3>3. ~(IsRpc(h) /\ WritesCamera(h))
      BY <2>1, <3>2 DEF WritesCamera, PropertyOf, MethodOf, MotionSteps, ButtonSteps
    <3> QED BY <1>3, <2>1, <3>3 DEF CameraFits, FromTheClient, h
  <2>2. ASSUME NEW i \in DOMAIN to_client', IsRpc(to_client'[i]), WritesCamera(to_client'[i]),
               "base" \in DOMAIN to_client'[i].value
        PROVE  /\ to_client'[i].value.base \in Values
               /\ to_client'[i].value.base.applied = applied'
    <3>1. ~IsRpc(h)
      BY <1>5, <2>2 DEF WritesCamera
    <3>2. applied' = applied
      BY <3>1 DEF FromTheClient, h
    <3> QED BY <1>1, <1>3, <2>2, <3>2 DEF CameraFits
  <2> QED BY <1>2, <2>1, <2>2 DEF CameraFits, IsRpc, WritesCamera
<1>11. AnswersReachTheirStep'
  BY <1>2, <1>3 DEF AnswersReachTheirStep
<1> QED BY <1>6, <1>7, <1>8, <1>9, <1>10, <1>11 DEF UnderWay

\* A step that touches neither the channel to the client nor the chain.
LEMMA UndisturbedKeeps ==
    ASSUME SInv, UNCHANGED <<to_client, applied, chain, step, pending_call_id, fresh, data>>,
           \A i \in DOMAIN to_server' :
             (\E j \in DOMAIN to_server : to_server'[i] = to_server[j]) \/ ~IsAnswer(to_server'[i])
    PROVE  UnderWay'
<1>1. /\ PendingIsLast /\ AnsweredIsTaken /\ OnlyPendingUnderWay
      /\ PendingFitsStep /\ CameraFits /\ AnswersReachTheirStep
  BY DEF SInv, UnderWay
<1>2. UNCHANGED <<curr_affine, model_extents, view_extents>>
  BY DEF data
<1>3. PendingIsLast' /\ OnlyPendingUnderWay'
  BY <1>1 DEF PendingIsLast, OnlyPendingUnderWay, IsRpc
<1>4. AnsweredIsTaken'
  BY <1>1 DEF AnsweredIsTaken, IsRpc, IsAnswer
<1>5. PendingFitsStep'
  BY <1>1 DEF PendingFitsStep, IsRpc, IsAnswer, MethodOf
<1>6. CameraFits' /\ AnswersReachTheirStep'
  BY <1>1, <1>2 DEF CameraFits, AnswersReachTheirStep, IsRpc, WritesCamera
<1> QED BY <1>3, <1>4, <1>5, <1>6 DEF UnderWay

----------------------------------------------------------------------------
\* The types of the channels

\* The controller adds a reply or one well-formed RPC, or nothing.
LEMMA SentTypes ==
    ASSUME ChannelTypes, to_client' = to_client \o sent',
           \/ Stays
           \/ \E method, property, value : Sends(method, property, value)
    PROVE  ToClientTypes'
<1>1. CASE Stays
  <2>1. /\ to_client' \in Seq(ToSet(to_client)')
        /\ \A i \in DOMAIN to_client' :
             IsRpc(to_client'[i]) => i \in DOMAIN to_client /\ to_client'[i] = to_client[i]
    BY <1>1, RepliesOnly DEF Stays
  <2> QED BY <2>1 DEF ChannelTypes, ToClientTypes, IsRpc, TheRpc
<1>2. ASSUME NEW method, NEW property, NEW value, Sends(method, property, value)
      PROVE  ToClientTypes'
  <2> DEFINE rpc == TheRpc(pending_call_id', method, property, value)
  <2>1. sent' = <<rpc>> /\ rpc.id = pending_call_id' /\ pending_call_id' \in CallIds
        /\ rpc = TheRpc(rpc.id, rpc.method, rpc.property, rpc.value)
    BY <1>2 DEF Sends, TheRpc
  <2> HIDE DEF rpc
  <2>2. /\ to_client' \in Seq(ToSet(to_client)')
        /\ \A i \in DOMAIN to_client' :
             to_client'[i] = rpc \/ (i \in DOMAIN to_client /\ to_client'[i] = to_client[i])
    BY <2>1, RpcAdded
  <2> QED BY <2>1, <2>2 DEF ChannelTypes, ToClientTypes, IsRpc, TheRpc
<1> QED BY <1>1, <1>2

\* The client takes the oldest message.
LEMMA TakenTypes ==
    ASSUME ChannelTypes, to_client # <<>>, to_client' = Tail(to_client)
    PROVE  ToClientTypes'
<1>1. /\ to_client' \in Seq(ToSet(to_client))
      /\ \A i \in DOMAIN to_client' : i + 1 \in DOMAIN to_client /\ to_client'[i] = to_client[i + 1]
  BY Popped DEF ChannelTypes, ToClientTypes
<1>2. to_client' \in Seq(ToSet(to_client'))
  BY <1>1, OwnElements
<1>3. to_client' \in Seq(ToSet(to_client)')
  BY <1>2 DEF ToSet
<1> QED BY <1>1, <1>3 DEF ChannelTypes, ToClientTypes, IsRpc, TheRpc

\* The handshake and the focus updates are messages, and no answers.
LEMMA HandshakeTypes ==
    /\ Handshake \in Seq(FromClient)
    /\ \A arg \in {"focus true", "focus false"} : FocusUpdate(arg) \in FromClient
<1>1. CREATE \in Names /\ NoName("controller0") \in Names /\ NoName("update") \in Names
  BY SessionAssumption DEF NoName, Names
<1>2. /\ [type |-> "CALL", proc |-> CREATE, arg |-> "3dmouse"] \in FromClient
      /\ [type |-> "CALL", proc |-> CREATE, arg |-> "known client"] \in FromClient
      /\ [type |-> "SUBSCRIBE", topic |-> NoName("controller0")] \in FromClient
  BY <1>1 DEF FromClient, Messages, CallArgs, IsAnswer
<1>3. \A arg \in {"focus true", "focus false"} : FocusUpdate(arg) \in FromClient
  BY <1>1 DEF FocusUpdate, FromClient, Messages, CallArgs, IsAnswer
<1>4. ASSUME NEW a \in FromClient, NEW b \in FromClient, NEW c \in FromClient
      PROVE  <<a, b, c>> \in Seq(FromClient)
  OBVIOUS
<1>5. Handshake \in Seq(FromClient)
  BY <1>2, <1>4 DEF Handshake
<1> QED BY <1>3, <1>5

\* An answer of the client's is one the controller can tell apart, and the
\* count of applied writes stays within its bound.
LEMMA AnswerTypes ==
    ASSUME ChannelTypes, to_client # <<>>, Head(to_client).type = "CALL"
    PROVE  /\ [type |-> "CALLERROR", id |-> Head(to_client).id] \in Messages
           /\ \A result \in ResultsOf(Head(to_client)) :
                [type |-> "CALLRESULT", id |-> Head(to_client).id, result |-> result] \in Messages
           /\ (applied + 1) % Laps \in 0..(Laps - 1)
<1>1. Head(to_client).id \in CallIds
  BY Popped DEF ChannelTypes, ToClientTypes, IsRpc
<1>2. ASSUME NEW result \in ResultsOf(Head(to_client)) PROVE result \in Results
  <2> DEFINE rpc == Head(to_client)
             v == [about |-> IF rpc.property \in Reads THEN rpc.property ELSE "model.extents",
                   applied |-> applied]
  <2>1. v \in Values
    BY SessionAssumption DEF ChannelTypes, Reads
  <2> HIDE DEF v
  <2> DEFINE kinds == CASE rpc.method = "self:update" -> {"other"}
                        [] rpc.property = "view.perspective" -> {"true", "other"}
                        [] rpc.property \in {"view.affine", "views.front"} -> {"sixteen"}
                        [] OTHER -> {"six"}
  <2>2. kinds \subseteq {"sixteen", "six", "true", "other"}
    OBVIOUS
  <2>3. result \in [kind : kinds, v : {v}]
    BY <1>2 DEF ResultsOf, v
  <2> HIDE DEF kinds
  <2> QED BY <2>1, <2>2, <2>3 DEF Results
<1>3. applied \in Nat /\ Laps \in Nat /\ Laps > 0
  BY SessionAssumption DEF ChannelTypes
<1>4. (applied + 1) % Laps \in 0..(Laps - 1)
  BY <1>3
<1> QED BY <1>1, <1>2, <1>4 DEF Messages

----------------------------------------------------------------------------
\* The steps

\* A message from the client is handled.
LEMMA DeliverKeeps == ASSUME SInv, Deliver PROVE SInv'
<1> DEFINE m == Head(to_server)
<1>1. to_server \in Seq(Messages) /\ to_server # <<>> /\ to_server' = Tail(to_server)
  BY DEF SInv, ChannelTypes, Deliver
<1>2. /\ m \in Messages /\ to_server' \in Seq(Messages)
      /\ \A i \in DOMAIN to_server' : \E j \in DOMAIN to_server : to_server'[i] = to_server[j]
  <2>1. \A i \in DOMAIN Tail(to_server) :
          i + 1 \in DOMAIN to_server /\ Tail(to_server)[i] = to_server[i + 1]
    BY <1>1, Popped
  <2>2. m \in Messages /\ Tail(to_server) \in Seq(Messages)
    BY <1>1, Popped
  <2> QED BY <1>1, <2>1, <2>2
<1>3. /\ OnMessage(m) /\ to_client' = to_client \o sent' /\ NewIdIsUnused
      /\ UNCHANGED <<script, applied, now>>
  BY DEF Deliver, Emit, OnMessage
<1>4. FromServer
  BY <1>2, <1>3 DEF FromServer
<1> HIDE DEF m
<1>5. IInv'
  BY <1>2, <1>3, MessageKeeps DEF SInv
<1>6. Stays \/ Begins \/ GoesOn(m)
  BY <1>3, MessageMoves
<1>7. ChannelTypes'
  <2>1. Stays \/ \E method, property, value : Sends(method, property, value)
    BY <1>6 DEF Begins, GoesOn
  <2>2. ToClientTypes'
    BY <1>3, <2>1, SentTypes DEF SInv
  <2> QED BY <1>2, <1>3, <2>2 DEF SInv, ChannelTypes
<1>8. UnderWay'
  BY <1>1, <1>3, <1>4, <1>5, <1>6, StaysKeeps, BeginsKeeps, GoesOnKeeps DEF m
<1> QED BY <1>5, <1>7, <1>8 DEF SInv

\* An event of the mouse arrives.
LEMMA MouseEventKeeps == ASSUME SInv, NEW ev \in Events, MouseEvent(ev) PROVE SInv'
<1>1. /\ OnSpnavEvent(ev) /\ to_client' = to_client \o sent' /\ NewIdIsUnused
      /\ UNCHANGED <<to_server, script, applied, now>>
  BY DEF MouseEvent, Emit, OnSpnavEvent
<1>2. IInv'
  BY <1>1, EventKeeps DEF SInv
<1>3. Stays \/ Begins
  BY <1>1, EventMoves
<1>4. ChannelTypes'
  <2>1. Stays \/ \E method, property, value : Sends(method, property, value)
    BY <1>3 DEF Begins
  <2>2. ToClientTypes'
    BY <1>1, <2>1, SentTypes DEF SInv
  <2> QED BY <1>1, <2>2 DEF SInv, ChannelTypes
<1>5. FromServer
  BY <1>1 DEF FromServer
<1>6. UnderWay'
  BY <1>1, <1>3, <1>5, StaysKeeps, BeginsKeeps
<1> QED BY <1>2, <1>4, <1>6 DEF SInv

\* The sensitivity changes, or time passes: nothing is sent.
LEMMA SilenceKeeps == ASSUME SInv, ChangeSensitivity \/ Elapse PROVE SInv'
<1>1. /\ UNCHANGED <<to_client, to_server, script, applied, now>>
      /\ UNCHANGED <<chain, step, pending_call_id, fresh, data>>
  BY DEF ChangeSensitivity, SetSensitivity, Elapse, running
<1>2. ChannelTypes' /\ UnderWay'
  BY <1>1, UndisturbedKeeps DEF SInv, ChannelTypes, ToClientTypes, IsRpc, TheRpc
<1>3. CASE ChangeSensitivity
  <2>1. PICK gain \in Gains : SetSensitivity(gain)
    BY <1>3 DEF ChangeSensitivity
  <2>2. IInv'
    BY <2>1, NextKeeps DEF SInv, Next
  <2> QED BY <1>2, <2>2 DEF SInv
<1>4. CASE Elapse
  <2>1. /\ Silent /\ chain # "NONE" /\ chain_started' = chain_started - 1
        /\ now - chain_started < CHAIN_TIMEOUT
        /\ UNCHANGED <<client, sensitivity, waiting, data, now, chain, step, pending_call_id,
                       active_ev, fresh>>
    BY <1>4 DEF Elapse
  <2>2. IInv
    BY DEF SInv
  <2>3. chain_started' \in Times
    <3>1. chain_started \in (-CHAIN_TIMEOUT)..0 /\ CHAIN_TIMEOUT \in Nat
      BY <2>2, SessionAssumption, TimeAssumption DEF IInv, TypeOK, ChainTypeOK
    <3>2. now = 0
      BY DEF SInv, ChannelTypes
    <3> QED BY <2>1, <3>1, <3>2, SessionAssumption
  <2>4. ChainTypeOK' /\ DataTypeOK' /\ ClientTypeOK'
    <3>1. ChainTypeOK /\ DataTypeOK /\ ClientTypeOK
      BY <2>2 DEF IInv, TypeOK
    <3>2. DOMAIN sent' = {}
      BY <2>1 DEF Silent
    <3>3. ChainTypeOK'
      BY <2>1, <2>3, <3>1, <3>2 DEF ChainTypeOK, waiting
    <3>4. DataTypeOK' /\ ClientTypeOK'
      BY <2>1, <3>1 DEF DataTypeOK, ClientTypeOK, data, client
    <3> QED BY <3>3, <3>4
  <2>5. sensitivity' \in Gains /\ now' \in Times
    BY <2>1, <2>2 DEF IInv, TypeOK
  <2>6. ChainStepMatch' /\ NoOrphanedWork' /\ OnlyKnownClients' /\ FreshData'
    BY <2>1, <2>2 DEF IInv, ChainStepMatch, NoOrphanedWork, OnlyKnownClients, FreshData,
                      client, waiting, data
  <2>7. WritesAreFresh'
    BY <2>1 DEF Silent, WritesAreFresh
  <2>8. IInv'
    BY <2>4, <2>5, <2>6, <2>7 DEF IInv, TypeOK
  <2> QED BY <1>2, <2>8 DEF SInv
<1> QED BY <1>3, <1>4

\* The controller waits while the client acts.
LEMMA WaitingKeeps == ASSUME SInv, ServerWaits PROVE IInv' /\ UNCHANGED <<running, data, now>>
<1>1. now' \in Times
  BY DEF SInv, IInv, TypeOK, ServerWaits
<1>2. Clock
  BY <1>1 DEF ServerWaits, Clock
<1> QED BY <1>2, NextKeeps DEF SInv, Next, ServerWaits

\* The client sends a message, or none.
LEMMA PushedTypes ==
    ASSUME to_server \in Seq(Messages), NEW a \in Messages, to_server' = Append(to_server, a)
    PROVE  /\ to_server' \in Seq(Messages)
           /\ \A i \in DOMAIN to_server' :
                (\E j \in DOMAIN to_server : to_server'[i] = to_server[j]) \/ to_server'[i] = a
<1>1. to_server' \in Seq(Messages)
  OBVIOUS
<1>2. \A i \in DOMAIN Append(to_server, a) :
        i = Len(to_server) + 1 \/ (i \in DOMAIN to_server /\ Append(to_server, a)[i] = to_server[i])
  BY Pushed
<1>3. Append(to_server, a)[Len(to_server) + 1] = a
  BY Pushed
<1> QED BY <1>1, <1>2, <1>3

\* The client takes a message, and answers it or goes on with its handshake.
LEMMA TakeMessageKeeps == ASSUME SInv, TakeMessage PROVE SInv'
<1>1. /\ to_client # <<>> /\ to_client' = Tail(to_client) /\ ServerWaits
  BY DEF TakeMessage, TakeReply, Answer, Refuse, Ignore
<1>2. IInv' /\ UNCHANGED <<running, data>> /\ now' = 0
  BY <1>1, WaitingKeeps DEF SInv, ChannelTypes
<1>3. ToClientTypes'
  BY <1>1, TakenTypes DEF SInv
<1>4. /\ to_server \in Seq(Messages) /\ script \in Seq(FromClient) /\ applied \in 0..(Laps - 1)
  BY DEF SInv, ChannelTypes
<1> DEFINE Fits == /\ to_server' \in Seq(Messages) /\ script' \in Seq(FromClient)
                   /\ applied' \in 0..(Laps - 1) /\ FromTheClient
<1>5. ASSUME TakeReply PROVE Fits
  <2>1. applied' = applied
    BY <1>5 DEF TakeReply
  <2>2. CASE script = <<>>
    <3>1. to_server' = to_server /\ script' = script
      BY <1>5, <2>2 DEF TakeReply
    <3> QED BY <1>4, <2>1, <3>1 DEF FromTheClient
  <2>3. CASE script # <<>>
    <3>1. to_server' = Append(to_server, Head(script)) /\ script' = Tail(script)
      BY <1>5, <2>3 DEF TakeReply
    <3>2. Head(script) \in FromClient /\ Tail(script) \in Seq(FromClient)
      BY <1>4, <2>3, Popped
    <3>3. Head(script) \in Messages /\ ~IsAnswer(Head(script))
      BY <3>2 DEF FromClient
    <3>4. /\ to_server' \in Seq(Messages)
          /\ \A i \in DOMAIN to_server' :
               (\E j \in DOMAIN to_server : to_server'[i] = to_server[j])
                 \/ to_server'[i] = Head(script)
      BY <1>4, <3>1, <3>3, PushedTypes
    <3> QED BY <1>4, <2>1, <3>1, <3>2, <3>3, <3>4 DEF FromTheClient
  <2> QED BY <2>2, <2>3
<1>6. ASSUME Answer PROVE Fits
  <2>1. PICK result \in ResultsOf(Head(to_client)) :
          to_server' = Append(to_server, [type |-> "CALLRESULT", id |-> Head(to_client).id,
                                          result |-> result])
    BY <1>6 DEF Answer
  <2> DEFINE a == [type |-> "CALLRESULT", id |-> Head(to_client).id, result |-> result]
  <2>2. /\ Head(to_client).type = "CALL" /\ script' = script
        /\ applied' = applied \/ (WritesCamera(Head(to_client)) /\ applied' = (applied + 1) % Laps)
    BY <1>6 DEF Answer
  <2>3. a \in Messages /\ (applied + 1) % Laps \in 0..(Laps - 1)
    BY <1>1, <2>1, <2>2, AnswerTypes DEF SInv
  <2>4. AnswersHead(a)
    BY <2>2 DEF AnswersHead, IsRpc
  <2> HIDE DEF a
  <2>5. to_server' = Append(to_server, a)
    BY <2>1 DEF a
  <2>6. /\ to_server' \in Seq(Messages)
        /\ \A i \in DOMAIN to_server' :
             (\E j \in DOMAIN to_server : to_server'[i] = to_server[j]) \/ to_server'[i] = a
    BY <1>4, <2>3, <2>5, PushedTypes
  <2> QED BY <1>4, <2>2, <2>3, <2>4, <2>6 DEF FromTheClient, IsRpc
<1>7. ASSUME Refuse PROVE Fits
  <2> DEFINE a == [type |-> "CALLERROR", id |-> Head(to_client).id]
  <2>1. /\ Head(to_client).type = "CALL" /\ script' = script /\ applied' = applied
        /\ to_server' = Append(to_server, a)
    BY <1>7 DEF Refuse
  <2>2. a \in Messages
    BY <1>1, <2>1, AnswerTypes DEF SInv
  <2>3. AnswersHead(a)
    BY <2>1 DEF AnswersHead, IsRpc
  <2> HIDE DEF a
  <2>4. /\ to_server' \in Seq(Messages)
        /\ \A i \in DOMAIN to_server' :
             (\E j \in DOMAIN to_server : to_server'[i] = to_server[j]) \/ to_server'[i] = a
    BY <1>4, <2>1, <2>2, PushedTypes
  <2> QED BY <1>4, <2>1, <2>3, <2>4 DEF FromTheClient
<1>8. ASSUME Ignore PROVE Fits
  <2>1. /\ Head(to_client).type = "CALL" /\ script' = script /\ to_server' = to_server
        /\ applied' = applied \/ (WritesCamera(Head(to_client)) /\ applied' = (applied + 1) % Laps)
    BY <1>8 DEF Ignore
  <2>2. (applied + 1) % Laps \in 0..(Laps - 1)
    BY <1>1, <2>1, AnswerTypes DEF SInv
  <2> QED BY <1>4, <2>1, <2>2 DEF FromTheClient, IsRpc
<1>9. Fits
  BY <1>5, <1>6, <1>7, <1>8 DEF TakeMessage
<1>10. UnderWay'
  BY <1>1, <1>2, <1>9, TakenKeeps
<1>11. ChannelTypes'
  BY <1>2, <1>3, <1>9 DEF ChannelTypes
<1> QED BY <1>2, <1>10, <1>11 DEF SInv

\* The page gains or loses the focus: what it sends is a call.
LEMMA ChangeFocusKeeps == ASSUME SInv, ChangeFocus PROVE SInv'
<1>1. PICK arg \in {"focus true", "focus false"} : to_server' = Append(to_server, FocusUpdate(arg))
  BY DEF ChangeFocus
<1>2. UNCHANGED <<to_client, script, applied>> /\ ServerWaits
  BY DEF ChangeFocus
<1>3. IInv' /\ UNCHANGED <<running, data, now>>
  BY <1>2, WaitingKeeps
<1> DEFINE a == FocusUpdate(arg)
<1>4. a \in Messages /\ ~IsAnswer(a)
  BY HandshakeTypes DEF FromClient
<1> HIDE DEF a
<1>5. to_server' = Append(to_server, a) /\ to_server \in Seq(Messages)
  BY <1>1 DEF a, SInv, ChannelTypes
<1>6. /\ to_server' \in Seq(Messages)
      /\ \A i \in DOMAIN to_server' :
           (\E j \in DOMAIN to_server : to_server'[i] = to_server[j]) \/ to_server'[i] = a
  BY <1>4, <1>5, PushedTypes
<1>7. ChannelTypes'
  BY <1>2, <1>3, <1>6 DEF SInv, ChannelTypes, ToClientTypes, IsRpc, TheRpc
<1>8. UnderWay'
  <2>1. UNCHANGED <<to_client, applied, chain, step, pending_call_id, fresh, data>>
    BY <1>2, <1>3 DEF running
  <2>2. \A i \in DOMAIN to_server' :
          (\E j \in DOMAIN to_server : to_server'[i] = to_server[j]) \/ ~IsAnswer(to_server'[i])
    BY <1>4, <1>6
  <2> QED BY <2>1, <2>2, UndisturbedKeeps
<1> QED BY <1>3, <1>7, <1>8 DEF SInv

\* A fresh connection: the WELCOME is under way, and no RPC.
LEMMA SInitEstablishes == SInit => SInv
<1> SUFFICES ASSUME SInit PROVE SInv
  OBVIOUS
<1>1. IInv
  BY InitEstablishes DEF SInit
<1>2. /\ to_client = <<[type |-> "WELCOME"]>> /\ to_server = <<>> /\ script = Handshake
      /\ applied = 0 /\ now = 0 /\ chain = "NONE"
  BY DEF SInit, Init
<1> DEFINE welcome == [type |-> "WELCOME"]
<1>3. welcome.type = "WELCOME"
  OBVIOUS
<1> HIDE DEF welcome
<1>4. to_client = <<welcome>> /\ DOMAIN to_client = {1} /\ to_client[1] = welcome
  BY <1>2 DEF welcome
<1>5. \A i \in DOMAIN to_client : ~IsRpc(to_client[i])
  BY <1>3, <1>4 DEF IsRpc
<1>6. to_client \in Seq(ToSet(to_client))
  <2>1. to_client \in Seq({welcome})
    BY <1>4
  <2> QED BY <2>1, OwnElements
<1>7. 0 \in 0..(Laps - 1)
  BY SessionAssumption
<1>8. to_server \in Seq(Messages) /\ DOMAIN to_server = {}
  BY <1>2
<1>9. ChannelTypes
  BY <1>2, <1>5, <1>6, <1>7, <1>8, HandshakeTypes DEF ChannelTypes, ToClientTypes
<1>10. UnderWay
  BY <1>2, <1>5, <1>8 DEF UnderWay, PendingIsLast, AnsweredIsTaken, OnlyPendingUnderWay,
                          PendingFitsStep, CameraFits, AnswersReachTheirStep
<1> QED BY <1>1, <1>9, <1>10 DEF SInv

\* Every step of the session keeps the invariant.
LEMMA SNextKeeps == SInv /\ [SNext]_svars => SInv'
<1> SUFFICES ASSUME SInv, [SNext]_svars PROVE SInv'
  OBVIOUS
<1>1. CASE Deliver
  BY <1>1, DeliverKeeps
<1>2. CASE \E ev \in Events : MouseEvent(ev)
  BY <1>2, MouseEventKeeps
<1>3. CASE ChangeSensitivity \/ Elapse
  BY <1>3, SilenceKeeps
<1>4. CASE TakeMessage
  BY <1>4, TakeMessageKeeps
<1>5. CASE ChangeFocus
  BY <1>5, ChangeFocusKeeps
<1>6. CASE UNCHANGED svars
  <2>1. UNCHANGED vars /\ UNCHANGED <<to_client, to_server, script, applied>>
    BY <1>6 DEF svars
  <2>2. UNCHANGED <<chain, step, pending_call_id, fresh, data, now>>
    BY <2>1 DEF vars, running
  <2>3. IInv'
    BY <2>1, NextKeeps DEF SInv
  <2>4. ChannelTypes'
    BY <2>1, <2>2 DEF SInv, ChannelTypes, ToClientTypes, IsRpc, TheRpc
  <2>5. UnderWay'
    BY <2>1, <2>2, UndisturbedKeeps
  <2> QED BY <2>3, <2>4, <2>5 DEF SInv
<1> QED BY <1>1, <1>2, <1>3, <1>4, <1>5, <1>6 DEF SNext, ClientNext

\* The session's inductive invariant holds of every behaviour.
THEOREM SessionInvariant == SSpec => []SInv
BY SInitEstablishes, SNextKeeps, PTL DEF SSpec

\* A chain never takes a late answer to an RPC of an abandoned one for its own:
\* what it has read is what it asked for (the comparison with pending_call_id
\* in controller_on_message), however many answers are under way.
THEOREM AnswersReach == SSpec => []AnswersReachTheirStep
BY SessionInvariant, PTL DEF SInv, UnderWay

\* No camera the client comes to apply has lost an earlier one of the bridge's:
\* a write is only sent when the answer to the read before it has come, and the
\* client has taken every RPC by then, those of abandoned chains included.
THEOREM NoWriteLost == SSpec => []NoOwnWriteLost
<1>1. SInv => NoOwnWriteLost
  <2> SUFFICES ASSUME SInv, to_client # <<>>, Head(to_client).type = "CALL",
                      WritesCamera(Head(to_client)), "base" \in DOMAIN Head(to_client).value
               PROVE  /\ Head(to_client).value.base \in Values
                      /\ Head(to_client).value.base.applied = applied
    BY DEF NoOwnWriteLost
  <2>1. 1 \in DOMAIN to_client /\ Head(to_client) = to_client[1]
    BY Popped DEF SInv, ChannelTypes, ToClientTypes
  <2> QED BY <2>1 DEF SInv, UnderWay, CameraFits, IsRpc
<1> QED BY <1>1, SessionInvariant, PTL

\* In a session, too, the controller's own invariants hold: what Session adds
\* restricts the messages and the clock, and only Elapse, which moves the start
\* of the chain back instead of the clock on, is no step of Controller.
THEOREM SessionTypes == SSpec => [](TypeOK /\ WritesAreFresh)
BY SessionInvariant, PTL DEF SInv, IInv

=============================================================================
