----------------------- MODULE ControllerHistoryProofs -----------------------
(***************************************************************************)
(* The proof that ControllerHistory implements ViewService, for clients,   *)
(* events and backlogs of any kind and number, on top of the invariant of  *)
(* ControllerProofs.                                                       *)
(***************************************************************************)
EXTENDS ControllerHistory, ControllerProofs, SequenceTheorems

Requests == Motions \cup {Reset}

\* What the one motion slot and the one button flag say of the whole backlog: that
\* there is a view reset in it, or else which event came last.
SlotsSummariseBacklog ==
    /\ arrived \in Seq(Requests)
    /\ chain = "NONE" => arrived = <<>>
    /\ have_pending_button <=> Contains(arrived, Reset)
    /\ ~have_pending_button /\ arrived = <<>> => ~have_pending_motion
    /\ ~have_pending_button /\ arrived # <<>> =>
         have_pending_motion /\ pending_motion = Last(arrived)

HInv == IInv /\ SlotsSummariseBacklog

\* The abstract specification's sequences are read as those here.
LEMMA SameOperators ==
    \A log : (Service!Contains(log, Reset) <=> Contains(log, Reset)) /\ Service!Last(log) = Last(log)
BY DEF Service!Contains, Contains, Service!Last, Last

\* The chain that runs goes on, or there is none.
GoesOn ==
    /\ UNCHANGED <<chain, active_ev, waiting>>
    /\ ~ChainBegins

\* The event served, in the abstract
Serving ==
    CASE chain = "NONE" -> Idle
      [] chain = "MOTION" -> active_ev
      [] chain = "BUTTON" -> Reset

----------------------------------------------------------------------------

\* An event that waits is last in the backlog, which then holds a reset if it
\* held one before or the event is one.
LEMMA BacklogGrows ==
    ASSUME NEW log \in Seq(Requests), NEW e \in Requests
    PROVE  /\ Append(log, e) \in Seq(Requests) /\ Append(log, e) # <<>>
           /\ Last(Append(log, e)) = e
           /\ Contains(Append(log, e), Reset) <=> Contains(log, Reset) \/ e = Reset
<1>1. /\ Append(log, e) \in Seq(Requests) /\ Append(log, e) # <<>>
      /\ Len(Append(log, e)) = Len(log) + 1 /\ Len(log) \in Nat
      /\ \A i \in 1..Len(log) : Append(log, e)[i] = log[i]
      /\ Append(log, e)[Len(log) + 1] = e
  BY AppendProperties, LenProperties
<1>2. Last(Append(log, e)) = e
  BY <1>1 DEF Last
<1>3. ASSUME Contains(log, Reset) \/ e = Reset PROVE Contains(Append(log, e), Reset)
  BY <1>1, <1>3 DEF Contains
<1>4. ASSUME Contains(Append(log, e), Reset), e # Reset PROVE Contains(log, Reset)
  <2>1. PICK i \in 1..(Len(log) + 1) : Append(log, e)[i] = Reset
    BY <1>1, <1>4 DEF Contains
  <2>2. i \in 1..Len(log)
    BY <1>1, <1>4, <2>1
  <2> QED BY <1>1, <2>1, <2>2 DEF Contains
<1> QED BY <1>1, <1>2, <1>3, <1>4

\* A chain that proceeds does so with an RPC no chain begins with.
LEMMA ProceedGoesOn ==
    ASSUME NEW next, NEW read, Proceed(next, read),
           NEW method, NEW property, NEW value, Rpc(method, property, value),
           property # "model.extents"
    PROVE  GoesOn
<1>1. sent'[1].property = property
  BY RpcSends
<1> QED BY <1>1 DEF GoesOn, Proceed, ChainBegins

\* Each answer ends the chain or takes it one step further.
LEMMA AnswerEndsOrGoesOn ==
    ASSUME NEW result, AdvanceMotionChain(result) \/ AdvanceButtonChain(result)
    PROVE  ChainFinished \/ GoesOn
<1> USE ProceedGoesOn DEF RpcRead, RpcWrite
<1>1. CASE MStepReadExtents(result)
  BY <1>1 DEF MStepReadExtents
<1>2. CASE MStepReadPerspective(result)
  BY <1>2 DEF MStepReadPerspective
<1>3. CASE MStepReadAffine(result)
  BY <1>3 DEF MStepReadAffine
<1>4. CASE MStepReadViewExtents(result)
  BY <1>4 DEF MStepReadViewExtents
<1>5. CASE MStepWriteMotion
  BY <1>5 DEF MStepWriteMotion
<1>6. CASE MStepWriteViewExtents
  BY <1>6 DEF MStepWriteViewExtents
<1>7. CASE MStepWriteAffine
  BY <1>7 DEF MStepWriteAffine
<1>8. CASE BStepReadExtents(result)
  BY <1>8 DEF BStepReadExtents
<1>9. CASE BStepReadFront(result)
  BY <1>9 DEF BStepReadFront
<1>10. CASE BStepWriteAffine
  BY <1>10 DEF BStepWriteAffine
<1>11. CASE BStepWriteExtents
  BY <1>11 DEF BStepWriteExtents
<1> QED BY <1>1, <1>2, <1>3, <1>4, <1>5, <1>6, <1>7, <1>8, <1>9, <1>10, <1>11
     DEF AdvanceMotionChain, AdvanceButtonChain

\* So does each message, and only an answer to a chain ends one.
LEMMA MessageEndsOrGoesOn ==
    ASSUME NEW m \in Messages, OnMessage(m)
    PROVE  (chain # "NONE" /\ ChainFinished) \/ GoesOn
<1>1. ASSUME UNCHANGED <<running, waiting>> PROVE GoesOn
  BY <1>1 DEF GoesOn, running, ChainBegins
<1>2. CASE OnPrefix(m) \/ OnCall(m) \/ OnSubscribe(m) \/ OnStrayAnswer(m) \/ OnMalformed(m)
  BY <1>1, <1>2 DEF OnPrefix, OnCall, OnSubscribe, OnStrayAnswer, OnMalformed
<1>3. CASE OnCallResult(m)
  BY <1>3, AnswerEndsOrGoesOn DEF OnCallResult, Answers
<1>4. CASE OnCallError(m)
  BY <1>4 DEF OnCallError, Answers
<1> QED BY <1>2, <1>3, <1>4 DEF OnMessage

\* When a chain ends, the slots yield what the backlog as a whole calls for.
LEMMA FinishServesBacklog ==
    ASSUME HInv, chain # "NONE", ChainFinished
    PROVE  /\ ChainEnds
           /\ Serving' = Service!Coalesced(arrived)
           /\ ~have_pending_motion' /\ ~have_pending_button'
<1> USE DEF HInv, SlotsSummariseBacklog, IInv, TypeOK, ChainTypeOK
<1>1. CASE have_pending_button
  <2>1. /\ chain' = "BUTTON" /\ RpcRead("model.extents")
        /\ ~have_pending_motion' /\ ~have_pending_button'
    BY <1>1 DEF ChainFinished, StartButtonChain
  <2>2. ChainBegins
    BY <2>1 DEF ChainBegins, RpcRead, Rpc
  <2>3. Contains(arrived, Reset) /\ arrived # <<>>
    BY <1>1 DEF Contains
  <2>4. Serving' = Reset
    BY <2>1 DEF Serving
  <2>5. Service!Coalesced(arrived) = Reset
    BY <2>3, SameOperators DEF Service!Coalesced
  <2> QED BY <2>1, <2>2, <2>4, <2>5 DEF ChainEnds
<1>2. CASE ~have_pending_button /\ have_pending_motion
  <2>1. /\ chain' = "MOTION" /\ active_ev' = pending_motion /\ RpcRead("model.extents")
        /\ ~have_pending_motion' /\ ~have_pending_button'
    BY <1>2 DEF ChainFinished, StartMotionChain
  <2>2. ChainBegins
    BY <2>1 DEF ChainBegins, RpcRead, Rpc
  <2>3. ~Contains(arrived, Reset) /\ arrived # <<>> /\ pending_motion = Last(arrived)
    BY <1>2
  <2>4. Serving' = pending_motion
    BY <2>1 DEF Serving
  <2>5. Service!Coalesced(arrived) = pending_motion
    BY <2>3, SameOperators DEF Service!Coalesced
  <2> QED BY <2>1, <2>2, <2>4, <2>5 DEF ChainEnds
<1>3. CASE ~have_pending_button /\ ~have_pending_motion
  <2>1. chain' = "NONE" /\ ~have_pending_motion' /\ ~have_pending_button'
    BY <1>3 DEF ChainFinished, GoIdle, waiting
  <2>2. arrived = <<>>
    BY <1>3
  <2> QED BY <2>1, <2>2 DEF ChainEnds, Serving, Service!Coalesced
<1> QED BY <1>1, <1>2, <1>3

\* What is served is an event as long as a chain runs.
LEMMA ServingSomething ==
    ASSUME HInv
    PROVE  /\ chain = "NONE" => Serving = Idle
           /\ chain # "NONE" => Serving # Idle
BY ServiceAssumption DEF HInv, IInv, TypeOK, ChainTypeOK, Serving

----------------------------------------------------------------------------

\* An accepted event begins a service, is kept, or puts an end to one.
LEMMA EventImplements ==
    ASSUME HInv, NEW ev \in Events, HOnSpnavEvent(ev)
    PROVE  Service!Next \/ UNCHANGED <<event, Serving, arrived>>
<1> USE DEF HOnSpnavEvent, OnSpnavEvent
<1>1. Request(ev) \in Requests
  BY DEF Request, Requests, Events
<1>2. CASE IgnoreEvent
  <2>1. event' = Idle /\ UNCHANGED <<chain, active_ev, arrived>>
    BY <1>2 DEF IgnoreEvent, running
  <2> QED BY <2>1 DEF Service!Next, Serving
<1>3. CASE StartChain(ev)
  <2>1. /\ event' = Request(ev) /\ arrived' = <<>>
        /\ chain = "NONE" \/ (chain # "NONE" /\ TimedOut)
    BY <1>3 DEF StartChain
  <2>2. Serving' = Request(ev)
    <3>1. CASE ev.type = "MOTION" /\ StartMotionChain(ev.motion)
      BY <3>1 DEF StartMotionChain, Serving, Request
    <3>2. CASE ev.type = "BUTTON" /\ StartButtonChain
      BY <3>2 DEF StartButtonChain, Serving, Request
    <3> QED BY <1>3, <3>1, <3>2 DEF StartChain
  <2>3. CASE chain = "NONE"
    <3>1. Serving = Idle /\ arrived' = arrived
      BY <2>1, <2>3, ServingSomething DEF HInv, SlotsSummariseBacklog
    <3> QED BY <1>1, <2>1, <2>2, <3>1 DEF Service!Next, Service!Begin, Service!Requests, Requests, Serving
  <2>4. CASE chain # "NONE" /\ TimedOut
    <3>1. Serving # Idle
      BY <2>4, ServingSomething
    <3> QED BY <1>1, <2>1, <2>2, <2>4, <3>1 DEF Service!Next, Service!GiveUp, Service!Requests, Requests, Serving
  <2> QED BY <2>1, <2>3, <2>4
<1>4. CASE QueueEvent(ev)
  <2>1. /\ event' = Request(ev) /\ arrived' = Append(arrived, Request(ev))
        /\ chain # "NONE" /\ ~TimedOut /\ UNCHANGED <<chain, active_ev>>
    BY <1>4 DEF QueueEvent, running
  <2>2. Serving # Idle
    BY <2>1, ServingSomething
  <2> QED BY <1>1, <2>1, <2>2 DEF Service!Next, Service!Keep, Service!Requests, Requests, Serving
<1> QED BY <1>2, <1>3, <1>4

\* Of the other steps, those that end a chain end the service; the rest does not
\* show.
LEMMA OtherImplements ==
    ASSUME HInv, HOther
    PROVE  Service!Next \/ UNCHANGED <<event, Serving, arrived>>
<1>1. event' = Idle /\ arrived' = IF ChainEnds THEN <<>> ELSE arrived
  BY DEF HOther
<1>2. (chain # "NONE" /\ ChainFinished) \/ GoesOn
  <2>1. ASSUME UNCHANGED <<running, waiting>> PROVE GoesOn
    BY <2>1 DEF GoesOn, running, ChainBegins
  <2> QED BY <2>1, MessageEndsOrGoesOn DEF HOther, SetSensitivity, Clock
<1>3. CASE chain # "NONE" /\ ChainFinished
  <2>1. ChainEnds /\ Serving' = Service!Coalesced(arrived) /\ Serving # Idle
    BY <1>3, FinishServesBacklog, ServingSomething
  <2> QED BY <1>1, <2>1 DEF Service!Next, Service!End, Serving
<1>4. CASE GoesOn
  <2>1. ~ChainEnds /\ UNCHANGED <<chain, active_ev>>
    BY <1>4 DEF GoesOn, ChainEnds
  <2> QED BY <1>1, <2>1 DEF Service!Next, Serving
<1> QED BY <1>2, <1>3, <1>4

----------------------------------------------------------------------------

\* The slots keep summarising the backlog: an event that waits is added to both,
\* and both are emptied when a chain ends or is given up.
LEMMA SummaryPreserved == HInv /\ [HNext]_hvars => SlotsSummariseBacklog'
<1> SUFFICES ASSUME HInv, [HNext]_hvars PROVE SlotsSummariseBacklog'
  OBVIOUS
<1> USE DEF HInv
<1>1. ASSUME arrived' = <<>>, ~have_pending_motion', ~have_pending_button'
      PROVE  SlotsSummariseBacklog'
  <2>1. arrived' \in Seq(Requests) /\ ~Contains(arrived', Reset)
    BY <1>1 DEF Contains
  <2> QED BY <1>1, <2>1 DEF SlotsSummariseBacklog, Requests, Contains, Last
<1>2. ASSUME UNCHANGED <<chain, waiting, arrived>>
      PROVE  SlotsSummariseBacklog'
  BY <1>2 DEF SlotsSummariseBacklog, waiting, Requests, Contains, Last
<1>3. ASSUME NEW ev \in Events, HOnSpnavEvent(ev)
      PROVE  SlotsSummariseBacklog'
  <2> USE <1>3 DEF HOnSpnavEvent, OnSpnavEvent
  <2>1. CASE IgnoreEvent
    BY <1>2, <2>1 DEF IgnoreEvent, running
  <2>2. CASE StartChain(ev)
    <3>1. ~have_pending_motion' /\ ~have_pending_button'
      BY <2>2 DEF StartChain, IInv, NoOrphanedWork
    <3>2. arrived' = <<>>
      BY <2>2 DEF StartChain
    <3> QED BY <1>1, <3>1, <3>2
  <2>3. CASE QueueEvent(ev)
    <3>1. /\ chain # "NONE" /\ chain' = chain
          /\ arrived' = Append(arrived, Request(ev)) /\ Request(ev) \in Requests
      BY <2>3 DEF QueueEvent, running, Request, Requests, Events
    <3>2. /\ arrived' \in Seq(Requests) /\ arrived' # <<>> /\ Last(arrived') = Request(ev)
          /\ Contains(arrived', Reset) <=> Contains(arrived, Reset) \/ Request(ev) = Reset
      BY <3>1, BacklogGrows DEF SlotsSummariseBacklog
    <3>3. CASE ev.type = "MOTION"
      <4>1. /\ pending_motion' = ev.motion /\ have_pending_motion'
            /\ have_pending_button' = have_pending_button /\ Request(ev) = ev.motion
        BY <2>3, <3>3 DEF QueueEvent, Request
      <4>2. Request(ev) # Reset
        BY <3>3, <4>1, ServiceAssumption DEF Events
      <4>3. have_pending_button' <=> Contains(arrived', Reset)
        BY <3>2, <4>1, <4>2 DEF SlotsSummariseBacklog
      <4> QED BY <3>1, <3>2, <4>1, <4>3 DEF SlotsSummariseBacklog, Requests, Contains, Last
    <3>4. CASE ev.type = "BUTTON"
      <4>1. have_pending_button' /\ Request(ev) = Reset
        BY <2>3, <3>4 DEF QueueEvent, Request
      <4>2. Contains(arrived', Reset)
        BY <3>2, <4>1
      <4> QED BY <3>1, <3>2, <4>1, <4>2 DEF SlotsSummariseBacklog, Requests, Contains, Last
    <3> QED BY <3>3, <3>4 DEF Events
  <2> QED BY <2>1, <2>2, <2>3
<1>4. CASE HOther
  <2>1. (chain # "NONE" /\ ChainFinished) \/ GoesOn
    <3>1. ASSUME UNCHANGED <<running, waiting>> PROVE GoesOn
      BY <3>1 DEF GoesOn, running, ChainBegins
    <3> QED BY <1>4, <3>1, MessageEndsOrGoesOn DEF HOther, SetSensitivity, Clock
  <2>2. CASE chain # "NONE" /\ ChainFinished
    BY <1>1, <1>4, <2>2, FinishServesBacklog DEF HOther
  <2>3. CASE GoesOn
    <3>1. ~ChainEnds /\ UNCHANGED <<chain, waiting>>
      BY <2>3 DEF GoesOn, ChainEnds
    <3> QED BY <1>2, <1>4, <3>1 DEF HOther
  <2> QED BY <2>1, <2>2, <2>3
<1>5. CASE UNCHANGED hvars
  BY <1>2, <1>5 DEF hvars, vars, running
<1> QED BY <1>3, <1>4, <1>5 DEF HNext

\* For any client, any events and any clock, the controller's chains and slots do
\* what ViewService does with the whole backlog.
THEOREM ControllerServesViews == HSpec => ImplementsViewService
<1>1. HInit => Init /\ HInv /\ Service!Init
  <2> SUFFICES ASSUME HInit PROVE Init /\ HInv /\ Service!Init
    OBVIOUS
  <2>1. Init /\ IInv /\ chain = "NONE" /\ ~have_pending_motion /\ ~have_pending_button
        /\ arrived = <<>> /\ event = Idle
    BY InitEstablishes DEF HInit, Init
  <2>2. SlotsSummariseBacklog
    BY <2>1 DEF SlotsSummariseBacklog, Contains
  <2> QED BY <2>1, <2>2 DEF HInv, Service!Init
<1>2. [HNext]_hvars => [Next]_vars
  BY DEF HNext, HOnSpnavEvent, HOther, Next, hvars
<1>3. HInv /\ [HNext]_hvars => HInv'
  BY <1>2, NextKeeps, SummaryPreserved DEF HInv
<1>4. HInv /\ [HNext]_hvars => [Service!Next]_<<event, Serving, arrived>>
  <2> SUFFICES ASSUME HInv, [HNext]_hvars
               PROVE  Service!Next \/ UNCHANGED <<event, Serving, arrived>>
    OBVIOUS
  <2>1. CASE UNCHANGED hvars
    <3>1. UNCHANGED <<event, arrived, chain, active_ev>>
      BY <2>1 DEF hvars, vars, running
    <3> QED BY <3>1 DEF Serving
  <2> QED BY <2>1, EventImplements, OtherImplements DEF HNext
<1> QED BY <1>1, <1>3, <1>4, PTL DEF HSpec, ImplementsViewService, Service!Spec, Serving
=============================================================================
