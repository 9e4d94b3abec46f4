-------------------------- MODULE ControllerProofs --------------------------
(***************************************************************************)
(* Proofs about Controller.  The inductive invariant is IInv: the types,   *)
(* the agreement of chain and step, and FreshData, which says for every    *)
(* step what its chain has read.  OnlyKnownClients and NoOrphanedWork are  *)
(* inductive given these, and WritesAreFresh follows at every step from    *)
(* FreshData in the state the step leads to.                               *)
(***************************************************************************)
EXTENDS Controller, TLAPS, SequenceTheorems, WellFoundedInduction

IInv ==
    /\ TypeOK
    /\ ChainStepMatch
    /\ NoOrphanedWork
    /\ OnlyKnownClients
    /\ FreshData
    /\ WritesAreFresh

\* A chain that begins, or none: nothing read, nothing written.
Restarted ==
    /\ chain' # "NONE" => fresh' = {}
    /\ chain' = "MOTION" => step' = "MSTEP_READ_EXTENTS"
    /\ chain' = "BUTTON" => step' = "BSTEP_READ_EXTENTS"
    /\ sent' = <<>> \/ (\E m : sent' = <<m>> /\ m.type = "CALL" /\ m.method = "self:read")

\* An RPC gets an id of the right kind and is the only message sent.
LEMMA RpcSends ==
    ASSUME NEW method, NEW property, NEW value, Rpc(method, property, value)
    PROVE  /\ pending_call_id' \in CallIds
           /\ DOMAIN sent' = {1}
           /\ sent' = <<[type |-> "CALL", id |-> pending_call_id', method |-> method,
                         property |-> property, value |-> value]>>
BY DEF Rpc

\* Whatever waits when a chain ends, the next one begins from nothing.
LEMMA FinishRestarts ==
    ASSUME TypeOK, ChainFinished
    PROVE  ChainTypeOK' /\ NoOrphanedWork' /\ Restarted
<1> USE DEF TypeOK, ChainTypeOK
<1>1. CASE have_pending_button
  <2>1. /\ pending_call_id' \in CallIds
        /\ DOMAIN sent' = {1}
        /\ \E m : sent' = <<m>> /\ m.type = "CALL" /\ m.method = "self:read"
    BY <1>1, RpcSends DEF ChainFinished, StartButtonChain, RpcRead
  <2> QED
    BY <1>1, <2>1 DEF ChainFinished, StartButtonChain, NoOrphanedWork, Restarted, ButtonSteps
<1>2. CASE ~have_pending_button /\ have_pending_motion
  <2>1. /\ pending_call_id' \in CallIds
        /\ DOMAIN sent' = {1}
        /\ \E m : sent' = <<m>> /\ m.type = "CALL" /\ m.method = "self:read"
    BY <1>2, RpcSends DEF ChainFinished, StartMotionChain, RpcRead
  <2> QED
    BY <1>2, <2>1 DEF ChainFinished, StartMotionChain, NoOrphanedWork, Restarted, MotionSteps
<1>3. CASE ~have_pending_button /\ ~have_pending_motion
  <2>1. /\ chain' = "NONE" /\ Silent
        /\ UNCHANGED <<step, pending_call_id, chain_started, active_ev, fresh, waiting>>
    BY <1>3 DEF ChainFinished, GoIdle
  <2> QED
    BY <1>3, <2>1 DEF Silent, waiting, NoOrphanedWork, Restarted
<1> QED BY <1>1, <1>2, <1>3

\* A restart needs nothing of the data.
LEMMA RestartIsFresh ==
    ASSUME ChainTypeOK', Restarted
    PROVE  ChainStepMatch' /\ FreshData' /\ WritesAreFresh'
<1>1. ChainStepMatch' /\ FreshData'
  BY DEF ChainTypeOK, Restarted, ChainStepMatch, FreshData, MotionSteps, ButtonSteps, WriteSteps
<1>2. WritesAreFresh'
  BY DEF Restarted, WritesAreFresh
<1> QED BY <1>1, <1>2

\* A step that sends no message and leaves the chain and its data alone.
LEMMA SilentKeeps ==
    ASSUME IInv, Silent, UNCHANGED <<running, waiting, data>>
    PROVE  /\ ChainTypeOK' /\ DataTypeOK' /\ ChainStepMatch' /\ NoOrphanedWork'
           /\ FreshData' /\ WritesAreFresh'
<1>1. ChainTypeOK' /\ DataTypeOK'
  BY DEF IInv, TypeOK, ChainTypeOK, DataTypeOK, running, waiting, data, Silent
<1>2. ChainStepMatch' /\ NoOrphanedWork' /\ FreshData'
  BY DEF IInv, ChainStepMatch, NoOrphanedWork, FreshData, running, waiting, data
<1>3. WritesAreFresh'
  BY DEF Silent, WritesAreFresh
<1> QED BY <1>1, <1>2, <1>3

\* The same for a step that only answers a call of the client's.
LEMMA ReplyKeeps ==
    ASSUME IInv, NEW type \in {"CALLRESULT", "CALLERROR"}, Reply(type),
           UNCHANGED <<running, waiting, data>>
    PROVE  /\ ChainTypeOK' /\ DataTypeOK' /\ ChainStepMatch' /\ NoOrphanedWork'
           /\ FreshData' /\ WritesAreFresh'
<1>1. DOMAIN sent' = {1} /\ Len(sent') = 1 /\ sent'[1].type = type
  BY DEF Reply
<1>2. ChainTypeOK' /\ DataTypeOK'
  BY <1>1 DEF IInv, TypeOK, ChainTypeOK, DataTypeOK, running, waiting, data
<1>3. ChainStepMatch' /\ NoOrphanedWork' /\ FreshData'
  BY DEF IInv, ChainStepMatch, NoOrphanedWork, FreshData, running, waiting, data
<1>4. WritesAreFresh'
  BY <1>1 DEF WritesAreFresh
<1> QED BY <1>2, <1>3, <1>4

\* What a step of the controller leaves of the invariant; the rest is about
\* the client's part of the state.
Kept ==
    /\ ChainTypeOK' /\ DataTypeOK'
    /\ ChainStepMatch' /\ NoOrphanedWork' /\ FreshData' /\ WritesAreFresh'

\* A chain that proceeds stays a chain with one RPC more.
LEMMA ProceedTypes ==
    ASSUME TypeOK, NoOrphanedWork, chain # "NONE",
           NEW next \in MotionSteps \cup ButtonSteps,
           NEW read \in SUBSET {"model_extents", "perspective", "curr_affine", "view_extents"},
           Proceed(next, read),
           pending_call_id' \in CallIds, DOMAIN sent' = {1}
    PROVE  ChainTypeOK' /\ NoOrphanedWork'
BY DEF TypeOK, ChainTypeOK, Proceed, waiting, NoOrphanedWork

\* Writing the new affine, from either step that does: FreshData says that it
\* was computed from what this chain read.
LEMMA WriteAffineKeeps ==
    ASSUME IInv, chain = "MOTION",
           step \in {"MSTEP_WRITE_MOTION", "MSTEP_WRITE_VIEWEXTENTS"},
           Proceed("MSTEP_WRITE_AFFINE", {}),
           RpcWrite("view.affine", new_affine),
           UNCHANGED data
    PROVE  Kept
<1> USE DEF IInv
<1>1. /\ pending_call_id' \in CallIds /\ DOMAIN sent' = {1} /\ Len(sent') = 1
      /\ sent'[1].property = "view.affine" /\ sent'[1].value = new_affine
  BY RpcSends DEF RpcWrite
<1>2. ChainTypeOK' /\ NoOrphanedWork'
  BY <1>1, ProceedTypes DEF MotionSteps
<1>3. UNCHANGED <<model_extents, perspective, curr_affine, new_affine, view_extents>>
  BY DEF data
<1>4. ChainStepMatch' /\ FreshData' /\ DataTypeOK'
  BY <1>3 DEF Proceed, ChainStepMatch, FreshData, MotionSteps, WriteSteps, DataTypeOK, TypeOK
<1>5. WritesAreFresh'
  BY <1>1, <1>3 DEF WritesAreFresh, Proceed, FreshData, WriteSteps
<1> QED BY <1>2, <1>4, <1>5 DEF Kept

\* Every case of advance_motion_chain keeps the invariant: a failed read
\* restarts, a good one adds its field to fresh before its step is left.
LEMMA MotionStepKeeps ==
    ASSUME IInv, chain = "MOTION", NEW result \in Results, AdvanceMotionChain(result)
    PROVE  Kept
<1> USE DEF IInv
<1>t. /\ ChainTypeOK /\ DataTypeOK /\ sensitivity \in Gains
  BY DEF TypeOK
<1>v. /\ result.v \in Values
      /\ \A out \in Stored : \A n \in {6, 16} : JsonToFloats(result, out, n) \in Stored
      /\ \A out, n : IsFloats(result, n) => JsonToFloats(result, out, n) = result.v
  BY DEF Results, JsonToFloats, Stored
<1>1. ASSUME MStepReadExtents(result) PROVE Kept
  <2>1. DataTypeOK'
    BY <1>1, <1>t, <1>v DEF MStepReadExtents, DataTypeOK
  <2>2. CASE IsFloats(result, 6)
    <3>1. /\ Proceed("MSTEP_READ_PERSPECTIVE", {"model_extents"})
          /\ RpcRead("view.perspective")
          /\ model_extents' = result.v
          /\ UNCHANGED <<perspective, curr_affine, new_affine, view_extents>>
      BY <1>1, <2>2, <1>v DEF MStepReadExtents
    <3>2. /\ pending_call_id' \in CallIds /\ DOMAIN sent' = {1}
          /\ sent'[1].method = "self:read" /\ sent'[1].type = "CALL" /\ Len(sent') = 1
      BY <3>1, RpcSends DEF RpcRead
    <3>3. ChainTypeOK' /\ NoOrphanedWork'
      BY <3>1, <3>2, ProceedTypes DEF MotionSteps
    <3>4. ChainStepMatch' /\ FreshData'
      BY <3>1, <1>v DEF Proceed, ChainStepMatch, FreshData, MotionSteps, WriteSteps
    <3>5. WritesAreFresh'
      BY <3>2 DEF WritesAreFresh
    <3> QED BY <2>1, <3>3, <3>4, <3>5 DEF Kept
  <2>3. CASE ~IsFloats(result, 6)
    BY <1>1, <2>1, <2>3, FinishRestarts, RestartIsFresh DEF MStepReadExtents, Kept
  <2> QED BY <2>2, <2>3
<1>2. ASSUME MStepReadPerspective(result) PROVE Kept
  <2>1. /\ Proceed("MSTEP_READ_AFFINE", {"perspective"})
        /\ RpcRead("view.affine")
        /\ step = "MSTEP_READ_PERSPECTIVE"
        /\ perspective' \in BOOLEAN
        /\ UNCHANGED <<model_extents, curr_affine, new_affine, view_extents>>
    BY <1>2 DEF MStepReadPerspective
  <2>2. /\ pending_call_id' \in CallIds /\ DOMAIN sent' = {1}
        /\ sent'[1].method = "self:read" /\ sent'[1].type = "CALL" /\ Len(sent') = 1
    BY <2>1, RpcSends DEF RpcRead
  <2>3. ChainTypeOK' /\ NoOrphanedWork'
    BY <2>1, <2>2, ProceedTypes DEF MotionSteps
  <2>4. ChainStepMatch' /\ FreshData' /\ DataTypeOK'
    BY <2>1, <1>t DEF Proceed, ChainStepMatch, FreshData, MotionSteps, WriteSteps, DataTypeOK
  <2>5. WritesAreFresh'
    BY <2>2 DEF WritesAreFresh
  <2> QED BY <2>3, <2>4, <2>5 DEF Kept
<1>3. ASSUME MStepReadAffine(result) PROVE Kept
  <2>1. CASE ~IsFloats(result, 16)
    <3>1. ChainFinished /\ DataTypeOK'
      BY <1>3, <1>t, <1>v, <2>1 DEF MStepReadAffine, DataTypeOK
    <3> QED BY <3>1, FinishRestarts, RestartIsFresh DEF Kept
  <2>2. CASE IsFloats(result, 16)
    <3>1. /\ step = "MSTEP_READ_AFFINE"
          /\ curr_affine' = result.v
          /\ new_affine' = ComputeNewAffine(result.v)
          /\ UNCHANGED <<model_extents, perspective, view_extents>>
      BY <1>3, <2>2, <1>v DEF MStepReadAffine
    <3>2. /\ model_extents \in Values
          /\ "perspective" \in fresh /\ "model_extents" \in fresh
      BY <3>1 DEF FreshData
    <3>3. /\ DataTypeOK'
          /\ new_affine' \in [base : {curr_affine'}, ev : {active_ev}, gain : Gains,
                              extents : {model_extents'}]
      BY <3>1, <3>2, <1>t, <1>v DEF DataTypeOK, ComputeNewAffine, Affines, Stored, ChainTypeOK
    <3>4. CASE perspective
      <4>1. Proceed("MSTEP_WRITE_MOTION", {"curr_affine"}) /\ RpcWrite("motion", NoValue)
        BY <1>3, <2>2, <3>4 DEF MStepReadAffine
      <4>2. /\ pending_call_id' \in CallIds /\ DOMAIN sent' = {1} /\ Len(sent') = 1
            /\ sent'[1].type = "CALL" /\ sent'[1].property = "motion"
        BY <4>1, RpcSends DEF RpcWrite
      <4>3. ChainTypeOK' /\ NoOrphanedWork'
        BY <4>1, <4>2, ProceedTypes DEF MotionSteps
      <4>4. ChainStepMatch' /\ FreshData'
        BY <3>1, <3>2, <3>3, <3>4, <4>1, <1>v
        DEF Proceed, ChainStepMatch, FreshData, MotionSteps, WriteSteps
      <4>5. WritesAreFresh'
        BY <3>2, <4>1, <4>2 DEF WritesAreFresh, Proceed
      <4> QED BY <3>3, <4>3, <4>4, <4>5 DEF Kept
    <3>5. CASE ~perspective
      <4>1. Proceed("MSTEP_READ_VIEWEXTENTS", {"curr_affine"}) /\ RpcRead("view.extents")
        BY <1>3, <2>2, <3>5 DEF MStepReadAffine
      <4>2. /\ pending_call_id' \in CallIds /\ DOMAIN sent' = {1} /\ Len(sent') = 1
            /\ sent'[1].type = "CALL" /\ sent'[1].method = "self:read"
        BY <4>1, RpcSends DEF RpcRead
      <4>3. ChainTypeOK' /\ NoOrphanedWork'
        BY <4>1, <4>2, ProceedTypes DEF MotionSteps
      <4>4. ChainStepMatch' /\ FreshData'
        BY <3>1, <3>2, <3>3, <3>5, <4>1, <1>v
        DEF Proceed, ChainStepMatch, FreshData, MotionSteps, WriteSteps
      <4>5. WritesAreFresh'
        BY <4>2 DEF WritesAreFresh
      <4> QED BY <3>3, <4>3, <4>4, <4>5 DEF Kept
    <3> QED BY <3>4, <3>5
  <2> QED BY <2>1, <2>2
<1>4. ASSUME MStepReadViewExtents(result) PROVE Kept
  <2>1. CASE ~IsFloats(result, 6)
    <3>1. ChainFinished /\ DataTypeOK'
      BY <1>4, <1>t, <2>1 DEF MStepReadViewExtents, DataTypeOK, JsonToFloats, IsFloats
    <3> QED BY <3>1, FinishRestarts, RestartIsFresh DEF Kept
  <2>2. CASE IsFloats(result, 6)
    <3>1. /\ step = "MSTEP_READ_VIEWEXTENTS"
          /\ view_extents' = [base |-> result.v, ev |-> active_ev, gain |-> sensitivity]
          /\ Proceed("MSTEP_WRITE_MOTION", {"view_extents"})
          /\ RpcWrite("motion", NoValue)
          /\ UNCHANGED <<model_extents, perspective, curr_affine, new_affine>>
      BY <1>4, <2>2 DEF MStepReadViewExtents
    <3>2. /\ pending_call_id' \in CallIds /\ DOMAIN sent' = {1} /\ Len(sent') = 1
          /\ sent'[1].type = "CALL" /\ sent'[1].property = "motion"
      BY <3>1, RpcSends DEF RpcWrite
    <3>3. ChainTypeOK' /\ NoOrphanedWork'
      BY <3>1, <3>2, ProceedTypes DEF MotionSteps
    <3>4. /\ view_extents' \in [base : Values, ev : {active_ev}, gain : Gains]
          /\ view_extents' \in Extents
      BY <3>1, <1>t, <1>v DEF Extents, Stored, ChainTypeOK
    <3>5. ChainStepMatch' /\ FreshData' /\ DataTypeOK'
      BY <3>1, <3>4, <1>t
      DEF Proceed, ChainStepMatch, FreshData, MotionSteps, WriteSteps, DataTypeOK
    <3>6. WritesAreFresh'
      BY <3>1, <3>2 DEF WritesAreFresh, Proceed, FreshData
    <3> QED BY <3>3, <3>5, <3>6 DEF Kept
  <2> QED BY <2>1, <2>2
<1>5. ASSUME MStepWriteMotion PROVE Kept
  <2>1. CASE perspective
    <3>1. /\ step = "MSTEP_WRITE_MOTION"
          /\ Proceed("MSTEP_WRITE_AFFINE", {}) /\ RpcWrite("view.affine", new_affine)
          /\ UNCHANGED data
      BY <1>5, <2>1 DEF MStepWriteMotion
    <3> QED BY <3>1, <2>1, WriteAffineKeeps DEF WriteSteps
  <2>2. CASE ~perspective
    <3>1. /\ step = "MSTEP_WRITE_MOTION"
          /\ Proceed("MSTEP_WRITE_VIEWEXTENTS", {}) /\ RpcWrite("view.extents", view_extents)
          /\ UNCHANGED <<model_extents, perspective, curr_affine, new_affine, view_extents>>
      BY <1>5, <2>2 DEF MStepWriteMotion, data
    <3>2. /\ pending_call_id' \in CallIds /\ DOMAIN sent' = {1} /\ Len(sent') = 1
          /\ sent'[1].property = "view.extents" /\ sent'[1].value = view_extents
      BY <3>1, RpcSends DEF RpcWrite
    <3>3. ChainTypeOK' /\ NoOrphanedWork'
      BY <3>1, <3>2, ProceedTypes DEF MotionSteps
    <3>4. ChainStepMatch' /\ FreshData' /\ DataTypeOK'
      BY <3>1, <2>2, <1>t
      DEF Proceed, ChainStepMatch, FreshData, MotionSteps, WriteSteps, DataTypeOK
    <3>5. WritesAreFresh'
      BY <3>1, <3>2, <2>2 DEF WritesAreFresh, Proceed, FreshData, WriteSteps
    <3> QED BY <3>3, <3>4, <3>5 DEF Kept
  <2> QED BY <2>1, <2>2
<1>6. ASSUME MStepWriteViewExtents PROVE Kept
  BY <1>6, WriteAffineKeeps DEF MStepWriteViewExtents, WriteSteps
<1>7. ASSUME MStepWriteAffine PROVE Kept
  <2>1. ChainFinished /\ DataTypeOK'
    BY <1>7, <1>t DEF MStepWriteAffine, DataTypeOK, data
  <2> QED BY <2>1, FinishRestarts, RestartIsFresh DEF Kept
<1> QED
  BY <1>1, <1>2, <1>3, <1>4, <1>5, <1>6, <1>7 DEF AdvanceMotionChain

\* Every case of advance_button_chain keeps the invariant.
LEMMA ButtonStepKeeps ==
    ASSUME IInv, chain = "BUTTON", NEW result \in Results, AdvanceButtonChain(result)
    PROVE  Kept
<1> USE DEF IInv
<1>t. ChainTypeOK /\ DataTypeOK
  BY DEF TypeOK
<1>v. /\ result.v \in Values
      /\ \A out \in Stored : JsonToFloats(result, out, 6) \in Stored
      /\ \A out : IsFloats(result, 6) => JsonToFloats(result, out, 6) = result.v
  BY DEF Results, JsonToFloats, Stored
<1>1. ASSUME BStepReadExtents(result) PROVE Kept
  <2>1. DataTypeOK'
    BY <1>1, <1>t, <1>v DEF BStepReadExtents, DataTypeOK
  <2>2. CASE IsFloats(result, 6)
    <3>1. /\ Proceed("BSTEP_READ_FRONT", {"model_extents"})
          /\ RpcRead("views.front")
          /\ model_extents' = result.v
          /\ UNCHANGED <<perspective, curr_affine, new_affine, view_extents>>
      BY <1>1, <2>2, <1>v DEF BStepReadExtents
    <3>2. /\ pending_call_id' \in CallIds /\ DOMAIN sent' = {1} /\ Len(sent') = 1
          /\ sent'[1].type = "CALL" /\ sent'[1].method = "self:read"
      BY <3>1, RpcSends DEF RpcRead
    <3>3. ChainTypeOK' /\ NoOrphanedWork'
      BY <3>1, <3>2, ProceedTypes DEF ButtonSteps
    <3>4. ChainStepMatch' /\ FreshData'
      BY <3>1, <1>v DEF Proceed, ChainStepMatch, FreshData, ButtonSteps
    <3>5. WritesAreFresh'
      BY <3>2 DEF WritesAreFresh
    <3> QED BY <2>1, <3>3, <3>4, <3>5 DEF Kept
  <2>3. CASE ~IsFloats(result, 6)
    BY <1>1, <2>1, <2>3, FinishRestarts, RestartIsFresh DEF BStepReadExtents, Kept
  <2> QED BY <2>2, <2>3
<1>2. ASSUME BStepReadFront(result) PROVE Kept
  <2>1. /\ step = "BSTEP_READ_FRONT"
        /\ Proceed("BSTEP_WRITE_AFFINE", {})
        /\ RpcWrite("view.affine", [front |-> result])
        /\ UNCHANGED <<model_extents, perspective, curr_affine, new_affine, view_extents>>
    BY <1>2 DEF BStepReadFront, data
  <2>2. /\ pending_call_id' \in CallIds /\ DOMAIN sent' = {1} /\ Len(sent') = 1
        /\ sent'[1].property = "view.affine"
    BY <2>1, RpcSends DEF RpcWrite
  <2>3. ChainTypeOK' /\ NoOrphanedWork'
    BY <2>1, <2>2, ProceedTypes DEF ButtonSteps
  <2>4. ChainStepMatch' /\ FreshData' /\ DataTypeOK'
    BY <2>1, <1>t DEF Proceed, ChainStepMatch, FreshData, ButtonSteps, DataTypeOK
  <2>5. WritesAreFresh'
    BY <2>1, <2>2 DEF WritesAreFresh, Proceed
  <2> QED BY <2>3, <2>4, <2>5 DEF Kept
<1>3. ASSUME BStepWriteAffine PROVE Kept
  <2>1. /\ step = "BSTEP_WRITE_AFFINE"
        /\ Proceed("BSTEP_WRITE_EXTENTS", {})
        /\ RpcWrite("view.extents", [fit |-> model_extents])
        /\ UNCHANGED <<model_extents, perspective, curr_affine, new_affine, view_extents>>
    BY <1>3 DEF BStepWriteAffine, data
  <2>2. /\ pending_call_id' \in CallIds /\ DOMAIN sent' = {1} /\ Len(sent') = 1
        /\ sent'[1].property = "view.extents" /\ sent'[1].value = [fit |-> model_extents]
    BY <2>1, RpcSends DEF RpcWrite
  <2>3. ChainTypeOK' /\ NoOrphanedWork'
    BY <2>1, <2>2, ProceedTypes DEF ButtonSteps
  <2>4. ChainStepMatch' /\ FreshData' /\ DataTypeOK'
    BY <2>1, <1>t DEF Proceed, ChainStepMatch, FreshData, ButtonSteps, DataTypeOK
  <2>5. WritesAreFresh'
    BY <2>1, <2>2 DEF WritesAreFresh, Proceed, FreshData
  <2> QED BY <2>3, <2>4, <2>5 DEF Kept
<1>4. ASSUME BStepWriteExtents PROVE Kept
  <2>1. ChainFinished /\ DataTypeOK'
    BY <1>4, <1>t DEF BStepWriteExtents, DataTypeOK, data
  <2> QED BY <2>1, FinishRestarts, RestartIsFresh DEF Kept
<1> QED BY <1>1, <1>2, <1>3, <1>4 DEF AdvanceButtonChain

\* A message of the client keeps the invariant.
LEMMA MessageKeeps ==
    ASSUME IInv, NEW m \in Messages, OnMessage(m)
    PROVE  IInv'
<1> USE DEF IInv, TypeOK
<1>1. sensitivity' \in Gains /\ now' \in Times
  BY DEF OnMessage
<1>2. CASE OnPrefix(m)
  <2>1. Kept
    BY <1>2, SilentKeeps DEF OnPrefix, Kept
  <2>2. ClientTypeOK'
    <3> DEFINE Entry == [prefix : PrefixNames, uri : BaseUris]
               entry == [prefix |-> m.prefix, uri |-> m.uri]
    <3>1. entry \in Entry
      BY <1>2 DEF OnPrefix, Messages
    <3>2. prefixes \in Seq(Entry) /\ Len(prefixes) <= MAX_PREFIXES
      BY DEF ClientTypeOK
    <3>3. prefixes' = IF Len(prefixes) < MAX_PREFIXES THEN Append(prefixes, entry)
                      ELSE prefixes
      BY <1>2 DEF OnPrefix
    <3> HIDE DEF Entry, entry
    <3>4. prefixes' \in Seq(Entry) /\ Len(prefixes') <= MAX_PREFIXES
      BY <3>1, <3>2, <3>3, PrefixAssumption
    <3> QED BY <1>2, <3>4 DEF OnPrefix, ClientTypeOK, Entry
  <2>3. OnlyKnownClients'
    BY <1>2 DEF OnPrefix, OnlyKnownClients, running
  <2> QED BY <1>1, <2>1, <2>2, <2>3 DEF Kept
<1>3. CASE OnCall(m)
  <2>1. Silent \/ Reply("CALLRESULT") \/ Reply("CALLERROR")
    BY <1>3 DEF OnCall, CreateMouse, CreateController, RefuseHandshake, UpdateFocus,
                UnknownProcedure
  <2>2. UNCHANGED <<running, waiting, data>>
    BY <1>3 DEF OnCall
  <2>3. Kept
    BY <2>1, <2>2, SilentKeeps, ReplyKeeps DEF Kept
  <2>4. ClientTypeOK'
    BY <1>3 DEF OnCall, CreateMouse, CreateController, RefuseHandshake, UpdateFocus,
                UnknownProcedure, ClientTypeOK, client
  <2>5. OnlyKnownClients'
    BY <1>3, <2>2 DEF OnCall, CreateMouse, CreateController, RefuseHandshake, UpdateFocus,
                UnknownProcedure, OnlyKnownClients, client, running
  <2> QED BY <1>1, <2>3, <2>4, <2>5 DEF Kept
<1>4. CASE OnSubscribe(m)
  <2>1. Kept
    BY <1>4, SilentKeeps DEF OnSubscribe, Kept
  <2>2. ClientTypeOK' /\ OnlyKnownClients'
    BY <1>4 DEF OnSubscribe, ClientTypeOK, OnlyKnownClients, running
  <2> QED BY <1>1, <2>1, <2>2 DEF Kept
<1>5. CASE OnCallResult(m)
  <2>1. m.result \in Results
    BY <1>5 DEF OnCallResult, Messages
  <2>2. Kept
    BY <1>5, <2>1, MotionStepKeeps, ButtonStepKeeps DEF OnCallResult
  <2>3. ClientTypeOK' /\ OnlyKnownClients'
    BY <1>5 DEF OnCallResult, Answers, ClientTypeOK, OnlyKnownClients, client
  <2> QED BY <1>1, <2>2, <2>3 DEF Kept
<1>6. CASE OnCallError(m)
  <2>1. ChainFinished /\ DataTypeOK'
    BY <1>6 DEF OnCallError, DataTypeOK, data
  <2>2. Kept
    BY <2>1, FinishRestarts, RestartIsFresh DEF Kept
  <2>3. ClientTypeOK' /\ OnlyKnownClients'
    BY <1>6 DEF OnCallError, Answers, ClientTypeOK, OnlyKnownClients, client
  <2> QED BY <1>1, <2>2, <2>3 DEF Kept
<1>7. CASE OnStrayAnswer(m)
  <2>1. Kept
    BY <1>7, SilentKeeps DEF OnStrayAnswer, Kept
  <2>2. ClientTypeOK' /\ OnlyKnownClients'
    BY <1>7 DEF OnStrayAnswer, ClientTypeOK, OnlyKnownClients, client, running
  <2> QED BY <1>1, <2>1, <2>2 DEF Kept
<1>8. CASE OnMalformed(m)
  <2>1. Kept
    BY <1>8, SilentKeeps DEF OnMalformed, Kept
  <2>2. ClientTypeOK' /\ OnlyKnownClients'
    BY <1>8 DEF OnMalformed, ClientTypeOK, OnlyKnownClients, running
  <2> QED BY <1>1, <2>1, <2>2 DEF Kept
<1> QED
  BY <1>2, <1>3, <1>4, <1>5, <1>6, <1>7, <1>8 DEF OnMessage

\* An event of the mouse keeps the invariant: a chain only begins for a client
\* that is ready, known and subscribed.
LEMMA EventKeeps ==
    ASSUME IInv, NEW ev \in Events, OnSpnavEvent(ev)
    PROVE  IInv'
<1> USE DEF IInv, TypeOK
<1>1. /\ sensitivity' \in Gains /\ now' \in Times
      /\ ClientTypeOK' /\ DataTypeOK'
  BY DEF OnSpnavEvent, client, data, ClientTypeOK, DataTypeOK
<1>2. CASE IgnoreEvent
  <2>1. Kept
    BY <1>2, SilentKeeps DEF IgnoreEvent, OnSpnavEvent, Kept
  <2>2. OnlyKnownClients'
    BY <1>2 DEF IgnoreEvent, OnSpnavEvent, OnlyKnownClients, client, running
  <2> QED BY <1>1, <2>1, <2>2 DEF Kept
<1>3. CASE StartChain(ev)
  <2>1. ~have_pending_motion' /\ ~have_pending_button'
    BY <1>3 DEF StartChain, NoOrphanedWork
  <2>2. /\ pending_call_id' \in CallIds /\ DOMAIN sent' = {1}
        /\ \E m : sent' = <<m>> /\ m.type = "CALL" /\ m.method = "self:read"
    BY <1>3, RpcSends DEF StartChain, StartMotionChain, StartButtonChain, RpcRead
  <2>3. /\ chain' \in {"MOTION", "BUTTON"}
        /\ chain' = "MOTION" => step' = "MSTEP_READ_EXTENTS"
        /\ chain' = "BUTTON" => step' = "BSTEP_READ_EXTENTS"
        /\ fresh' = {} /\ chain_started' = now
        /\ active_ev' \in Motions
        /\ pending_motion' = pending_motion
        /\ have_pending_motion' \in BOOLEAN /\ have_pending_button' \in BOOLEAN
    BY <1>3, <2>1 DEF StartChain, StartMotionChain, StartButtonChain, Events, ChainTypeOK
  <2>4. ChainTypeOK' /\ NoOrphanedWork' /\ Restarted
    BY <2>1, <2>2, <2>3 DEF ChainTypeOK, NoOrphanedWork, Restarted, MotionSteps, ButtonSteps
  <2>5. OnlyKnownClients'
    BY <1>3 DEF StartChain, WantsEvents, OnSpnavEvent, OnlyKnownClients, client
  <2> QED BY <1>1, <2>4, <2>5, RestartIsFresh
<1>4. CASE QueueEvent(ev)
  <2>1. /\ chain # "NONE" /\ Silent /\ UNCHANGED running
        /\ pending_motion' \in Motions
        /\ have_pending_motion' \in BOOLEAN /\ have_pending_button' \in BOOLEAN
    BY <1>4 DEF QueueEvent, Events, ChainTypeOK
  <2>2. ChainTypeOK' /\ NoOrphanedWork'
    BY <2>1 DEF ChainTypeOK, NoOrphanedWork, Silent, running
  <2>3. ChainStepMatch' /\ FreshData' /\ OnlyKnownClients'
    BY <2>1 DEF OnSpnavEvent, ChainStepMatch, FreshData, OnlyKnownClients, running,
                data, client
  <2>4. WritesAreFresh'
    BY <2>1 DEF Silent, WritesAreFresh
  <2> QED BY <1>1, <2>2, <2>3, <2>4
<1> QED BY <1>2, <1>3, <1>4 DEF OnSpnavEvent

\* The initial states: no chain, nothing waiting, the WELCOME on its way.
LEMMA InitEstablishes == Init => IInv
<1> SUFFICES ASSUME Init PROVE IInv
  OBVIOUS
<1>1. /\ DOMAIN sent = {1} /\ Len(sent) = 1 /\ sent[1].type = "WELCOME"
      /\ chain = "NONE"
  BY DEF Init
<1>2. prefixes \in Seq([prefix : PrefixNames, uri : BaseUris]) /\ Len(prefixes) = 0
  BY DEF Init
<1>3. TypeOK
  <2>1. ClientTypeOK
    <3>1. /\ hs = "HS_WAIT_MOUSE"
          /\ {known_client, subscribed, focus, closing} = {FALSE}
      BY DEF Init
    <3>2. Len(prefixes) <= MAX_PREFIXES
      BY <1>2, PrefixAssumption
    <3> QED BY <3>1, <3>2, <1>2 DEF ClientTypeOK
  <2>2. ChainTypeOK
    BY <1>1, MotionAssumption DEF Init, ChainTypeOK, MotionSteps
  <2>3. DataTypeOK /\ sensitivity \in Gains /\ now \in Times
    BY GainAssumption DEF Init, DataTypeOK, Stored
  <2> QED BY <2>1, <2>2, <2>3 DEF TypeOK
<1>4. ChainStepMatch /\ NoOrphanedWork /\ OnlyKnownClients /\ FreshData
  BY DEF Init, ChainStepMatch, NoOrphanedWork, OnlyKnownClients, FreshData
<1>5. WritesAreFresh
  BY <1>1 DEF WritesAreFresh
<1> QED BY <1>3, <1>4, <1>5 DEF IInv

\* Every step keeps it.
LEMMA NextKeeps == IInv /\ [Next]_vars => IInv'
<1> SUFFICES ASSUME IInv, [Next]_vars PROVE IInv'
  OBVIOUS
<1>1. ASSUME NEW m \in Messages, OnMessage(m) PROVE IInv'
  BY <1>1, MessageKeeps
<1>2. ASSUME NEW ev \in Events, OnSpnavEvent(ev) PROVE IInv'
  BY <1>2, EventKeeps
<1>3. ASSUME NEW gain \in Gains, SetSensitivity(gain) PROVE IInv'
  <2>1. Kept
    BY <1>3, SilentKeeps DEF SetSensitivity, Kept
  <2>2. ClientTypeOK' /\ OnlyKnownClients' /\ sensitivity' \in Gains /\ now' \in Times
    BY <1>3 DEF SetSensitivity, IInv, TypeOK, ClientTypeOK, OnlyKnownClients, client, running
  <2> QED BY <2>1, <2>2 DEF Kept, IInv, TypeOK
<1>4. ASSUME Clock PROVE IInv'
  <2>1. Kept
    BY <1>4, SilentKeeps DEF Clock, Kept
  <2>2. ClientTypeOK' /\ OnlyKnownClients' /\ sensitivity' \in Gains /\ now' \in Times
    BY <1>4 DEF Clock, IInv, TypeOK, ClientTypeOK, OnlyKnownClients, client, running
  <2> QED BY <2>1, <2>2 DEF Kept, IInv, TypeOK
<1>5. ASSUME UNCHANGED vars PROVE IInv'
  BY <1>5 DEF vars, client, running, waiting, data, IInv, TypeOK, ClientTypeOK, ChainTypeOK,
              DataTypeOK, ChainStepMatch, NoOrphanedWork, OnlyKnownClients, FreshData,
              WritesAreFresh
<1> QED BY <1>1, <1>2, <1>3, <1>4, <1>5 DEF Next

\* The inductive invariant holds of every behaviour.
THEOREM InvariantHolds == Spec => []IInv
BY InitEstablishes, NextKeeps, PTL DEF Spec

\* controller.c keeps its state well formed whatever the client sends: in
\* particular a running chain always has an RPC whose answer it awaits.
THEOREM TypeCorrect == Spec => []TypeOK
BY InvariantHolds, PTL DEF IInv

\* The switches of advance_motion_chain and advance_button_chain never reach
\* their default case.
THEOREM StepsMatchChains == Spec => []ChainStepMatch
BY InvariantHolds, PTL DEF IInv

\* No event is left waiting behind a chain that does not run.
THEOREM NothingOrphaned == Spec => []NoOrphanedWork
BY InvariantHolds, PTL DEF IInv

\* RPCs only go to a client that is past its handshake, known and subscribed.
THEOREM KnownClientsOnly == Spec => []OnlyKnownClients
BY InvariantHolds, PTL DEF IInv

\* What is written to a client was read from it by the same chain and computed
\* from that chain's event, for any answers in any order.
THEOREM WritesFresh == Spec => []WritesAreFresh
BY InvariantHolds, PTL DEF IInv

\* By the time a step is reached its chain has read what the writes ahead need.
THEOREM DataFresh == Spec => []FreshData
BY InvariantHolds, PTL DEF IInv

----------------------------------------------------------------------------

\* The first of several places stays the first when one is added behind them.
LEMMA FirstStaysFirst ==
    ASSUME NEW S \in SUBSET Nat, S # {}, NEW k \in Nat, \A i \in S : i < k
    PROVE  Min(S) \in S /\ Min(S \cup {k}) = Min(S)
<1> DEFINE Below == {p \in Nat \X Nat : p[1] < p[2]}
<1>1. IsWellFoundedOn(Below, Nat)
  BY NatLessThanWellFounded DEF OpToRel
<1>2. PICK m \in S : \A i \in S : <<i, m>> \notin Below
  <2> HIDE DEF Below
  <2> QED BY <1>1, WFMin
<1>3. \A i \in S : m <= i
  <2> SUFFICES ASSUME NEW i \in S PROVE m <= i
    OBVIOUS
  <2>1. m \in Nat /\ i \in Nat
    OBVIOUS
  <2>2. ~(i < m)
    BY <1>2, <2>1
  <2> QED BY <2>1, <2>2
<1>4. \A x, y \in Nat : x <= y /\ y <= x => x = y
  OBVIOUS
<1>5. Min(S) = m
  <2>1. \A x \in S : (\A i \in S : x <= i) => x = m
    BY <1>3, <1>4
  <2> QED BY <1>3, <2>1 DEF Min
<1>6. Min(S \cup {k}) = m
  <2>1. m \in Nat /\ m <= k
    OBVIOUS
  <2>2. \A i \in S \cup {k} : m <= i
    BY <1>3, <2>1
  <2>3. \A x \in S \cup {k} : (\A i \in S \cup {k} : x <= i) => x = m
    BY <1>4, <2>2
  <2> QED BY <2>2, <2>3 DEF Min
<1> QED BY <1>5, <1>6

\* Declaring a prefix adds an entry behind the others, which is found only when
\* none of them has the prefix: what a name meant it goes on meaning.
THEOREM NamesStayStable == Spec => DeclaredNamesAreStable
<1>1. IInv /\ [Next]_vars =>
        (prefixes' # prefixes =>
           \A name \in Names : Entries(name) # {} => Resolve(name)' = Resolve(name))
  <2> SUFFICES ASSUME IInv, [Next]_vars, prefixes' # prefixes,
                      NEW name \in Names, Entries(name) # {}
               PROVE  Resolve(name)' = Resolve(name)
    OBVIOUS
  <2>1. PICK m \in Messages : OnPrefix(m)
    <3>1. PICK m \in Messages : OnMessage(m)
      BY DEF Next, OnSpnavEvent, SetSensitivity, Clock, client, vars
    <3>2. OnPrefix(m)
      BY <3>1 DEF OnMessage, OnCall, OnSubscribe, OnCallResult, OnCallError, OnStrayAnswer,
                  OnMalformed, CreateMouse, CreateController, RefuseHandshake, UpdateFocus,
                  UnknownProcedure, client
    <3> QED BY <3>2
  <2> DEFINE Entry == [prefix : PrefixNames, uri : BaseUris]
             entry == [prefix |-> m.prefix, uri |-> m.uri]
             k == Len(prefixes) + 1
  <2>2. prefixes \in Seq(Entry) /\ entry \in Entry /\ prefixes' = Append(prefixes, entry)
    BY <2>1 DEF IInv, TypeOK, ClientTypeOK, OnPrefix, Messages
  <2> HIDE DEF Entry, entry
  <2>3. /\ Len(prefixes) \in Nat /\ Len(prefixes') = k
        /\ \A i \in 1..Len(prefixes) : prefixes'[i] = prefixes[i]
    BY <2>2, AppendProperties, LenProperties
  <2>4. Entries(name) \in SUBSET Nat /\ \A i \in Entries(name) : i < k
    BY <2>3 DEF Entries
  <2>5. Entries(name)' = Entries(name) \/ Entries(name)' = Entries(name) \cup {k}
    <3>1. Entries(name)' = {i \in 1..k : prefixes'[i].prefix = name.prefix}
      BY <2>3 DEF Entries
    <3>2. 1..k = (1..Len(prefixes)) \cup {k}
      BY <2>3
    <3>3. {i \in 1..Len(prefixes) : prefixes'[i].prefix = name.prefix} = Entries(name)
      BY <2>3 DEF Entries
    <3> QED BY <3>1, <3>2, <3>3
  <2>6. Min(Entries(name)) \in Entries(name) /\ Min(Entries(name)') = Min(Entries(name))
    <3>1. k \in Nat
      BY <2>3
    <3> QED BY <2>4, <2>5, <3>1, FirstStaysFirst
  <2>7. prefixes'[Min(Entries(name))] = prefixes[Min(Entries(name))] /\ Entries(name)' # {}
    BY <2>3, <2>5, <2>6 DEF Entries
  <2> QED BY <2>6, <2>7 DEF Resolve
<1> QED BY <1>1, InvariantHolds, PTL DEF DeclaredNamesAreStable, Spec
=============================================================================
