-------------------------- MODULE ControllerHistory -------------------------
(***************************************************************************)
(* Controller with two history variables, the event accepted by the last   *)
(* step and those accepted since the running chain began, and the proof    *)
(* obligation that its one motion slot and one button flag do what         *)
(* ViewService does with a whole backlog.                                  *)
(***************************************************************************)
EXTENDS Controller, SequencesExt

CONSTANTS Idle, Reset

ASSUME ServiceAssumption == Idle \notin Motions /\ Reset \notin Motions /\ Idle # Reset

VARIABLES event, arrived
hvars == <<vars, event, arrived>>

Request(ev) == IF ev.type = "MOTION" THEN ev.motion ELSE Reset

HInit == Init /\ event = Idle /\ arrived = <<>>

\* An accepted event is logged when it must wait; a chain begins with no log.
HOnSpnavEvent(ev) ==
    /\ OnSpnavEvent(ev)
    /\ event' = IF WantsEvents THEN Request(ev) ELSE Idle
    /\ arrived' = IF ~WantsEvents THEN arrived
                  ELSE IF chain = "NONE" \/ TimedOut THEN <<>>
                  ELSE Append(arrived, Request(ev))

\* A chain that ends, whatever follows it, leaves no log.
ChainEnds == chain # "NONE" /\ (chain' = "NONE" \/ ChainBegins)

HOther ==
    /\ \/ \E m \in Messages : OnMessage(m)
       \/ \E gain \in Gains : SetSensitivity(gain)
       \/ Clock
    /\ event' = Idle
    /\ arrived' = IF ChainEnds THEN <<>> ELSE arrived

HNext == (\E ev \in Events : HOnSpnavEvent(ev)) \/ HOther

HSpec == HInit /\ [][HNext]_hvars

----------------------------------------------------------------------------

Service == INSTANCE ViewService WITH
    serving <- CASE chain = "NONE" -> Idle
                 [] chain = "MOTION" -> active_ev
                 [] chain = "BUTTON" -> Reset,
    backlog <- arrived,
    overdue <- TimedOut

\* The controller serves events as ViewService does: one at a time, a waiting
\* view reset first, then the newest motion, never one that was superseded
\* (controller.c, chain_finished and controller_on_spnav_event).
ImplementsViewService == Service!Spec

=============================================================================
