---------------------------- MODULE ViewService -----------------------------
(***************************************************************************)
(* What the controller promises about the events of the 3D mouse, without  *)
(* its slots, steps and RPCs: one event is served at a time and what comes *)
(* meanwhile is kept in full.  When a service ends, a view reset in the    *)
(* backlog is next, else the newest motion, and the rest of the backlog is *)
(* forgotten.  An event that finds a service overdue puts an end to it and *)
(* to its backlog, and is served itself.                                   *)
(***************************************************************************)
EXTENDS Sequences, SequencesExt

CONSTANTS Motions, Idle, Reset   \* Reset: a button event

VARIABLES
    event,      \* the event that has just come, or Idle
    overdue,    \* the service takes too long; time is not described here
    serving,    \* the event being served, or Idle
    backlog     \* the events that came since the service began, oldest first

Requests == Motions \cup {Reset}

Coalesced(log) ==
    IF log = <<>> THEN Idle
    ELSE IF Contains(log, Reset) THEN Reset
    ELSE Last(log)

Begin ==
    /\ serving = Idle
    /\ serving' = event'
    /\ UNCHANGED backlog

Keep ==
    /\ serving # Idle /\ ~overdue
    /\ backlog' = Append(backlog, event')
    /\ UNCHANGED serving

GiveUp ==
    /\ serving # Idle /\ overdue
    /\ serving' = event'
    /\ backlog' = <<>>

End ==
    /\ serving # Idle
    /\ serving' = Coalesced(backlog)
    /\ backlog' = <<>>

Init == event = Idle /\ serving = Idle /\ backlog = <<>>

Next ==
    \/ event' \in Requests /\ (Begin \/ Keep \/ GiveUp)
    \/ event' = Idle /\ (End \/ UNCHANGED <<serving, backlog>>)

Spec == Init /\ [][Next]_<<event, serving, backlog>>
=============================================================================
