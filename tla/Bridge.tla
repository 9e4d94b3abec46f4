------------------------------- MODULE Bridge --------------------------------
(***************************************************************************)
(* The loop of main in src/src/main.c over the whole client table, with    *)
(* the connection to spacenavd of src/src/spnav_bridge.c.  A pass tests    *)
(* g_running, builds a poll set from the table, polls, accepts at most one *)
(* connection, hands every waiting mouse event to every controller, and    *)
(* then gives each slot of the poll set its turn.                          *)
(*                                                                         *)
(* What a turn does inside a connection is in Transport.tla and Input.tla; *)
(* here it may move the connection on to its next phase or end it.  Peers, *)
(* the mouse and spacenavd act at any moment.                              *)
(***************************************************************************)
EXTENDS Integers, SequencesExt

CONSTANTS
    MAX_CLIENTS,
    Conns,          \* connections, each a descriptor of the bridge while it is open
    None,
    Script          \* bound: the kinds of the spnav events the mouse sends, in order

ASSUME BridgeAssumption ==
    MAX_CLIENTS \in Nat \ {0} /\ None \notin Conns /\ Script \in Seq(STRING)

VARIABLES
    pc,             \* where the loop is in its pass
    g_running,
    clients,        \* the table: descriptor, phase, whether there is a controller
    pfds,           \* the slots of the poll set that still await their turn
    mouse_ready,    \* poll found the socket to spacenavd readable
    connected,      \* to spacenavd, as spnav_bridge.c remembers it
    descriptors,    \* the connections the process holds open
    peer, backlog,  \* the other ends, and those that wait to be accepted
    queue, lost,    \* events on the socket to spacenavd; it is gone
    drained, heard, since   \* history: the last event read, those each controller was
                            \* handed, and drained when it was created

mouse == <<queue, lost>>
history == <<drained, heard, since>>
world == <<peer, backlog>>
vars == <<pc, g_running, clients, pfds, mouse_ready, connected, descriptors, world, mouse, history>>

Slots == 1..MAX_CLIENTS
Unused == [fd |-> None, phase |-> "FREE", ctrl |-> FALSE]
Used(s) == clients[s] # Unused
Least(S) == CHOOSE s \in S : \A t \in S : s <= t

----------------------------------------------------------------------------
\* Peers, mouse and signals

\* Between the loop's polls a caller only joins the end of the backlog, which
\* nobody looks at before the next poll: it may as well call then.
Knock(c) ==
    /\ peer[c] = "away" /\ pc = "poll"
    /\ peer' = [peer EXCEPT ![c] = "connected"]
    /\ backlog' = Append(backlog, c)
    /\ UNCHANGED <<pc, g_running, clients, pfds, mouse_ready, connected, descriptors, mouse, history>>

\* A reset, which poll reports as POLLHUP whatever it was asked for.  An orderly
\* end of the stream is input to a turn.
HangUp(c) ==
    /\ c \in descriptors /\ peer[c] = "connected"
    /\ peer' = [peer EXCEPT ![c] = "gone"]
    /\ UNCHANGED <<pc, g_running, clients, pfds, mouse_ready, connected, descriptors, backlog, mouse,
                   history>>

\* An event is known by its place in Script.  Its socket is looked at in poll and
\* by sb_poll_event, so that what happens to it may as well happen just then.
Moves ==
    /\ ~lost /\ pc \in {"poll", "mouse"}
    /\ drained + Len(queue) < Len(Script)
    /\ queue' = Append(queue, drained + Len(queue) + 1)
    /\ UNCHANGED <<pc, g_running, clients, pfds, mouse_ready, connected, descriptors, world, lost, history>>

\* spacenavd goes, after the last event of Script; what it sent can still be read.
Lose ==
    /\ ~lost /\ pc \in {"poll", "mouse"}
    /\ drained + Len(queue) = Len(Script)
    /\ lost' = TRUE
    /\ UNCHANGED <<pc, g_running, clients, pfds, mouse_ready, connected, descriptors, world, queue, history>>

\* on_signal.  It interrupts poll, unless it comes between the test of g_running
\* and the call.
Signal ==
    /\ g_running /\ pc # "done"
    /\ g_running' = FALSE
    /\ pc' \in IF pc = "poll" THEN {"top", "poll"} ELSE {pc}
    /\ UNCHANGED <<clients, pfds, mouse_ready, connected, descriptors, world, mouse, history>>

----------------------------------------------------------------------------
\* The poll set

\* Mutant: a closing connection has nothing more to say.
PolledOpen == {s \in Slots : Used(s) /\ clients[s].phase # "CLOSING"}

Polled == {s \in Slots : Used(s)}

Top ==
    /\ pc = "top"
    /\ \/ g_running /\ pc' = "poll"
          /\ pfds' = [s \in Polled |-> [fd |-> clients[s].fd, hup |-> FALSE]]
       \/ ~g_running /\ pc' = "stop" /\ UNCHANGED pfds
    /\ UNCHANGED <<g_running, clients, mouse_ready, connected, descriptors, world, mouse, history>>

MouseReadable == queue # <<>> \/ lost
\* Mutant: a pass that let somebody in leaves the mouse for another one.
ToMouseNextTime == "clients"

\* After the listener
ToMouse == IF mouse_ready THEN "mouse" ELSE "clients"

\* poll returns after a second at most.  Whether a client's socket can do what it
\* was asked for is left to its turn; a hang-up that comes later is not seen in it.
Poll ==
    /\ pc = "poll"
    /\ mouse_ready' = MouseReadable
    /\ pfds' = [s \in DOMAIN pfds |-> [pfds[s] EXCEPT !.hup = peer[pfds[s].fd] = "gone"]]
    /\ pc' = CASE backlog # <<>> -> "listener" [] MouseReadable -> "mouse" [] OTHER -> "clients"
    /\ UNCHANGED <<g_running, clients, connected, descriptors, world, mouse, history>>

\* Mutant: poll waits until something happens.
PollForever == Poll /\ (pc' # "clients" \/ \E s \in DOMAIN pfds : pfds'[s].hup)

\* The loop's own wait is Wait, so that it can be varied; an error of poll other
\* than EINTR ends the loop.
Wait == Poll
PollFails ==
    /\ pc = "poll"
    /\ pc' = "stop"
    /\ UNCHANGED <<g_running, clients, pfds, mouse_ready, connected, descriptors, world, mouse, history>>

----------------------------------------------------------------------------
\* The listener

\* Mutant: a closing connection's slot may be taken.
FreeSlotsClosing == {s \in Slots : clients[s].phase \in {"FREE", "CLOSING"}}

\* find_free_slot
FreeSlots == {s \in Slots : ~Used(s)}

Caller == Head(backlog)
Leaves(c) == peer' = [peer EXCEPT ![c] = "away"]

\* accept4 fails, the caller having given up; or SSL_new or SSL_set_fd does, and
\* close_client gives up the slot just taken.  A want of descriptors, which would
\* leave the caller waiting, is left out.
AcceptFails ==
    /\ pc = "listener"
    /\ backlog' = Tail(backlog) /\ Leaves(Caller)
    /\ pc' = ToMouse
    /\ UNCHANGED <<g_running, clients, pfds, mouse_ready, connected, descriptors, mouse, history>>

Accept ==
    /\ pc = "listener" /\ FreeSlots # {}
    /\ backlog' = Tail(backlog)
    /\ descriptors' = descriptors \cup {Caller}
    /\ clients' = [clients EXCEPT ![Least(FreeSlots)] =
                     [fd |-> Caller, phase |-> "TLS", ctrl |-> FALSE]]
    /\ pc' = ToMouse
    /\ UNCHANGED <<g_running, pfds, mouse_ready, connected, peer, mouse, history>>

\* Mutants: the connection refused is not closed; a full table accepts nobody.
RefuseKeepsOpen ==
    /\ pc = "listener" /\ FreeSlots = {}
    /\ backlog' = Tail(backlog)
    /\ descriptors' = descriptors \cup {Caller}
    /\ pc' = ToMouse
    /\ UNCHANGED <<g_running, clients, pfds, mouse_ready, connected, peer, mouse, history>>
RefuseLater ==
    /\ pc = "listener" /\ FreeSlots = {}
    /\ pc' = ToMouse
    /\ UNCHANGED <<g_running, clients, pfds, mouse_ready, connected, descriptors, world, mouse, history>>

Refuse ==
    /\ pc = "listener" /\ FreeSlots = {}
    /\ backlog' = Tail(backlog) /\ Leaves(Caller)
    /\ pc' = ToMouse
    /\ UNCHANGED <<g_running, clients, pfds, mouse_ready, connected, descriptors, mouse, history>>

----------------------------------------------------------------------------
\* The mouse

Wanted(e) == Script[e] \in {"motion", "button"}

\* sb_poll_event: -1 without a connection, 1 with an event for the controllers,
\* 0 with none, which is also what it says of an event it drops, and of a socket
\* at its end (libspnav reports no event then).
SbPollEvent ==
    IF ~connected THEN -1
    ELSE IF queue # <<>> /\ Wanted(Head(queue)) THEN 1 ELSE 0

\* Mutant: a connection that is closing hears no more.
HearersOpen == {clients[s].fd : s \in {t \in Slots : clients[t].ctrl /\ clients[t].phase = "WS"}}

\* Every used slot with a controller, those that are closing and the one
\* accepted a moment ago included
Hearers == {clients[s].fd : s \in {t \in Slots : Used(t) /\ clients[t].ctrl}}

\* One turn of the loop around sb_poll_event
Drain ==
    /\ pc = "mouse"
    /\ pc' = CASE SbPollEvent > 0 -> "mouse" [] SbPollEvent < 0 -> "stop" [] OTHER -> "clients"
    /\ mouse_ready' = (mouse_ready /\ pc' = "mouse")
    /\ queue' = IF queue = <<>> THEN queue ELSE Tail(queue)
    /\ drained' = IF queue = <<>> THEN drained ELSE Head(queue)
    /\ heard' = [c \in Conns |->
                   IF SbPollEvent > 0 /\ c \in Hearers THEN Append(heard[c], Head(queue))
                   ELSE heard[c]]
    /\ UNCHANGED <<g_running, clients, pfds, connected, descriptors, world, lost, since>>

----------------------------------------------------------------------------
\* A client's turn, in the order of the poll set

Current == Least(DOMAIN pfds)
InTurn == pc = "clients" /\ DOMAIN pfds # {}
TurnOver == pfds' = [s \in DOMAIN pfds \ {Current} |-> pfds[s]]
Hup == pfds[Current].hup
Goes(phase, ctrl) ==
    clients' = [clients EXCEPT ![Current].phase = phase, ![Current].ctrl = ctrl]

\* The phase after a turn that moves the connection on; TLS stands for HTTP too.
\* An upgrade creates the controller, which hears events from then on.
Serve ==
    /\ InTurn /\ ~Hup
    /\ LET phase == clients[Current].phase IN
       \/ phase = "TLS" /\ Goes("WS", TRUE)
          /\ since' = [since EXCEPT ![clients[Current].fd] = drained]
       \/ phase = "TLS" /\ Goes("CLOSING", FALSE) /\ UNCHANGED since
       \/ phase = "WS" /\ Goes("CLOSING", TRUE) /\ UNCHANGED since
    /\ TurnOver
    /\ UNCHANGED <<pc, g_running, mouse_ready, connected, descriptors, world, mouse, drained, heard>>

\* Nothing to do, or not yet enough; a closing connection has output left.
Pass ==
    /\ InTurn /\ ~Hup
    /\ TurnOver
    /\ UNCHANGED <<pc, g_running, clients, mouse_ready, connected, descriptors, world, mouse, history>>

\* close_client, after a hang-up, an error or a timeout (Transport.tla), or when
\* a closing connection has nothing left to send
Reap ==
    /\ InTurn
    /\ clients' = [clients EXCEPT ![Current] = Unused]
    /\ LET fd == clients[Current].fd IN
       /\ descriptors' = descriptors \ {fd}
       /\ Leaves(fd)
       /\ heard' = [heard EXCEPT ![fd] = <<>>]
       /\ since' = [since EXCEPT ![fd] = 0]
    /\ TurnOver
    /\ UNCHANGED <<pc, g_running, mouse_ready, connected, backlog, mouse, drained>>

PassOver ==
    /\ pc = "clients" /\ DOMAIN pfds = {}
    /\ pc' = "top"
    /\ UNCHANGED <<g_running, clients, pfds, mouse_ready, connected, descriptors, world, mouse, history>>

----------------------------------------------------------------------------

\* The end of main: every connection, spacenavd's and the listener are closed.
Shutdown ==
    /\ pc = "stop" /\ pc' = "done"
    /\ clients' = [s \in Slots |-> Unused]
    /\ descriptors' = descriptors \ {clients[s].fd : s \in Slots}
    /\ connected' = FALSE
    /\ peer' = [c \in Conns |-> "away"] /\ backlog' = <<>>
    /\ pfds' = <<>> /\ mouse_ready' = FALSE
    /\ heard' = [c \in Conns |-> <<>>] /\ since' = [c \in Conns |-> 0]
    /\ UNCHANGED <<g_running, mouse, drained>>

Init ==
    /\ pc = "top" /\ g_running = TRUE
    /\ clients = [s \in Slots |-> Unused]
    /\ pfds = <<>> /\ mouse_ready = FALSE
    /\ connected = TRUE
    /\ descriptors = {}
    /\ peer = [c \in Conns |-> "away"] /\ backlog = <<>>
    /\ queue = <<>> /\ lost = FALSE
    /\ drained = 0
    /\ heard = [c \in Conns |-> <<>>] /\ since = [c \in Conns |-> 0]

Loop ==
    \/ Top \/ Wait
    \/ AcceptFails \/ Accept \/ Refuse
    \/ Drain
    \/ Serve \/ Pass \/ Reap \/ PassOver
    \/ Shutdown
World ==
    \/ \E c \in Conns : Knock(c) \/ HangUp(c)
    \/ Moves \/ Lose \/ Signal
Next == Loop \/ PollFails \/ World

\* The process runs; nobody else owes anything, nor does poll owe an error.
Spec == Init /\ [][Next]_vars /\ WF_vars(Loop)

----------------------------------------------------------------------------
\* Properties

\* Results of poll are those of the connection they are applied to, though slots
\* are filled between the poll and the turns, and emptied between the turns.
ResultsAreOwn ==
    pc \in {"listener", "mouse", "clients"} =>
        \A s \in DOMAIN pfds : clients[s].fd = pfds[s].fd

\* Every descriptor the process holds is that of one slot, so that it is closed
\* some day: refusals, failed handshakes and shutdown leak none.
DescriptorsAccounted ==
    /\ descriptors = {clients[s].fd : s \in {t \in Slots : Used(t)}}
    /\ \A s, t \in Slots : Used(s) /\ clients[s].fd = clients[t].fd => s = t

\* Every controller has been handed each motion and button event that was read
\* since it was created, in order, once, whoever came, went or was closing
\* meanwhile, and nothing it was not there for.
EveryoneHears ==
    \A s \in Slots : clients[s].ctrl =>
        LET fd == clients[s].fd IN
        /\ ToSet(heard[fd]) = {e \in (since[fd] + 1)..drained : Wanted(e)}
        /\ \A i, j \in DOMAIN heard[fd] : i < j => heard[fd][i] < heard[fd][j]

Running == g_running /\ pc \notin {"stop", "done"}

\* No event is left on the socket, the ones behind an event that is dropped
\* included, which ends the loop around sb_poll_event with events unread.
EventsGetThrough == queue # <<>> ~> (queue = <<>> \/ ~Running)

\* Whoever knocks is let in or turned away, however full the table is.
KnocksAnswered ==
    \A c \in Conns : c \in ToSet(backlog) ~> (c \notin ToSet(backlog) \/ ~Running)

\* Who hangs up gives the slot back, in whatever phase.
SlotsComeBack ==
    \A c \in Conns : (c \in descriptors /\ peer[c] = "gone") ~> (c \notin descriptors \/ ~Running)

\* A signal ends the process with all closed, also when it comes between the test
\* of g_running and the poll, which then does not return early.
StopsWhenAsked == ~g_running ~> (pc = "done" /\ descriptors = {} /\ ~connected)

\* "Returns ... -1 on unrecoverable error (connection to spacenavd lost)"
\* (spnav_bridge.h), on which main says "lost connection to spacenavd, exiting":
\* the bridge ends when spacenavd is gone.
EndsWhenLinkLost == lost ~> pc = "done"
=============================================================================
