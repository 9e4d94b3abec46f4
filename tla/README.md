# A TLA+ model of spnav-onshape-bridge

The bridge is a single-threaded daemon. It reads motion and button events of a 3D
mouse from spacenavd, accepts TLS connections from browsers on a loopback address,
speaks HTTP, WebSocket and WAMP v1 with them, and moves the camera of an Onshape
document by RPCs it sends to the page. A small overlay in the page changes the
sensitivity of the mouse through the same daemon.

Source paths are relative to the repository, so `src/controller.c` is the file of
that name in the repository's `src` directory. PROJECT.json refers to it as
`src/src/controller.c`.

## 1. Inventory

| Component | State | Operations | Module |
|---|---|---|---|
| Controller (`controller.c`) | handshake, prefix table, focus, running chain and its step, pending RPC id, two slots for what waits, buffers of floats | `controller_on_message`, `controller_on_spnav_event`, `controller_set_sensitivity`, `controller_create` | Controller |
| Session: a controller and the page | two FIFO channels, what the page has applied | the page takes, answers, refuses or ignores messages | Session |
| Connection of one client slot (`main.c`) | phase, input and output buffers, what OpenSSL waits for, time stamps | one pass of the poll loop, `queue_output`, `flush_output`, `process_client_buffer`, `close_client` | Transport |
| Sensitivity (`main.c`, `overlay.js`) | `g_sensitivity`, a copy per controller, `sensitivity.conf`, the overlay's slider, timer and status | load, GET, POST, save, upgrade, overlay events | Sensitivity |
| Client table (`main.c`) | eight slots, the poll set, `g_running` | accept, refuse, fan-out of mouse events, turns, close, shutdown | Bridge |
| spacenavd link (`spnav_bridge.c`) | connected or not | poll an event, close | Bridge |
| Requests and WebSocket frames (`http.c`, `origins.c`, `ws.c`, `main.c`) | `inbuf`, the message in progress | parse, answer, upgrade, decode, encode, fragments, control frames | Input |
| Certificates (`tls.c`) | four files | existence test, generation, writing, loading | Provision |
| WAMP text, matrices | none of their own | formatting, arithmetic | inputs of the above |
| Command line, doctor, browser extension, scripts, packaging, cJSON | - | run once, read-only or vendored | not modelled |

How they interact. The poll loop owns everything: it calls `process_client_buffer`
for a slot with input, which upgrades the slot (creating a controller) or hands a
complete message to `controller_on_message`; for each mouse event it calls
`controller_on_spnav_event` of every slot with a controller; a controller sends
by `client_send`, which queues into the slot's output buffer. A POST of the
sensitivity, handled inside one slot's turn, writes to every controller. There are
no threads and no locks; concurrency is that of the loop with its clients, the
page with its messages under way, the browser's parallel requests, the clock, and
crashes.

What is hard here: answers that come after their chain was given up; events that
arrive while a chain runs and must be coalesced; buffers kept from chain to chain;
non-blocking OpenSSL calls that must be repeated just so; peers that stop
reading or writing; bytes that come in any chunks; a table that changes between a
poll and the use of its results; requests that overtake each other; files written
in several steps. PROJECT.json lists these as hazards, each at its line.

What makes each component correct:

- Controller: a chain's writes are computed from what that chain read; nothing
  waits behind a chain that does not run; a view reset is never overtaken by
  motion; only known, subscribed clients are driven.
- Session: an answer reaches the step that asked for it; no motion the bridge wrote
  is lost to a later one; no client can wedge its connection.
- Transport: OpenSSL calls are repeated exactly; the loop never sleeps on a
  connection without having asked for what it waits for; every wait ends, but for
  one in which the peer and the mouse both keep things moving.
- Input: the controller gets the messages that were sent; no client within the limits
  is cut off; no buffer overflows; nothing complete is left lying.
- Bridge: results of a poll are used on the connection they are about; no slot and
  no descriptor leaks; events, callers and signals are seen to.
- Provision: what is served matches; what a user has trusted is not replaced.
- Sensitivity: all controllers use the value in force; an acknowledged value
  survives restarts; the overlay agrees with the bridge.

## 2. Modules

- `Controller` is one controller, alone. Each call of one of its entry points is
  one action, as the code neither blocks nor is re-entered. The client is free: any
  message may arrive at any time, answers of any id and shape included. The wall
  clock jumps both ways. A switch case of `advance_motion_chain` or
  `advance_button_chain` is an operator of its name; `ChainFinished`,
  `StartMotionChain` and `StartButtonChain` are the functions of that name, called
  where the code calls them. Float arrays are opaque: `Values` is what a client
  can send, `Garbage` anything else a buffer can hold, and a computed camera is the
  record of what it was computed from. A URI is a pair of prefix and rest.
- `ViewService` is what a controller promises about mouse events, with no slots, steps
  or RPCs: one event is served at a time, the rest are kept in a backlog, the
  backlog is coalesced when the service ends, and only an event that finds the
  service overdue cuts it short. The event that has just come is a variable, so that
  a service that ended cannot pass for one that was cut short.
- `ControllerHistory` adds to Controller the event the last step accepted and the
  history of those that came since the chain began, and states that it implements
  ViewService, the chain being the service, its timeout being what makes it overdue,
  and the history the backlog.
- `Session` joins a controller to the page over two FIFO channels. The page
  (external) sends its handshake, takes its messages in order, answers, refuses, or
  (unless `Responsive`) stays silent; its focus comes and goes. Every read carries
  what was asked for and how many camera writes were applied by then, so that a
  lost update and a misdelivered answer can be seen. Its clock is steady.
- `Transport` is one slot. `pc` is the place in the loop: poll, listener and mouse
  (`main`), then for a polled slot the checks, the handshake or the flush, the reads,
  and the end of the turn. Poll may report any events asked for, with or without a
  hang-up; every OpenSSL call may succeed, want either direction, or fail.
- `Sensitivity` is the bridge's value, the controllers' copies, the file, and
  overlays with requests in any order. A save is two steps, between which the file
  is empty and nothing else is served. What `"%g"` prints is rounded. An overlay shows
  a value by a slider, which has a range (0.05 to 3, within the bridge's 0.01 to 10)
  and a step, and by a label with two decimals; `Display` is both. `undisturbed`
  is the set of overlays that have only ever acted with nothing else of their own
  under way and that nobody else has overruled since.
- `Input` is what becomes of the bytes of one connection. A stream is a request and
  frames, reduced to what the code tells apart (whether the request parses, its
  sizes, origin and key, a frame's opcode, flaws, length form and payload length);
  its bytes arrive in chunks of any size. `busy` is the time spent in
  `process_client_buffer`, whose loop is one action per turn. `Sent` is a reference
  definition of RFC 6455's messages that looks at the whole stream and has no buffer.
- `Bridge` is the loop of `main` over all slots. `pc` is its place: the test of
  `g_running` and the building of the poll set (`top`), `poll`, `listener`, `mouse`
  (one step for each call of `sb_poll_event`), and `clients`, one step for each turn,
  in slot order. A turn moves its connection on, ends it, or does neither; `TLS`
  stands for the handshake and the request. spacenavd's socket is a queue that poll
  reports while it is not empty or at its end; at its end libspnav has no event.
- `Provision` is the directory of certificates and the processes started over it. A
  pair of CA and leaf is a number. A file is truncated by `fopen` and has its content
  at `fclose`, where it can also be lost without a word.
- `ControllerProofs`, `ControllerHistoryProofs`, `SessionProofs`, `TransportProofs`,
  `InputProofs`, `BridgeProofs`, `ProvisionProofs` and `SensitivityProofs` hold the
  proofs about the module each is named for. Session and ControllerHistory extend
  Controller, and their proofs those of `ControllerProofs`.
- `MCController`, `MCControllerHistory`, `MCSession`, `MCSensitivity`, `MCInput` and
  `MCBridge` give the constants of the models that need definitions; Transport and
  Provision are run directly.

How the modules fit together. Bridge composes many connections; Transport is the
turn of one connection at the level of OpenSSL calls, and Input is what its reads
feed, at the level of bytes; Controller is what Input's `delivered` messages and
Bridge's `heard` events go to; Session closes the loop with the page; Sensitivity
cuts across, for its requests come in by any connection and reach all controllers.

Operators marked "Mutant" are not part of the specifications. Each is a definition
with a plausible mistake, and PROJECT.json names for every property a mutant that
the property must catch.

## 3. What is model-checked

| Run | Bounds | Shows |
|---|---|---|
| chains (`MCControllerHistory.cfg`) | 2 motions, 1 accepted gain, 1 value, 2 RPC ids, 2 clock readings, no prefixes, backlogs of up to 2 events | `ChainStepMatch`, `NoOrphanedWork`, `WritesAreFresh`, `FreshData`, and that the controller implements ViewService: a waiting view reset is served before any motion, of motions the newest, and nothing is left behind |
| handshake (`MCHandshake.cfg`) | a table of 2 prefixes, 2 base URIs, 4 rests, 1 motion | `TypeOK`, `OnlyKnownClients`, `DeclaredNamesAreStable` |
| session (`MCSession.cfg`) | 3 RPC ids, writes counted modulo 2, a timeout of 1 | `AnswersReachTheirStep`, `NoOwnWriteLost` |
| session_live (`MCSessionLive.cfg`) | 2 RPC ids, writes not counted, fairness, a page that is responsive or not | `NeverWedged`, `QueuedResetEnds` |
| session_timeout (`MCSessionTimeout.cfg`) | a timeout of 2, a responsive page | violation of `AbandonedOnlyIfUnanswered` |
| slot (`MCTransport.cfg`) | 3 messages of output, 2 chunks of input, 2 reads a pass, timeouts of 2, fairness | `TypeOK`, `NeverPolledBlind`, `RetriesAreExact`, `HandshakeEnds`, `PendingWriteEnds`, `ClosingEnds`, `DecryptedInputIsRead` |
| input (`MCInput.cfg`) | an upgrade with up to 4 of 7 frames, or one of 11 endings behind a frame, or any other request with a frame behind it; messages of 7 bytes, replies of 2 and 3 against a frame buffer of 6, forms for lengths up to 1, 5 and beyond; every way to cut them into chunks | `TypeOK`, `DeliversWhatWasSent`, `LegalNeverCut`, `PongsAnswerPings`, `FramesAreReadable`, `StreamGetsThrough` |
| bridge (`MCBridge.cfg`) | 2 slots, 3 callers that may come back, two events to pass on and a dropped one between them, fairness | `ResultsAreOwn`, `DescriptorsAccounted`, `EveryoneHears`, `EventsGetThrough`, `KnocksAnswered`, `SlotsComeBack`, `StopsWhenAsked` |
| link_lost (`MCBridgeLost.cfg`) | 1 slot, 2 callers | violation of `EndsWhenLinkLost` |
| provision (`MCProvision.cfg`) | 2 processes, 2 faults, fairness | `ServesMatchingPair`, `ServedLeafIsTrusted`, `TrustLasts`, `StartsInTheEnd` |
| host_changed (`MCProvisionHost.cfg`) | 1 process, 2 addresses, no faults | violation of `EnsuresLeafForHost` |
| sensitivity (`MCSensitivity.cfg`) | 1 controller, 1 overlay with a slider of 2 positions, 1 script, 2 requests, 2 runs of the bridge, a value each that is rejected, rounded in print, between the slider's positions and beyond its end; all failures | `TypeOK`, `ControllersAgree`, `OverlayShowsTheBridge`, `AcknowledgedSticks` |

Why the bounds are enough. A controller compares an id only with the pending one, so
two ids already give an answer that is late and one that is not; Session uses
three, so that two chains can be given up while the answers to both are under way.
Two motions tell the served, the superseded and the waiting one apart, a third
behaves as one of them. The clock is only compared with CHAIN_TIMEOUT. The prefix
table holds two entries, so that it is filled, overflows, and holds a name twice. A
backlog of two has old motion before a reset and a reset before new motion; a longer
one only repeats what the two slots have already forgotten. Buffers of two and three
messages let output be queued behind a pending write and overflow. Input's sizes keep
the order of the real ones, with a form and a buffer each to be just filled and just
overrun; a message of three fragments with a control frame between them fits in four
frames. Bridge's third caller finds the table full, and may be let in when one of
the others has left. A connection that is closing may be sent RPCs without end in
Transport; its buffer is what bounds them. Two processes can overlap at every pair of steps, and of two
faults one can strike what is started to mend the other. Named bounds of the models,
which the code does not have: `Laps` (writes are counted modulo it, and so not at all
when it is 1), `MaxBacklog`, `ReqIds`, `MaxRuns`, `MaxFrames` (and
`Streams` with it), `Script`, `Gens`, `MaxFaults`, and one focus update under way at a
time in Session. `Knock` is restricted to the loop's time in poll, and
what happens on spacenavd's socket to the loop's time in poll and at `sb_poll_event`,
which changes nothing the loop can see; spacenavd goes away only after the last event of Script.

Symmetry is used only over RPC ids and request ids, which the specifications treat
alike, and in no run with liveness properties.

Fairness. Session: the poll loop reads what has arrived (weak fairness of
`Deliver`), the page takes its messages, answering or not (`TakeMessage`), time
passes (`Elapse`); `NeverWedged` also assumes that the user does not let go of the
mouse, for the timeout is only looked at when an event comes, while `QueuedResetEnds`
assumes neither mouse nor timeout but a page that answers or refuses. Transport: the loop goes round, because no call in it blocks and poll
returns within a second (weak fairness of `Poll`, `ToClients` and the client's
`Turn`), and time passes however busy the loop is (strong fairness of `Tick`, which
is enabled once a pass). The peer, the mouse and new connections owe nothing. Bridge:
the process runs (weak fairness of `Loop`, of which every step but the wait in poll
is taken at once, and the wait lasts a second at most); that poll fails is allowed
but not owed. Input: what was sent arrives and is taken up. Provision: a process that
was started runs, and one that ended is started again, as the service unit has it
(`Restart=on-failure`).

## 4. Findings

- `session_timeout`: the timeout of a chain counts from its beginning, not from
  its last RPC, so a page that answers all of up to seven RPCs in time, but slowly, is
  given up in the middle. The comment speaks of a client that "never answered".
- `link_lost`: nothing in the code ever finds out that spacenavd has gone. The function
  that should return -1 does so only after `sb_close`, so the branch of `main` that
  ends the bridge ("lost connection to spacenavd, exiting") is never taken, and the
  loop spins on a socket that stays readable. The service unit would have restarted it.
- `host_changed`: once the four files exist the address in the leaf is never compared
  with `--host`; the header promises a leaf "for `bind_ip`".

Also met, and described by what the properties except:

- A save of the sensitivity truncates the file first; a crash in between loses the old
  value too, and a save that fails is answered like one that succeeds
  (`AcknowledgedSticks` speaks of values whose save, and all later ones, did neither).
- A WebSocket that is closing keeps its controller, and every completed write restarts
  the timer of the next. With a mouse that keeps moving and a peer that takes
  something now and then, its slot need not come back: `ClosingEnds` says that
  it takes both, for ever, and that a plain request's slot comes back anyhow.
- An overlay shows no value as it is that its slider or its label cannot: with
  `--sensitivity 5` the slider stands at 3 and the label says 5.00, with 0.123 they say
  0.12 (`OverlayShowsTheBridge` speaks of the nearest they can show).
- Two POSTs of one overlay may be served in the wrong order, after which slider and
  bridge differ and the status says "saved" (`OverlayShowsTheBridge` speaks of
  overlays that act one thing at a time).
- If the last certificate file is truncated and then not written, by a crash or a full
  disk, or if two first starts overlap, every later start finds four files, cannot
  load them and ends; it needs the user to remove them (`mishaps` in Provision).

## 5. What is proved

Every safety invariant and every action property that a run checks is proved for
every value of the constants, and so is the refinement of ViewService. The runs show
the same on small instances, and the mutants that none of it holds by itself.

| Theorems | Establish |
|---|---|
| `ControllerProofs`: `TypeCorrect`, `StepsMatchChains`, `NothingOrphaned`, `KnownClientsOnly`, `DataFresh`, `WritesFresh`, `NamesStayStable` | `TypeOK`, `ChainStepMatch`, `NoOrphanedWork`, `OnlyKnownClients`, `FreshData`, `WritesAreFresh`, `DeclaredNamesAreStable` |
| `ControllerHistoryProofs`: `ControllerServesViews` | `ImplementsViewService` |
| `SessionProofs`: `AnswersReach`, `NoWriteLost` | `AnswersReachTheirStep`, `NoOwnWriteLost` |
| `TransportProofs`: `CountersFit`, `LoopPollsEverySlot`, `PendingCallsComeFirst` | `TypeOK`, `NeverPolledBlind`, `RetriesAreExact` |
| `InputProofs`: `BuffersHold`, `MessagesArrive`, `LimitsAreUsable`, `PingsAreAnswered`, `LengthsAreReadBack` | `TypeOK`, `DeliversWhatWasSent`, `LegalNeverCut`, `PongsAnswerPings`, `FramesAreReadable` |
| `BridgeProofs`: `ResultsStayOwn`, `NoDescriptorLeaks`, `EveryControllerHears` | `ResultsAreOwn`, `DescriptorsAccounted`, `EveryoneHears` |
| `ProvisionProofs`: `PairsMatch`, `LeafIsTrusted`, `CompleteSetLasts` | `ServesMatchingPair`, `ServedLeafIsTrusted`, `TrustLasts` |
| `SensitivityProofs`: `AgreementHolds`, `ValuesAccepted`, `PickedValuesStick`, `OverlaysAreRight` | `ControllersAgree`, `TypeOK`, `AcknowledgedSticks`, `OverlayShowsTheBridge` |

Assumptions. The proofs use the named assumptions of the modules and nothing else:
sizes, bounds and timeouts are naturals, and positive where the code's are; a zeroed
event is an event and the default gain acceptable; what marks absence (`None`,
`Garbage`, `Empty`, `NoCall`) is none of the values, requests or overlays; a pair of
certificates is a positive number, 0 being no pair; a stream is a request and frames
behind it; the names the page declares and uses are among those the controller can be
sent; `"%g"` prints the limits, the default and what the slider offers as they are; the
ends of the slider are accepted values and multiples of its step. Input also assumes that a frame of the largest message, with its header, has
a size that fits in the `int` in which `ws_decode_frame` returns it.

The inductive invariants, and why they are what they are:

- Controller. `IInv` is the conjunction of the six properties. `WritesAreFresh` alone
  is not inductive: that a write is computed from what its chain read depends on what
  the chain had read when it reached the step, which is what `FreshData` says of every
  step; `FreshData` needs `ChainStepMatch` (a button step in a motion chain would say
  nothing), and all need the types, for a buffer that holds `Garbage` must be told
  from one that does not. `FinishRestarts` is the lemma the others lean on: however a
  chain ends, what follows has read nothing and is at its first step.
- ControllerHistory. `SlotsSummariseBacklog`: the flag says that there is a view reset
  in the backlog; if there is none, the motion slot holds its last event. A motion
  kept beside a reset may be any, since the abstract server forgets motions
  older than a reset as well. With it each step of the controller is
  a step of ViewService or a stutter.
- Session. `UnderWay` says what the channels hold. Of the RPCs on their way to the page
  all but the oldest are the first of their chain, since a chain goes on only when its
  RPC was answered, and channels keep their order (`PendingIsLast`). Hence, once a
  chain is beyond its first step, nothing of an older chain can reach the page any more
  (`OnlyPendingUnderWay`, `AnsweredIsTaken`), and the camera it has read still is the
  page's when its write arrives (`CameraFits`). This is why a chain that is given up
  while its write is under way does no harm to the next one, which reads before it
  computes.
- Transport. `LastCallFits` relates the last OpenSSL call to what the slot's variables
  say must be repeated; `PassFits` says what got the loop where it is in its pass;
  `SlotFitsPhase` that a free slot is as `close_client` leaves it, and that only a
  WebSocket, open or closing, has a controller.
- Input. `Counts`: what was read is what was consumed and what lies in `inbuf`, and
  while the loop waits for input the next item is incomplete, so that a full buffer
  would mean an item larger than the buffer. `InProgress`: `msgbuf` holds the
  fragments, so far, of the one message that the frames taken leave unfinished
  (`Pending`, at most one by `OnePending`), and `msglen` its bytes; by `OneMoreFrame`,
  a frame extends, ends, replaces or passes over it. A PONG is paired with its PING by
  a function that each answer extends. Sums of lengths are recursive functions; what
  they are is proved from their least counterexample (`Smallest`, from the
  well-foundedness of the naturals), since induction theorems with an operator as
  parameter cannot be used here.
- Bridge. `PollSetFits`: the poll set names slots in use by their descriptors,
  until the turns are over; a slot is freed only in its own turn. With `Callers` (who
  is in the backlog holds no descriptor yet) no descriptor gets into two slots.
  `QueueFits` numbers the events on the socket behind those that were read.
- Provision. `Loaded`: a process serves what OpenSSL has compared. The rest holds while
  no write was lost and no two starts overlapped (`CleanInv`): one start writes at a
  time and in `Order`, the leaf comes last, so from its first byte on no start
  begins again (`LeafBegun`), and a complete leaf means a complete set of one pair
  (`LeafCompletes`). `TrustLasts` needs none of that.
- Sensitivity. Agreement is inductive together with the types of the value and of its
  copies, and does not depend on the printing or on the file's contents, as
  `Loaded` checks what it reads. `SavedFits` says that the file holds the last
  acknowledged value but during a save; `RequestFits` and `PageFits` say of an overlay
  that acts alone that its one request, or else what it shows, is about the
  value in force. `NearestFits` (the nearest multiple of a step stays between two
  multiples) keeps what is printed among the accepted values and the slider in range.

Only model-checked: the liveness properties (`NeverWedged`, `QueuedResetEnds`,
`HandshakeEnds`, `PendingWriteEnds`, `ClosingEnds`, `DecryptedInputIsRead`,
`StreamGetsThrough`, `EventsGetThrough`, `KnocksAnswered`, `SlotsComeBack`,
`StopsWhenAsked`, `StartsInTheEnd`), which need fairness and ENABLED, beyond TLAPS as it
stands; and the three violations of section 4, which are about what the code does not
do.

## 6. Not modelled, and the plan

All modules of the plan are written, and what is in reach of the prover is
proved. What could be added: an abstract specification of the connection, a stream of
messages that is cut off at most once, which Input and Transport would both implement;
and a property of the page about the time between the two writes of an orthographic
view, one of the three hazards that none covers yet. The others are
a page that moves its camera itself while a chain runs, which is outside the program,
and a save that fails, whose result the code does not look at while the overlay says
"saved".

Left out for good: the arithmetic of the camera (floating point, tested by
`tests/test_mat4.c`), the text of JSON and WAMP messages and of HTTP headers, memory
exhaustion, the doctor, the command line, the build, the packages and scripts, and
the static page script that spoofs the platform. A power failure after a save (there
is no fsync) has the outcome of `CrashInSave`. A process without a free descriptor
cannot accept, and its callers wait: `AcceptFails` has only the failures that end the
caller. Input's output has no end; that a full `outbuf` fails the connection is in
Transport. A mouse that sends events faster than
they can be read would keep the loop in its drain; Bridge's events are bounded.
