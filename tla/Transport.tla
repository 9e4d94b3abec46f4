----------------------------- MODULE Transport ------------------------------
(***************************************************************************)
(* One slot of the client table of src/src/main.c, and the passes the poll *)
(* loop makes over it: a connection is accepted, shakes hands over TLS,    *)
(* sends one HTTP request, and is either answered and closed or upgraded   *)
(* to a WebSocket.  OpenSSL works on a non-blocking socket, so each of its *)
(* calls may want to be repeated when the socket is readable or writable.  *)
(*                                                                         *)
(* The network and the peer are free: poll reports any of the events asked *)
(* for, or a hang-up, or none (its timeout is a second at most), and an    *)
(* OpenSSL call returns anything it can return.  Buffers are counted in    *)
(* chunks; what the peer sends is known when it completes a request or a   *)
(* frame.  The modes of SSL_write are OpenSSL's defaults: when it succeeds *)
(* it has written all of it.                                               *)
(***************************************************************************)
EXTENDS Integers

CONSTANTS
    OUT_MAX,            \* room in outbuf, in messages
    IN_MAX,             \* room in inbuf, in chunks
    READS,              \* SSL_read calls per pass (16)
    IO_TIMEOUT

ASSUME TransportAssumption ==
    {OUT_MAX, IN_MAX, READS, IO_TIMEOUT} \subseteq Nat \ {0}

VARIABLES
    pc,         \* where the loop is in its pass over this slot
    phase,      \* FREE stands for used = 0
    revents, polled,    \* what poll reported, and whether the slot was in its set
    tls_wait, write_wait, read_wait,    \* 0, POLLIN or POLLOUT
    inlen, outlen, write_len,
    ssl_pending,        \* OpenSSL holds decrypted input: SSL_pending
    reads,
    failed,
    age, stall,         \* seconds since accepted_at and write_started, up to IO_TIMEOUT
    ctrl,       \* the slot has a controller
    op                  \* history: the last OpenSSL call, its length and what it wants

loop == <<pc, revents, polled, reads>>
waits == <<tls_wait, write_wait, read_wait>>
buffers == <<inlen, outlen, write_len, ssl_pending>>
times == <<age, stall>>
vars == <<loop, phase, waits, buffers, failed, times, ctrl, op>>

Wants == {"POLLIN", "POLLOUT"}
Call(name, len, want) == [name |-> name, len |-> len, want |-> want]
NoCall == Call("none", 0, "0")

\* What a slot is polled for
Interest ==
    CASE phase = "FREE" -> {}
      [] phase = "TLS" -> {tls_wait}
      [] phase # "TLS" /\ write_len > 0 -> {write_wait}
      [] OTHER ->
           (IF phase = "CLOSING" THEN {} ELSE {IF read_wait = "0" THEN "POLLIN" ELSE read_wait})
               \cup (IF outlen > 0 THEN {"POLLOUT"} ELSE {})

----------------------------------------------------------------------------
\* Output

\* Mutant: the room left in outbuf is not looked at.
QueueOutputUnchecked ==
    /\ outlen' = outlen + 1
    /\ stall' = IF outlen = 0 THEN 0 ELSE stall
    /\ UNCHANGED failed

\* queue_output of one message, as a change of outlen, failed and the timer
QueueOutput ==
    \/ failed /\ UNCHANGED <<outlen, failed, stall>>
    \/ /\ ~failed /\ outlen = OUT_MAX
       /\ failed' = TRUE
       /\ UNCHANGED <<outlen, stall>>
    \/ /\ ~failed /\ outlen < OUT_MAX
       /\ outlen' = outlen + 1
       /\ stall' = IF outlen = 0 THEN 0 ELSE stall
       /\ UNCHANGED failed
NoOutput == UNCHANGED <<outlen, failed, stall>>

----------------------------------------------------------------------------
\* The poll, the listener and the mouse

Poll ==
    /\ pc = "poll"
    /\ \E ready \in SUBSET Interest, hup \in SUBSET {"POLLHUP"} :
         revents' = IF phase = "FREE" THEN {} ELSE ready \cup hup
    /\ polled' = (phase # "FREE")
    /\ pc' = "main"
    /\ UNCHANGED <<reads, phase, waits, buffers, failed, times, ctrl, op>>

\* A new connection takes the slot after the poll: it is not served in this pass.
Accept ==
    /\ pc = "main" /\ phase = "FREE"
    /\ phase' = "TLS" /\ tls_wait' = "POLLIN"
    /\ age' = 0
    /\ UNCHANGED <<loop, write_wait, read_wait, buffers, failed, stall, ctrl, op>>

\* controller_on_spnav_event for this slot's controller, when it sends an RPC.
\* A WebSocket that is closing still has its controller.
MouseRpc ==
    /\ pc = "main" /\ ctrl
    /\ QueueOutput
    /\ UNCHANGED <<loop, phase, waits, inlen, write_len, ssl_pending, age, ctrl, op>>

\* On to the clients; one that was not polled is passed over.
ToClients ==
    /\ pc = "main"
    /\ pc' = IF polled THEN "check" ELSE "poll"
    /\ UNCHANGED <<revents, polled, reads, phase, waits, buffers, failed, times, ctrl, op>>

----------------------------------------------------------------------------
\* A client's turn

\* Mutant: a peer may take as long as it likes to send its request.
ExpiredWritesOnly ==
    "POLLHUP" \in revents \/ (outlen > 0 /\ stall = IO_TIMEOUT)

\* Mutant: once the handshake is over nothing expires.
ExpiredHandshakeOnly ==
    "POLLHUP" \in revents \/ (phase \in {"TLS", "HTTP"} /\ age = IO_TIMEOUT)

\* A hang-up, a handshake or a request that takes too long, a write that stalls
Expired ==
    \/ "POLLHUP" \in revents
    \/ phase \in {"TLS", "HTTP"} /\ age = IO_TIMEOUT
    \/ outlen > 0 /\ stall = IO_TIMEOUT

Check ==
    /\ pc = "check"
    /\ failed' = (failed \/ Expired)
    /\ pc' = IF failed' THEN "reap"
             ELSE IF phase = "TLS" /\ tls_wait \in revents THEN "accept"
             ELSE IF phase = "TLS" THEN "reap" ELSE "flush"
    /\ UNCHANGED <<revents, polled, reads, phase, waits, buffers, times, ctrl, op>>

SslAccept ==
    /\ pc = "accept"
    /\ \/ /\ phase' = "HTTP" /\ pc' = "flush"
          /\ op' = Call("accept", 0, "0")
          /\ UNCHANGED <<tls_wait, failed>>
       \/ /\ tls_wait' \in Wants /\ pc' = "reap"
          /\ op' = Call("accept", 0, tls_wait')
          /\ UNCHANGED <<phase, failed>>
       \/ /\ failed' = TRUE /\ pc' = "reap"
          /\ op' = Call("accept", 0, "0")
          /\ UNCHANGED <<phase, tls_wait>>
    /\ UNCHANGED <<revents, polled, reads, write_wait, read_wait, buffers, times, ctrl>>

MayFlush ==
    outlen > 0 /\ read_wait # "POLLOUT" /\ (write_wait = "0" \/ write_wait \in revents)

\* Mutant: a retry offers everything that has been queued since.
AttemptedAll == outlen

\* The length given to SSL_write: that of the pending attempt, if there is one
Attempted == IF write_len = 0 THEN outlen ELSE write_len

\* flush_output
Flush ==
    /\ pc = "flush" /\ MayFlush
    /\ \/ /\ outlen' = outlen - Attempted
          /\ write_len' = 0 /\ write_wait' = "0"
          /\ stall' = 0
          /\ op' = Call("write", Attempted, "0")
          /\ UNCHANGED failed
       \/ /\ write_len' = Attempted
          /\ write_wait' \in Wants
          /\ op' = Call("write", Attempted, write_wait')
          /\ UNCHANGED <<outlen, failed, stall>>
       \/ /\ write_len' = Attempted
          /\ failed' = TRUE
          /\ op' = Call("write", Attempted, "0")
          /\ UNCHANGED <<outlen, write_wait, stall>>
    /\ pc' = "flushed"
    /\ UNCHANGED <<revents, polled, reads, phase, tls_wait, read_wait, inlen, ssl_pending, age,
                   ctrl>>

SkipFlush ==
    /\ pc = "flush" /\ ~MayFlush
    /\ pc' = "flushed"
    /\ UNCHANGED <<revents, polled, reads, phase, waits, buffers, failed, times, ctrl, op>>

\* Mutant: only a readable socket is read.
MayReadSocket ==
    /\ write_len = 0 /\ phase # "CLOSING"
    /\ (IF read_wait = "0" THEN "POLLIN" ELSE read_wait) \in revents

\* A pending SSL_write goes first; decrypted input needs no readable socket.
\* main.c does not look at failed here: a write that just failed leaves write_len.
MayRead ==
    /\ write_len = 0 /\ phase # "CLOSING"
    /\ (IF read_wait = "0" THEN "POLLIN" ELSE read_wait) \in revents \/ ssl_pending

ToRead ==
    /\ pc = "flushed"
    /\ pc' = IF MayRead THEN "read" ELSE "reap"
    /\ reads' = 0
    /\ UNCHANGED <<revents, polled, phase, waits, buffers, failed, times, ctrl, op>>

InbufFull ==
    /\ pc = "read" /\ inlen = IN_MAX
    /\ failed' = TRUE
    /\ pc' = "reap"
    /\ UNCHANGED <<revents, polled, reads, phase, waits, buffers, times, ctrl, op>>

\* SSL_read returned nothing: it has to be repeated, or the connection is over.
ReadWaits ==
    /\ pc = "read" /\ inlen < IN_MAX
    /\ \/ /\ read_wait' \in Wants
          /\ op' = Call("read", 0, read_wait')
          /\ UNCHANGED failed
       \/ /\ failed' = TRUE
          /\ op' = Call("read", 0, "0")
          /\ UNCHANGED read_wait
    /\ ssl_pending' = FALSE
    /\ pc' = "reap"
    /\ UNCHANGED <<revents, polled, reads, phase, tls_wait, write_wait, inlen, outlen, write_len,
                   times, ctrl>>

\* process_client_buffer, by what the chunk just read completes
Incomplete == inlen' = inlen + 1 /\ NoOutput /\ UNCHANGED <<phase, ctrl>>
Upgrade == phase = "HTTP" /\ phase' = "WS" /\ ctrl' = TRUE /\ inlen' = 0 /\ QueueOutput
PlainRequest ==
    phase = "HTTP" /\ phase' = "CLOSING" /\ inlen' = 0 /\ QueueOutput /\ UNCHANGED ctrl
Message ==
    /\ phase = "WS" /\ inlen' = 0 /\ UNCHANGED ctrl
    /\ \/ UNCHANGED phase /\ (QueueOutput \/ NoOutput)
       \/ phase' = "CLOSING" /\ NoOutput
BadInput == phase' = "CLOSING" /\ inlen' = 0 /\ NoOutput /\ UNCHANGED ctrl

ReadChunk ==
    /\ pc = "read" /\ inlen < IN_MAX
    /\ read_wait' = "0"
    /\ op' = Call("read", 0, "0")
    /\ Incomplete \/ Upgrade \/ PlainRequest \/ Message \/ BadInput
    /\ ssl_pending' \in BOOLEAN
    /\ reads' = reads + 1
    /\ pc' = IF phase' = "CLOSING" \/ failed' \/ ~ssl_pending' \/ reads' = READS
             THEN "reap" ELSE "read"
    /\ UNCHANGED <<revents, polled, tls_wait, write_wait, write_len, age>>

\* Mutant: a closing client is closed only when it fails.
ReapableOnlyFailed == failed

Reapable == failed \/ (phase = "CLOSING" /\ outlen = 0)

\* close_client: the slot is zeroed.
Reap ==
    /\ pc = "reap" /\ Reapable
    /\ phase' = "FREE"
    /\ tls_wait' = "0" /\ write_wait' = "0" /\ read_wait' = "0"
    /\ inlen' = 0 /\ outlen' = 0 /\ write_len' = 0 /\ ssl_pending' = FALSE
    /\ failed' = FALSE
    /\ age' = 0 /\ stall' = 0 /\ ctrl' = FALSE
    /\ op' = NoCall
    /\ pc' = "poll" /\ reads' = 0
    /\ UNCHANGED <<revents, polled>>

EndTurn ==
    /\ pc = "reap" /\ ~Reapable
    /\ pc' = "poll" /\ reads' = 0
    /\ UNCHANGED <<revents, polled, phase, waits, buffers, failed, times, ctrl, op>>

----------------------------------------------------------------------------

\* Time passes while the loop waits in poll; it never blocks elsewhere.
Tick ==
    /\ pc = "poll" /\ phase # "FREE"
    /\ age < IO_TIMEOUT \/ (outlen > 0 /\ stall < IO_TIMEOUT)
    /\ age' = IF age < IO_TIMEOUT THEN age + 1 ELSE age
    /\ stall' = IF outlen > 0 /\ stall < IO_TIMEOUT THEN stall + 1 ELSE stall
    /\ UNCHANGED <<loop, phase, waits, buffers, failed, ctrl, op>>

Init ==
    /\ pc = "poll" /\ revents = {} /\ polled = FALSE /\ reads = 0
    /\ phase = "FREE"
    /\ tls_wait = "0" /\ write_wait = "0" /\ read_wait = "0"
    /\ inlen = 0 /\ outlen = 0 /\ write_len = 0 /\ ssl_pending = FALSE
    /\ failed = FALSE /\ age = 0 /\ stall = 0 /\ ctrl = FALSE
    /\ op = NoCall

Turn ==
    \/ Check \/ SslAccept \/ Flush \/ SkipFlush \/ ToRead
    \/ InbufFull \/ ReadWaits \/ ReadChunk \/ Reap \/ EndTurn
Next == Poll \/ Accept \/ MouseRpc \/ ToClients \/ Turn \/ Tick

Spec == Init /\ [][Next]_vars

\* The loop goes round, poll returning within a second.  Time passes however
\* busy the loop is, hence the strong fairness: Tick is enabled once a pass.
\* The peer, the mouse and new connections owe nothing.
FairSpec ==
    Spec /\ WF_vars(Poll) /\ WF_vars(ToClients) /\ WF_vars(Turn) /\ SF_vars(Tick)

----------------------------------------------------------------------------
\* Properties

\* The counters stay within their buffers, and a pending write never claims
\* more than is queued.
TypeOK ==
    /\ pc \in {"poll", "main", "check", "accept", "flush", "flushed", "read", "reap"}
    /\ phase \in {"FREE", "TLS", "HTTP", "WS", "CLOSING"}
    /\ revents \subseteq Wants \cup {"POLLHUP"} /\ polled \in BOOLEAN
    /\ {tls_wait, write_wait, read_wait} \subseteq Wants \cup {"0"}
    /\ inlen \in 0..IN_MAX /\ outlen \in 0..OUT_MAX /\ write_len \in 0..outlen
    /\ ssl_pending \in BOOLEAN /\ failed \in BOOLEAN
    /\ reads \in 0..READS
    /\ age \in 0..IO_TIMEOUT /\ stall \in 0..IO_TIMEOUT
    /\ ctrl \in BOOLEAN

\* The loop never goes to sleep on a connection it has asked nothing about: one
\* in use waits for its socket, with output if it is closing, and a pending
\* write is polled for what OpenSSL wants.
NeverPolledBlind ==
    pc = "poll" /\ phase # "FREE" =>
        /\ Interest # {} /\ Interest \subseteq Wants
        /\ ~failed
        /\ write_len > 0 => Interest = {write_wait}

\* "A pending SSL_write must be retried before another TLS operation" (main.c),
\* with the same length, however much was queued since; and a handshake, or a
\* read that wants to write, is retried before anything else is tried.
RetriesAreExact ==
    [][op' # op /\ phase' # "FREE" =>
         /\ op.name = "write" /\ op.want # "0" => op'.name = "write" /\ op'.len = op.len
         /\ op.name = "read" /\ op.want = "POLLOUT" => op'.name = "read"
         /\ op.name = "accept" /\ op.want # "0" => op'.name = "accept"]_vars

\* A peer that connects and says nothing, or half a request, is got rid of, so
\* that MAX_CLIENTS silent peers do not keep everyone else out.
HandshakeEnds == phase \in {"TLS", "HTTP"} ~> phase \notin {"TLS", "HTTP"}

\* A pending write blocks all reading; the peer may be waiting for just that.
\* The wait on each other ends.
PendingWriteEnds == write_len > 0 ~> write_len = 0

\* A closing connection gives its slot back.  One that never became a WebSocket
\* does so whatever its peer does.  One that did still has its controller, and
\* each completed write restarts the timer: it can stay for ever, but only if the
\* controller goes on asking and the peer goes on taking what it is sent.
ClosingEnds ==
    /\ (phase = "CLOSING" /\ ~ctrl) ~> phase = "FREE"
    /\ <>[](phase = "CLOSING") =>
         []<><<MouseRpc>>_vars /\ []<><<Flush /\ outlen' < outlen>>_vars

\* Input that OpenSSL has already decrypted, for which the socket will never be
\* readable again, is not left behind when the loop goes back to sleep; only a
\* closing connection reads no more.
DecryptedInputIsRead ==
    (ssl_pending /\ pc = "poll" /\ phase # "CLOSING") ~> (pc = "read" \/ ~ssl_pending)
=============================================================================
