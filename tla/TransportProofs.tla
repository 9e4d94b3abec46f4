-------------------------- MODULE TransportProofs ---------------------------
(***************************************************************************)
(* Proofs about Transport, for buffers, passes and timeouts of any size.   *)
(***************************************************************************)
EXTENDS Transport, TLAPS

\* A free slot is as close_client left it; one that shakes hands has neither
\* output nor a read to repeat; only a WebSocket has a controller.
SlotFitsPhase ==
    /\ phase = "FREE" => pc \in {"poll", "main"} /\ op = NoCall /\ ~failed
    /\ phase = "TLS" => tls_wait \in Wants /\ op.name \in {"none", "accept"}
    /\ phase \in {"FREE", "TLS"} => outlen = 0 /\ read_wait = "0"
    /\ ctrl => phase \in {"WS", "CLOSING"}

\* Where the loop is in its pass, and what got it there
PassFits ==
    /\ pc = "main" => (polled => phase # "FREE")
                      /\ (~polled => phase \in {"FREE", "TLS"} /\ ~failed)
    /\ pc = "accept" => phase = "TLS"
    /\ pc \in {"flush", "flushed", "read"} => phase # "TLS"
    /\ pc = "read" => write_len = 0 /\ reads < READS
    /\ pc = "poll" => ~failed /\ (phase = "CLOSING" => outlen > 0)

\* What is to be repeated is what was called last.
LastCallFits ==
    /\ op \in [name : {"none", "accept", "write", "read"}, len : 0..OUT_MAX, want : Wants \cup {"0"}]
    /\ write_len > 0 => write_wait \in Wants \/ failed
    /\ op.name = "write" /\ op.want # "0" => write_len > 0 /\ write_len = op.len
    /\ op.name = "read" /\ op.want = "POLLOUT" => read_wait = "POLLOUT"
    /\ op.name = "accept" /\ op.want # "0" => phase = "TLS"

IInv == TypeOK /\ SlotFitsPhase /\ PassFits /\ LastCallFits

----------------------------------------------------------------------------

\* The sizes of the buffers and the rest, one by one
LEMMA Sizes ==
    /\ OUT_MAX \in Nat /\ OUT_MAX > 0 /\ IN_MAX \in Nat /\ IN_MAX > 0
    /\ READS \in Nat /\ READS > 0 /\ IO_TIMEOUT \in Nat /\ IO_TIMEOUT > 0
<1>1. OUT_MAX \in Nat \ {0} /\ IN_MAX \in Nat \ {0} /\ READS \in Nat \ {0}
      /\ IO_TIMEOUT \in Nat \ {0}
  BY TransportAssumption
<1> QED BY <1>1

\* A counter set to zero is within its bounds.
LEMMA ZeroFits ==
    /\ 0 \in 0..OUT_MAX /\ 0 \in 0..IN_MAX /\ 0 \in 0..READS /\ 0 \in 0..IO_TIMEOUT
    /\ 0 \in 0..0
BY Sizes

\* A slot that is kept after its turn is polled for something.
LEMMA KeptIsPolled ==
    ASSUME IInv, phase # "FREE", ~failed, phase = "CLOSING" => outlen > 0
    PROVE  /\ Interest # {} /\ Interest \subseteq Wants
           /\ write_len > 0 => Interest = {write_wait}
<1> USE Sizes DEF IInv, TypeOK
<1>1. CASE phase = "TLS"
  BY <1>1 DEF Interest, SlotFitsPhase, Wants
<1>2. CASE phase # "TLS" /\ write_len > 0
  BY <1>2 DEF Interest, LastCallFits
<1>3. CASE phase # "TLS" /\ ~(write_len > 0)
  <2>1. read_wait \in Wants \cup {"0"}
    OBVIOUS
  <2> QED BY <1>3, <2>1 DEF Interest, Wants
<1> QED BY <1>1, <1>2, <1>3

\* queue_output adds to what is queued, or marks the connection as failed.
LEMMA QueueOutputAdds ==
    ASSUME TypeOK, QueueOutput \/ NoOutput
    PROVE  /\ outlen' \in 0..OUT_MAX /\ outlen' >= outlen
           /\ stall' \in 0..IO_TIMEOUT /\ failed' \in BOOLEAN
           /\ failed => failed'
<1> USE Sizes DEF TypeOK
<1>1. outlen \in 0..OUT_MAX /\ stall \in 0..IO_TIMEOUT /\ failed \in BOOLEAN
  OBVIOUS
<1>2. CASE QueueOutput /\ ~failed /\ outlen < OUT_MAX
  <2>1. outlen' = outlen + 1 /\ stall' \in {0, stall} /\ failed' = failed
    BY <1>2 DEF QueueOutput
  <2>2. outlen + 1 \in 0..OUT_MAX /\ 0 \in 0..IO_TIMEOUT
    BY <1>1, <1>2
  <2> QED BY <1>1, <1>2, <2>1, <2>2
<1>3. CASE outlen' = outlen /\ stall' = stall /\ (failed' = TRUE \/ failed' = failed)
  <2>1. outlen' \in 0..OUT_MAX /\ outlen' >= outlen /\ stall' \in 0..IO_TIMEOUT
    BY <1>1, <1>3
  <2>2. failed' \in BOOLEAN /\ (failed => failed')
    BY <1>1, <1>3
  <2> QED BY <2>1, <2>2
<1>4. CASE QueueOutput /\ ~(~failed /\ outlen < OUT_MAX)
  <2>1. outlen' = outlen /\ stall' = stall /\ (failed' = TRUE \/ failed' = failed)
    BY <1>4 DEF QueueOutput
  <2> QED BY <1>3, <2>1
<1>5. CASE NoOutput
  <2>1. outlen' = outlen /\ stall' = stall /\ failed' = failed
    BY <1>5 DEF NoOutput
  <2> QED BY <1>3, <2>1
<1> QED BY <1>2, <1>4, <1>5

\* What happens between the turns: the poll, the listener, the mouse, the clock
LEMMA OutsidePreserves == IInv /\ (Poll \/ Accept \/ MouseRpc \/ ToClients \/ Tick) => IInv'
<1> SUFFICES ASSUME IInv, Poll \/ Accept \/ MouseRpc \/ ToClients \/ Tick PROVE IInv'
  OBVIOUS
<1> USE Sizes DEF IInv, loop, waits, buffers, times
<1>1. CASE Poll
  <2>1. phase # "FREE" => Interest \subseteq Wants
    BY <1>1, KeptIsPolled DEF Poll, PassFits
  <2>2. TypeOK'
    BY <1>1, <2>1 DEF Poll, TypeOK
  <2> QED BY <1>1, <2>2 DEF Poll, SlotFitsPhase, PassFits, LastCallFits
<1>2. CASE Accept
  <2>1. TypeOK'
    BY <1>2 DEF Accept, TypeOK, Wants
  <2> QED BY <1>2, <2>1 DEF Accept, SlotFitsPhase, PassFits, LastCallFits, NoCall, Call, Wants
<1>3. CASE MouseRpc
  <2>1. /\ outlen' \in 0..OUT_MAX /\ outlen' >= outlen
        /\ stall' \in 0..IO_TIMEOUT /\ failed' \in BOOLEAN /\ (failed => failed')
    BY <1>3, QueueOutputAdds DEF MouseRpc
  <2>2. TypeOK'
    BY <1>3, <2>1 DEF MouseRpc, TypeOK
  <2> QED BY <1>3, <2>1, <2>2 DEF MouseRpc, SlotFitsPhase, PassFits, LastCallFits
<1>4. CASE ToClients
  <2>1. TypeOK'
    BY <1>4 DEF ToClients, TypeOK
  <2> QED BY <1>4, <2>1 DEF ToClients, SlotFitsPhase, PassFits, LastCallFits
<1>5. CASE Tick
  <2>1. TypeOK'
    BY <1>5 DEF Tick, TypeOK
  <2> QED BY <1>5, <2>1 DEF Tick, SlotFitsPhase, PassFits, LastCallFits
<1> QED BY <1>1, <1>2, <1>3, <1>4, <1>5

\* The checks and the handshake
LEMMA HandshakePreserves == IInv /\ (Check \/ SslAccept) => IInv'
<1> SUFFICES ASSUME IInv, Check \/ SslAccept PROVE IInv'
  OBVIOUS
<1> USE Sizes DEF IInv, loop, waits, buffers, times
<1>1. CASE Check
  <2>1. TypeOK'
    BY <1>1 DEF Check, TypeOK, Expired
  <2> QED BY <1>1, <2>1 DEF Check, SlotFitsPhase, PassFits, LastCallFits
<1>2. CASE SslAccept
  <2>1. TypeOK'
    BY <1>2 DEF SslAccept, TypeOK
  <2>2. LastCallFits'
    BY <1>2, <2>1 DEF SslAccept, LastCallFits, Call, PassFits, TypeOK
  <2> QED BY <1>2, <2>1, <2>2 DEF SslAccept, SlotFitsPhase, PassFits, Call, TypeOK
<1> QED BY <1>1, <1>2

\* What SSL_write is offered is what it was offered before, or all there is.
LEMMA AttemptFits ==
    ASSUME IInv, MayFlush
    PROVE  Attempted \in 1..outlen /\ (write_len > 0 => Attempted = write_len)
BY Sizes DEF IInv, TypeOK, MayFlush, Attempted

\* Writing
LEMMA FlushPreserves == IInv /\ (Flush \/ SkipFlush) => IInv'
<1> SUFFICES ASSUME IInv, Flush \/ SkipFlush PROVE IInv'
  OBVIOUS
<1> USE Sizes DEF IInv, loop, waits, buffers, times
<1>1. CASE Flush
  <2> USE <1>1 DEF Flush
  <2>1. Attempted \in 1..outlen /\ outlen \in 0..OUT_MAX
    BY AttemptFits DEF TypeOK
  <2> HIDE DEF Attempted
  <2>2. TypeOK'
    <3>1. outlen - Attempted \in 0..OUT_MAX /\ 0 \in 0..IO_TIMEOUT
      BY <2>1
    <3>2. outlen' \in 0..OUT_MAX /\ stall' \in 0..IO_TIMEOUT
      BY <3>1 DEF TypeOK
    <3>3. write_len' \in 0..outlen'
      <4>1. CASE outlen' = outlen - Attempted /\ write_len' = 0
        BY <4>1, <3>1
      <4>2. CASE outlen' = outlen /\ write_len' = Attempted
        BY <4>2, <2>1
      <4> QED BY <4>1, <4>2
    <3>4. {tls_wait', write_wait', read_wait'} \subseteq Wants \cup {"0"} /\ failed' \in BOOLEAN
      BY DEF TypeOK
    <3> QED BY <3>2, <3>3, <3>4 DEF TypeOK
  <2>3. LastCallFits'
    <3>1. op' \in [name : {"none", "accept", "write", "read"}, len : 0..OUT_MAX, want : Wants \cup {"0"}]
      BY <2>1 DEF Call
    <3>2. op'.name = "write" /\ (op'.want # "0" => write_len' > 0 /\ write_len' = op'.len)
      BY <2>1 DEF Call, Wants
    <3>3. write_len' > 0 => write_wait' \in Wants \/ failed'
      BY <2>1
    <3> QED BY <3>1, <3>2, <3>3 DEF LastCallFits
  <2>4. SlotFitsPhase' /\ PassFits'
    BY DEF SlotFitsPhase, PassFits
  <2> QED BY <2>2, <2>3, <2>4
<1>2. CASE SkipFlush
  <2>1. TypeOK'
    BY <1>2 DEF SkipFlush, TypeOK
  <2> QED BY <1>2, <2>1 DEF SkipFlush, SlotFitsPhase, PassFits, LastCallFits
<1> QED BY <1>1, <1>2

\* Reading
LEMMA ReadPreserves == IInv /\ (ToRead \/ InbufFull \/ ReadWaits \/ ReadChunk) => IInv'
<1> SUFFICES ASSUME IInv, ToRead \/ InbufFull \/ ReadWaits \/ ReadChunk PROVE IInv'
  OBVIOUS
<1> USE Sizes DEF IInv, loop, waits, buffers, times
<1>1. CASE ToRead
  <2>1. TypeOK'
    BY <1>1 DEF ToRead, TypeOK
  <2> QED BY <1>1, <2>1 DEF ToRead, MayRead, SlotFitsPhase, PassFits, LastCallFits
<1>2. CASE InbufFull
  <2>1. TypeOK'
    BY <1>2 DEF InbufFull, TypeOK
  <2> QED BY <1>2, <2>1 DEF InbufFull, SlotFitsPhase, PassFits, LastCallFits
<1>3. CASE ReadWaits
  <2>1. TypeOK'
    BY <1>3 DEF ReadWaits, TypeOK
  <2>2. LastCallFits'
    BY <1>3 DEF ReadWaits, LastCallFits, PassFits, Call, Wants
  <2> QED BY <1>3, <2>1, <2>2 DEF ReadWaits, SlotFitsPhase, PassFits
<1>4. CASE ReadChunk
  <2> USE <1>4 DEF ReadChunk
  <2>1. /\ outlen' \in 0..OUT_MAX /\ outlen' >= outlen
        /\ stall' \in 0..IO_TIMEOUT /\ failed' \in BOOLEAN /\ (failed => failed')
    BY QueueOutputAdds DEF Incomplete, Upgrade, PlainRequest, Message, BadInput
  <2>2. phase' \in {"HTTP", "WS", "CLOSING"} /\ inlen' \in 0..IN_MAX
    BY DEF Incomplete, Upgrade, PlainRequest, Message, BadInput, TypeOK, PassFits, SlotFitsPhase
  <2>c. ctrl' \in BOOLEAN /\ (ctrl' => phase' \in {"WS", "CLOSING"})
    <3>1. \/ UNCHANGED ctrl /\ (phase' = phase \/ phase' = "CLOSING")
          \/ ctrl' = TRUE /\ phase' = "WS"
      BY DEF Incomplete, Upgrade, PlainRequest, Message, BadInput
    <3>2. ctrl \in BOOLEAN /\ (ctrl => phase \in {"WS", "CLOSING"})
      BY DEF TypeOK, SlotFitsPhase
    <3>3. CASE UNCHANGED ctrl /\ (phase' = phase \/ phase' = "CLOSING")
      BY <3>2, <3>3
    <3>4. CASE ctrl' = TRUE /\ phase' = "WS"
      BY <3>4
    <3> QED BY <3>1, <3>3, <3>4
  <2>3. TypeOK'
    BY <2>1, <2>2, <2>c DEF TypeOK, PassFits
  <2>4. LastCallFits'
    BY DEF LastCallFits, PassFits, Call
  <2>5. SlotFitsPhase'
    BY <2>2, <2>c DEF SlotFitsPhase
  <2>6. PassFits'
    BY <2>2 DEF PassFits, TypeOK
  <2> QED BY <2>3, <2>4, <2>5, <2>6
<1> QED BY <1>1, <1>2, <1>3, <1>4

\* The end of a turn
LEMMA EndPreserves == IInv /\ (Reap \/ EndTurn) => IInv'
<1> SUFFICES ASSUME IInv, Reap \/ EndTurn PROVE IInv'
  OBVIOUS
<1> USE Sizes DEF IInv, loop, waits, buffers, times
<1>1. CASE Reap
  <2>1. TypeOK'
    BY <1>1, ZeroFits DEF Reap, TypeOK
  <2> QED BY <1>1, <2>1, ZeroFits DEF Reap, SlotFitsPhase, PassFits, LastCallFits, NoCall, Call
<1>2. CASE EndTurn
  <2>1. TypeOK'
    BY <1>2 DEF EndTurn, TypeOK
  <2> QED BY <1>2, <2>1 DEF EndTurn, Reapable, SlotFitsPhase, PassFits, LastCallFits, TypeOK
<1> QED BY <1>1, <1>2

\* A table entry starts out zeroed.
LEMMA InitEstablishes == Init => IInv
<1> SUFFICES ASSUME Init PROVE IInv
  OBVIOUS
<1> USE DEF Init
<1>1. write_len \in 0..outlen /\ {tls_wait, write_wait, read_wait} \subseteq Wants \cup {"0"}
  BY ZeroFits
<1>2. TypeOK
  BY <1>1, ZeroFits DEF TypeOK
<1>3. SlotFitsPhase /\ PassFits
  BY DEF SlotFitsPhase, PassFits, NoCall, Call
<1>4. LastCallFits
  <2>1. op = [name |-> "none", len |-> 0, want |-> "0"] /\ write_len = 0
    BY DEF NoCall, Call
  <2> QED BY <2>1, ZeroFits DEF LastCallFits
<1> QED BY <1>2, <1>3, <1>4 DEF IInv

\* One step of a slot preserves what its fields say together.
LEMMA NextPreserves == IInv /\ [Next]_vars => IInv'
<1> SUFFICES ASSUME IInv, [Next]_vars PROVE IInv'
  OBVIOUS
<1>1. CASE UNCHANGED vars
  BY <1>1 DEF vars, loop, waits, buffers, times, IInv, TypeOK, SlotFitsPhase, PassFits, LastCallFits
<1> QED BY <1>1, OutsidePreserves, HandshakePreserves, FlushPreserves, ReadPreserves, EndPreserves
     DEF Next, Turn

\* Every reachable state of a slot and its pass satisfies IInv: the counters
\* stay within the buffers of client_t whatever the sizes are.
THEOREM Inductive == Spec => []IInv
BY InitEstablishes, NextPreserves, PTL DEF Spec

\* outbuf, inbuf and the passes over them are never overrun, and write_len
\* never claims more than is queued.
THEOREM CountersFit == Spec => []TypeOK
<1>1. IInv => TypeOK
  BY DEF IInv
<1> QED BY <1>1, Inductive, PTL

\* The loop never sleeps on a connection it asked nothing about.
THEOREM LoopPollsEverySlot == Spec => []NeverPolledBlind
<1>1. IInv => NeverPolledBlind
  BY KeptIsPolled DEF IInv, PassFits, NeverPolledBlind
<1> QED BY <1>1, Inductive, PTL

\* Only the call that OpenSSL wants repeated follows, with the same length.
LEMMA CallsAreRetried ==
    ASSUME IInv, [Next]_vars, op' # op, phase' # "FREE"
    PROVE  /\ op.name = "write" /\ op.want # "0" => op'.name = "write" /\ op'.len = op.len
           /\ op.name = "read" /\ op.want = "POLLOUT" => op'.name = "read"
           /\ op.name = "accept" /\ op.want # "0" => op'.name = "accept"
<1> USE DEF IInv
<1>1. CASE SslAccept
  BY <1>1 DEF SslAccept, Call, PassFits, SlotFitsPhase, LastCallFits
<1>2. CASE Flush
  <2>1. op'.name = "write" /\ op'.len = Attempted /\ MayFlush /\ pc = "flush"
    BY <1>2 DEF Flush, Call
  <2>2. write_len > 0 => Attempted = write_len
    BY <2>1, AttemptFits
  <2> QED BY <2>1, <2>2 DEF MayFlush, LastCallFits, PassFits
<1>3. CASE ReadWaits \/ ReadChunk
  <2>1. op'.name = "read" /\ pc = "read"
    BY <1>3 DEF ReadWaits, ReadChunk, Call
  <2> QED BY <2>1 DEF LastCallFits, PassFits
<1>4. CASE Reap
  BY <1>4 DEF Reap
<1> QED
  BY <1>1, <1>2, <1>3, <1>4
  DEF Next, Turn, vars, Poll, Accept, MouseRpc, ToClients, Check, SkipFlush, ToRead, InbufFull,
      EndTurn, Tick

\* A pending SSL_write is retried before any other TLS operation.
THEOREM PendingCallsComeFirst == Spec => RetriesAreExact
<1> DEFINE Retried ==
      op' # op /\ phase' # "FREE" =>
         /\ op.name = "write" /\ op.want # "0" => op'.name = "write" /\ op'.len = op.len
         /\ op.name = "read" /\ op.want = "POLLOUT" => op'.name = "read"
         /\ op.name = "accept" /\ op.want # "0" => op'.name = "accept"
<1>1. IInv /\ [Next]_vars => [Retried]_vars
  BY CallsAreRetried
<1>2. Spec => [][Retried]_vars
  BY <1>1, Inductive, PTL DEF Spec
<1> QED BY <1>2 DEF RetriesAreExact
=============================================================================
