---------------------------- MODULE BridgeProofs ----------------------------
(***************************************************************************)
(* Proofs about Bridge, for any number of slots, connections and events.   *)
(***************************************************************************)
EXTENDS Bridge, TLAPS, SequenceTheorems, WellFoundedInduction

Client == [fd : Conns \cup {None}, phase : {"FREE", "TLS", "WS", "CLOSING"}, ctrl : BOOLEAN]

Types ==
    /\ pc \in {"top", "poll", "listener", "mouse", "clients", "stop", "done"}
    /\ clients \in [Slots -> Client]
    /\ DOMAIN pfds \subseteq Slots
    /\ pfds \in [DOMAIN pfds -> [fd : Conns, hup : BOOLEAN]]
    /\ descriptors \subseteq Conns
    /\ peer \in [Conns -> {"away", "connected", "gone"}]
    /\ backlog \in Seq(Conns)
    /\ drained \in Nat
    /\ heard \in [Conns -> Seq(Nat)] /\ since \in [Conns -> 0..drained]

\* What a slot's fields say together: a free one has no descriptor, only an
\* upgraded one has a controller.
SlotsAgree ==
    \A s \in Slots :
        /\ clients[s].fd = None => clients[s] = Unused
        /\ clients[s].phase = "FREE" => clients[s] = Unused
        /\ clients[s].phase = "TLS" => ~clients[s].ctrl
        /\ clients[s].phase = "WS" => clients[s].ctrl

\* Who waits to be accepted waits once, and holds no descriptor yet; the listener
\* is looked at only when somebody waits.
Callers ==
    /\ pc = "listener" => backlog # <<>>
    /\ \A i, j \in 1..Len(backlog) : backlog[i] = backlog[j] => i = j
    /\ \A i \in 1..Len(backlog) : backlog[i] \notin descriptors /\ peer[backlog[i]] # "away"
    /\ \A c \in descriptors : peer[c] # "away"

\* The poll set, as long as it is in use, names slots in use, by their descriptors.
PollSetFits ==
    pc \in {"poll", "listener", "mouse", "clients"} =>
        \A s \in DOMAIN pfds : Used(s) /\ clients[s].fd = pfds[s].fd

\* The events on the socket are those behind the last one read, and the loop reads
\* them on an open connection.
QueueFits ==
    /\ pc # "done" => connected
    /\ queue \in Seq(Nat)
    /\ \A i \in 1..Len(queue) : queue[i] = drained + i

\* Who has no controller has been handed nothing.
OnlyControllersHear ==
    \A c \in Conns : heard[c] # <<>> => \E s \in Slots : clients[s].fd = c /\ clients[s].ctrl

IInv ==
    /\ Types /\ SlotsAgree /\ Callers
    /\ DescriptorsAccounted
    /\ PollSetFits
    /\ QueueFits /\ OnlyControllersHear /\ EveryoneHears

----------------------------------------------------------------------------

\* find_free_slot and the turns take the first slot: what Least chooses is one of
\* those it chooses from.
LEMMA LeastIsMember ==
    ASSUME NEW S \in SUBSET Nat, S # {}
    PROVE  Least(S) \in S /\ \A t \in S : Least(S) <= t
<1> DEFINE Below == {p \in Nat \X Nat : p[1] < p[2]}
<1>1. IsWellFoundedOn(Below, Nat)
  BY NatLessThanWellFounded DEF OpToRel
<1>2. PICK m \in S : \A t \in S : <<t, m>> \notin Below
  <2> HIDE DEF Below
  <2> QED BY <1>1, WFMin
<1>3. \A t \in S : m <= t
  <2> SUFFICES ASSUME NEW t \in S PROVE m <= t
    OBVIOUS
  <2>1. m \in Nat /\ t \in Nat
    OBVIOUS
  <2>2. ~(t < m)
    BY <1>2, <2>1
  <2> QED BY <2>1, <2>2
<1> QED BY <1>2, <1>3 DEF Least

\* accept takes the first of the backlog, and the rest stay as they were.
LEMMA HeadAndRest ==
    ASSUME NEW S, NEW q \in Seq(S), q # <<>>
    PROVE  /\ Len(q) \in Nat \ {0} /\ Head(q) = q[1] /\ q[1] \in S
           /\ Tail(q) \in Seq(S) /\ Len(Tail(q)) = Len(q) - 1
           /\ \A i \in 1..Len(Tail(q)) : i + 1 \in 1..Len(q) /\ Tail(q)[i] = q[i + 1]
<1>1. Len(q) \in Nat \ {0}
  BY EmptySeq
<1>2. Head(q) = q[1] /\ q[1] \in S
  BY <1>1, ElementOfSeq
<1>3. Tail(q) \in Seq(S) /\ Len(Tail(q)) = Len(q) - 1
      /\ \A i \in 1..Len(Tail(q)) : Tail(q)[i] = q[i + 1]
  BY HeadTailProperties
<1> QED BY <1>1, <1>2, <1>3

\* A client is handed one event more.
LEMMA AppendAddsOne ==
    ASSUME NEW q \in Seq(Nat), NEW e \in Nat
    PROVE  ToSet(Append(q, e)) = ToSet(q) \cup {e}
<1>1. /\ Append(q, e) \in Seq(Nat) /\ Len(Append(q, e)) = Len(q) + 1
      /\ \A i \in 1..Len(q) : Append(q, e)[i] = q[i]
      /\ Append(q, e)[Len(q) + 1] = e
  BY AppendProperties
<1>2. /\ DOMAIN q = 1..Len(q) /\ Len(q) \in Nat
      /\ DOMAIN Append(q, e) = 1..Len(Append(q, e))
  BY <1>1, LenProperties
<1>3. ASSUME NEW x \in ToSet(Append(q, e)) PROVE x \in ToSet(q) \cup {e}
  <2>1. PICK i \in 1..(Len(q) + 1) : x = Append(q, e)[i]
    BY <1>1, <1>2 DEF ToSet
  <2>2. CASE i = Len(q) + 1
    BY <1>1, <2>1, <2>2
  <2>3. CASE i # Len(q) + 1
    BY <1>1, <1>2, <2>1, <2>3 DEF ToSet
  <2> QED BY <2>2, <2>3
<1>4. ASSUME NEW x \in ToSet(q) \cup {e} PROVE x \in ToSet(Append(q, e))
  <2>1. CASE x = e
    BY <1>1, <1>2, <2>1 DEF ToSet
  <2>2. CASE x \in ToSet(q)
    <3>1. PICK i \in 1..Len(q) : x = q[i]
      BY <1>2, <2>2 DEF ToSet
    <3> QED BY <1>1, <1>2, <3>1 DEF ToSet
  <2> QED BY <2>1, <2>2
<1> QED BY <1>3, <1>4

----------------------------------------------------------------------------

\* A slot in use holds a descriptor the process has open, a slot with a controller
\* is in use, and no two hold the same.
LEMMA UsedSlots ==
    ASSUME IInv, NEW s \in Slots
    PROVE  /\ Used(s) => clients[s].fd \in descriptors /\ clients[s].fd \in Conns
                         /\ clients[s].fd # None /\ clients[s].phase # "FREE"
           /\ ~Used(s) => clients[s].fd = None /\ ~clients[s].ctrl
           /\ clients[s].ctrl => Used(s)
           /\ \A t \in Slots : Used(s) /\ clients[t].fd = clients[s].fd => t = s
<1> USE BridgeAssumption
<1>1. clients[s] \in Client
  BY DEF IInv, Types
<1>2. Used(s) => clients[s].fd # None /\ clients[s].phase # "FREE"
  BY DEF IInv, SlotsAgree, Used
<1>3. Used(s) => clients[s].fd \in descriptors
  BY DEF IInv, DescriptorsAccounted
<1>4. ~Used(s) => clients[s].fd = None /\ ~clients[s].ctrl
  BY DEF Used, Unused
<1>5. \A t \in Slots : Used(s) /\ clients[t].fd = clients[s].fd => t = s
  BY DEF IInv, DescriptorsAccounted
<1> QED BY <1>1, <1>2, <1>3, <1>4, <1>5 DEF Client

\* The bridge starts with an empty table and nobody in it.
LEMMA InitEstablishes == Init => IInv
<1> SUFFICES ASSUME Init PROVE IInv
  OBVIOUS
<1> USE BridgeAssumption DEF Init
<1>1. \A s \in Slots : clients[s] = Unused
  OBVIOUS
<1>2. \A c \in Conns : heard[c] = <<>> /\ since[c] = 0 /\ peer[c] = "away"
  OBVIOUS
<1>3. Types
  BY DEF Types, Client, Unused
<1>4. SlotsAgree
  BY <1>1 DEF SlotsAgree, Unused
<1>5. Callers
  BY DEF Callers
<1>6. DescriptorsAccounted
  BY <1>1 DEF DescriptorsAccounted, Used
<1>7. PollSetFits /\ QueueFits
  BY DEF PollSetFits, QueueFits
<1>8. OnlyControllersHear /\ EveryoneHears
  BY <1>1, <1>2 DEF OnlyControllersHear, EveryoneHears, Unused
<1> QED BY <1>3, <1>4, <1>5, <1>6, <1>7, <1>8 DEF IInv

\* What EveryoneHears says of the controller on one descriptor
Hears(c) ==
    /\ ToSet(heard[c]) = {e \in (since[c] + 1)..drained : Wanted(e)}
    /\ \A i, j \in DOMAIN heard[c] : i < j => heard[c][i] < heard[c][j]

\* A controller that is handed nothing while nothing is read is still up to date.
LEMMA HearsKept ==
    ASSUME NEW c, Hears(c), heard'[c] = heard[c], since'[c] = since[c], drained' = drained
    PROVE  Hears(c)'
BY DEF Hears, Wanted, ToSet

\* Whom EveryoneHears speaks of
LEMMA EveryoneHearsEach ==
    EveryoneHears <=> \A s \in Slots : clients[s].ctrl => \A c : c = clients[s].fd => Hears(c)
BY DEF EveryoneHears, Hears

\* A step that leaves the table, and what was read and handed on, alone keeps what
\* is said of them.
LEMMA TableUntouched ==
    ASSUME IInv, UNCHANGED <<clients, descriptors, history>>
    PROVE  SlotsAgree' /\ DescriptorsAccounted' /\ OnlyControllersHear' /\ EveryoneHears'
<1> USE DEF IInv, history
<1>1. SlotsAgree'
  BY DEF SlotsAgree, Unused
<1>2. DescriptorsAccounted'
  BY DEF DescriptorsAccounted, Used, Unused
<1>3. OnlyControllersHear'
  BY DEF OnlyControllersHear
<1>4. EveryoneHears'
  BY DEF EveryoneHears, Wanted, ToSet
<1> QED BY <1>1, <1>2, <1>3, <1>4

\* Neither a peer nor spacenavd touches the table; who knocks was away.
LEMMA WorldPreserves == IInv /\ World => IInv'
<1> SUFFICES ASSUME IInv, World PROVE IInv'
  OBVIOUS
<1> USE BridgeAssumption DEF IInv
<1>1. ASSUME NEW c \in Conns, Knock(c) PROVE IInv'
  <2> USE <1>1 DEF Knock
  <2>1. /\ Append(backlog, c) \in Seq(Conns) /\ Len(backlog) \in Nat
        /\ Len(Append(backlog, c)) = Len(backlog) + 1
        /\ \A i \in 1..Len(backlog) : Append(backlog, c)[i] = backlog[i]
        /\ Append(backlog, c)[Len(backlog) + 1] = c
    BY AppendProperties, LenProperties DEF Types
  <2>2. \A i \in 1..Len(backlog) : backlog[i] # c
    BY DEF Callers
  <2>3. c \notin descriptors
    BY DEF Callers
  <2>4. Types'
    BY <2>1 DEF Types, history
  <2>5. Callers'
    <3> USE DEF Callers, Types
    <3>1. \A i \in 1..Len(backlog') : backlog'[i] = IF i = Len(backlog) + 1 THEN c ELSE backlog[i]
      BY <2>1
    <3>2. \A i \in 1..Len(backlog') : i # Len(backlog) + 1 => i \in 1..Len(backlog)
      BY <2>1
    <3>3. (\A i, j \in 1..Len(backlog) : backlog[i] = backlog[j] => i = j)'
      BY <2>2, <3>1, <3>2
    <3>4. (\A i \in 1..Len(backlog) : backlog[i] \notin descriptors /\ peer[backlog[i]] # "away")'
      BY <2>1, <2>3, <3>1, <3>2, ElementOfSeq
    <3>5. (\A d \in descriptors : peer[d] # "away")'
      OBVIOUS
    <3> QED BY <3>3, <3>4, <3>5
  <2>6. PollSetFits' /\ QueueFits'
    BY DEF PollSetFits, QueueFits, Used, Unused, mouse, history
  <2> QED BY <2>4, <2>5, <2>6, TableUntouched
<1>2. ASSUME NEW c \in Conns, HangUp(c) PROVE IInv'
  <2> USE <1>2 DEF HangUp, mouse, history
  <2>1. Types' /\ Callers'
    BY DEF Types, Callers
  <2>2. PollSetFits' /\ QueueFits'
    BY DEF PollSetFits, QueueFits, Used, Unused
  <2> QED BY <2>1, <2>2, TableUntouched
<1>3. CASE Moves
  <2> USE <1>3 DEF Moves
  <2>1. QueueFits'
    <3> DEFINE e == drained + Len(queue) + 1
    <3>1. queue \in Seq(Nat) /\ Len(queue) \in Nat /\ e \in Nat
      BY LenProperties DEF QueueFits, Types
    <3>2. /\ queue' \in Seq(Nat) /\ Len(queue') = Len(queue) + 1
          /\ \A i \in 1..Len(queue) : queue'[i] = queue[i]
          /\ queue'[Len(queue) + 1] = e
      <4> HIDE DEF e
      <4>1. queue' = Append(queue, e)
        BY DEF e
      <4> QED BY <3>1, <4>1, AppendProperties
    <3>3. drained' = drained /\ drained \in Nat
      BY DEF history, Types
    <3>4. \A i \in 1..Len(queue') : queue'[i] = drained' + i
      <4> SUFFICES ASSUME NEW i \in 1..Len(queue') PROVE queue'[i] = drained + i
        BY <3>3
      <4>1. CASE i = Len(queue) + 1
        BY <3>1, <3>2, <3>3, <4>1
      <4>2. CASE i # Len(queue) + 1
        BY <3>1, <3>2, <3>3, <4>2 DEF QueueFits
      <4> QED BY <4>1, <4>2
    <3> QED BY <3>2, <3>4 DEF QueueFits
  <2>2. Types' /\ Callers'
    BY DEF Types, Callers, world, history
  <2>3. PollSetFits'
    BY DEF PollSetFits, Used, Unused
  <2> QED BY <2>1, <2>2, <2>3, TableUntouched
<1>4. CASE Lose
  <2> USE <1>4 DEF Lose, mouse, world, history
  <2>1. Types' /\ Callers'
    BY DEF Types, Callers
  <2>2. PollSetFits' /\ QueueFits'
    BY DEF PollSetFits, QueueFits, Used, Unused
  <2> QED BY <2>1, <2>2, TableUntouched
<1>5. CASE Signal
  <2> USE <1>5 DEF Signal, mouse, world, history
  <2>1. Types' /\ Callers'
    BY DEF Types, Callers
  <2>2. PollSetFits' /\ QueueFits'
    BY DEF PollSetFits, QueueFits, Used, Unused
  <2> QED BY <2>1, <2>2, TableUntouched
<1> QED BY <1>1, <1>2, <1>3, <1>4, <1>5 DEF World

\* Building the poll set, polling and the passages of the loop: the set that
\* Top builds names the slots in use, and poll adds only what it found out.
LEMMA PollingPreserves == IInv /\ (Top \/ Wait \/ PollFails \/ Pass \/ PassOver) => IInv'
<1> SUFFICES ASSUME IInv, Top \/ Wait \/ PollFails \/ Pass \/ PassOver PROVE IInv'
  OBVIOUS
<1> USE BridgeAssumption DEF IInv, mouse, world, history
<1>1. CASE Top
  <2> USE <1>1 DEF Top
  <2>1. Types' /\ PollSetFits'
    <3>1. CASE g_running
      <4>1. pfds' = [s \in Polled |-> [fd |-> clients[s].fd, hup |-> FALSE]] /\ pc' = "poll"
        BY <3>1
      <4>2. \A s \in Polled : s \in Slots /\ Used(s) /\ clients[s].fd \in Conns
        BY UsedSlots DEF Polled
      <4>3. PollSetFits'
        BY <4>1, <4>2 DEF PollSetFits, Used, Unused
      <4>4. DOMAIN pfds' \subseteq Slots /\ pfds' \in [DOMAIN pfds' -> [fd : Conns, hup : BOOLEAN]]
        BY <4>1, <4>2
      <4>5. Types'
        BY <4>1, <4>4 DEF Types
      <4> QED BY <4>3, <4>5
    <3>2. CASE ~g_running
      BY <3>2 DEF Types, PollSetFits
    <3> QED BY <3>1, <3>2
  <2>2. Callers' /\ QueueFits'
    BY DEF Callers, QueueFits
  <2> QED BY <2>1, <2>2, TableUntouched
<1>2. CASE Wait
  <2> USE <1>2 DEF Wait, Poll
  <2>1. DOMAIN pfds' = DOMAIN pfds
    OBVIOUS
  <2>2. ASSUME NEW s \in DOMAIN pfds
        PROVE  pfds'[s] \in [fd : Conns, hup : BOOLEAN] /\ pfds'[s].fd = pfds[s].fd
    <3>1. pfds[s] \in [fd : Conns, hup : BOOLEAN]
      BY DEF Types
    <3>2. pfds'[s] = [pfds[s] EXCEPT !.hup = peer[pfds[s].fd] = "gone"]
      OBVIOUS
    <3>3. (peer[pfds[s].fd] = "gone") \in BOOLEAN
      OBVIOUS
    <3> QED BY <3>1, <3>2, <3>3
  <2>3. pfds' = [s \in DOMAIN pfds' |-> pfds'[s]]
    BY <2>1
  <2>4. Types'
    BY <2>1, <2>2, <2>3 DEF Types
  <2>5. Callers' /\ QueueFits'
    BY DEF Callers, QueueFits
  <2>6. PollSetFits'
    BY <2>1, <2>2 DEF PollSetFits, Used, Unused
  <2> QED BY <2>4, <2>5, <2>6, TableUntouched
<1>3. CASE PollFails
  <2> USE <1>3 DEF PollFails
  <2>1. Types' /\ Callers' /\ PollSetFits' /\ QueueFits'
    BY DEF Types, Callers, PollSetFits, QueueFits
  <2> QED BY <2>1, TableUntouched
<1>4. CASE Pass
  <2> USE <1>4 DEF Pass, InTurn, TurnOver
  <2>1. /\ DOMAIN pfds' \subseteq DOMAIN pfds
        /\ \A s \in DOMAIN pfds' : pfds'[s] = pfds[s]
        /\ pfds' = [s \in DOMAIN pfds' |-> pfds[s]]
    OBVIOUS
  <2>2. \A s \in DOMAIN pfds' : pfds[s] \in [fd : Conns, hup : BOOLEAN]
    BY <2>1 DEF Types
  <2>3. pfds' \in [DOMAIN pfds' -> [fd : Conns, hup : BOOLEAN]]
    BY <2>1, <2>2
  <2>4. Types'
    BY <2>1, <2>3 DEF Types
  <2>5. PollSetFits'
    BY <2>1 DEF PollSetFits, Used, Unused
  <2>6. Callers' /\ QueueFits'
    BY DEF Callers, QueueFits
  <2> QED BY <2>4, <2>5, <2>6, TableUntouched
<1>5. CASE PassOver
  <2> USE <1>5 DEF PassOver
  <2>1. Types' /\ Callers' /\ PollSetFits' /\ QueueFits'
    BY DEF Types, Callers, PollSetFits, QueueFits
  <2> QED BY <2>1, TableUntouched
<1> QED BY <1>1, <1>2, <1>3, <1>4, <1>5

\* Whom the listener takes holds no descriptor yet, and the rest of the backlog
\* is other connections.
LEMMA CallerIsNew ==
    ASSUME IInv, pc = "listener"
    PROVE  /\ Caller \in Conns /\ Caller \notin descriptors /\ peer[Caller] # "away"
           /\ Tail(backlog) \in Seq(Conns)
           /\ \A i \in 1..Len(Tail(backlog)) :
                /\ Tail(backlog)[i] \in Conns \ (descriptors \cup {Caller})
                /\ peer[Tail(backlog)[i]] # "away"
           /\ \A i, j \in 1..Len(Tail(backlog)) : Tail(backlog)[i] = Tail(backlog)[j] => i = j
<1> USE DEF IInv, Types, Callers, Caller
<1>1. backlog \in Seq(Conns) /\ backlog # <<>>
  OBVIOUS
<1>2. /\ Len(backlog) \in Nat \ {0} /\ Head(backlog) = backlog[1] /\ backlog[1] \in Conns
      /\ Tail(backlog) \in Seq(Conns) /\ Len(Tail(backlog)) = Len(backlog) - 1
      /\ \A i \in 1..Len(Tail(backlog)) : i + 1 \in 1..Len(backlog)
                                          /\ Tail(backlog)[i] = backlog[i + 1]
  BY <1>1, HeadAndRest
<1>3. 1 \in 1..Len(backlog)
  BY <1>2
<1>4. Caller \in Conns /\ Caller \notin descriptors /\ peer[Caller] # "away"
  <2>1. \A i \in 1..Len(backlog) : backlog[i] \notin descriptors /\ peer[backlog[i]] # "away"
    OBVIOUS
  <2>2. Caller = backlog[1]
    BY <1>2
  <2>3. backlog[1] \in Conns /\ backlog[1] \notin descriptors /\ peer[backlog[1]] # "away"
    <3> HIDE DEF IInv, Types, Callers, Caller
    <3> QED BY <1>2, <1>3, <2>1
  <2> QED BY <2>2, <2>3
<1>5. ASSUME NEW i \in 1..Len(Tail(backlog))
      PROVE  /\ Tail(backlog)[i] \in Conns \ (descriptors \cup {Caller})
             /\ peer[Tail(backlog)[i]] # "away"
  <2>1. i + 1 \in 1..Len(backlog) /\ i + 1 # 1 /\ Tail(backlog)[i] = backlog[i + 1]
    BY <1>2
  <2>2. backlog[i + 1] \in Conns
    BY <1>1, <2>1, ElementOfSeq
  <2> QED BY <1>2, <1>3, <2>1, <2>2
<1>6. \A i, j \in 1..Len(Tail(backlog)) : Tail(backlog)[i] = Tail(backlog)[j] => i = j
  <2> SUFFICES ASSUME NEW i \in 1..Len(Tail(backlog)), NEW j \in 1..Len(Tail(backlog)),
                      Tail(backlog)[i] = Tail(backlog)[j]
               PROVE  i = j
    OBVIOUS
  <2>1. i + 1 = j + 1
    BY <1>2
  <2> QED BY <2>1
<1> QED BY <1>2, <1>4, <1>5, <1>6

\* A caller that is turned away, by the table or by a failure, leaves nothing.
LEMMA TurningAwayPreserves == IInv /\ (AcceptFails \/ Refuse) => IInv'
<1> SUFFICES ASSUME IInv, AcceptFails \/ Refuse PROVE IInv'
  OBVIOUS
<1> USE BridgeAssumption DEF IInv, AcceptFails, Refuse, Leaves, mouse, history
<1>1. pc = "listener"
  OBVIOUS
<1>2. pc' \in {"mouse", "clients"}
  BY DEF ToMouse
<1>3. Types'
  <2>1. Tail(backlog) \in Seq(Conns) /\ Caller \in Conns
    BY <1>1, CallerIsNew
  <2>2. backlog' \in Seq(Conns) /\ peer' \in [Conns -> {"away", "connected", "gone"}]
    BY <2>1 DEF Types
  <2> QED BY <1>2, <2>2 DEF Types
<1>4. Callers'
  <2>1. peer' = [peer EXCEPT ![Caller] = "away"] /\ backlog' = Tail(backlog)
    OBVIOUS
  <2>2. \A c \in Conns : c # Caller => peer'[c] = peer[c]
    BY <2>1 DEF Types
  <2>3. descriptors' = descriptors /\ descriptors \subseteq Conns
    BY DEF Types
  <2> QED BY <1>1, <1>2, <2>1, <2>2, <2>3, CallerIsNew DEF Callers
<1>5. PollSetFits' /\ QueueFits'
  BY <1>1, <1>2 DEF PollSetFits, QueueFits, Used, Unused
<1> QED BY <1>3, <1>4, <1>5, TableUntouched

\* Who is let in takes a slot nobody uses, which the poll set does not name, and
\* has heard nothing.
LEMMA AcceptPreserves == IInv /\ Accept => IInv'
<1> SUFFICES ASSUME IInv, Accept PROVE IInv'
  OBVIOUS
<1> USE BridgeAssumption DEF mouse, history
<1> DEFINE new == Least(FreeSlots)
           client == [fd |-> Caller, phase |-> "TLS", ctrl |-> FALSE]
<1>1. pc = "listener" /\ pc' \in {"mouse", "clients"}
  BY DEF Accept, ToMouse
<1>2. new \in Slots /\ ~Used(new)
  <2>1. FreeSlots \in SUBSET Nat /\ FreeSlots # {}
    BY DEF Accept, FreeSlots, Slots
  <2>2. new \in FreeSlots
    BY <2>1, LeastIsMember
  <2> QED BY <2>2 DEF FreeSlots
<1>3. client \in Client /\ client # Unused /\ client.fd = Caller /\ ~client.ctrl
      /\ client.phase = "TLS" /\ Caller # None /\ Caller \in Conns /\ Caller \notin descriptors
  BY <1>1, CallerIsNew DEF Client, Unused
<1>4. /\ clients' = [clients EXCEPT ![new] = client]
      /\ descriptors' = descriptors \cup {Caller} /\ backlog' = Tail(backlog)
      /\ UNCHANGED <<g_running, pfds, mouse_ready, connected, peer, mouse, history>>
  BY DEF Accept
<1> HIDE DEF new, client
<1>5. clients \in [Slots -> Client]
  BY DEF IInv, Types
<1>6. clients'[new] = client /\ \A s \in Slots : s # new => clients'[s] = clients[s]
  BY <1>2, <1>4, <1>5
<1>7. Types'
  <2>1. clients' \in [Slots -> Client]
    BY <1>3, <1>4, <1>5
  <2>2. descriptors' \subseteq Conns /\ backlog' \in Seq(Conns)
    BY <1>1, <1>3, <1>4, CallerIsNew DEF IInv, Types
  <2> QED BY <1>1, <1>4, <2>1, <2>2 DEF IInv, Types
<1>8. SlotsAgree'
  BY <1>3, <1>6 DEF IInv, SlotsAgree, Unused
<1>9. Callers'
  <2>1. \A c \in descriptors' : peer'[c] # "away"
    BY <1>1, <1>4, CallerIsNew DEF IInv, Callers
  <2> QED BY <1>1, <1>4, <2>1, CallerIsNew DEF Callers
<1>10. \A s \in Slots : Used(s)' <=> s = new \/ Used(s)
  BY <1>2, <1>3, <1>6 DEF Used, Unused
<1>11. DescriptorsAccounted'
  <2>1. \A s \in Slots : Used(s) => clients'[s] = clients[s] /\ clients[s].fd # Caller
    BY <1>2, <1>3, <1>6, UsedSlots
  <2>2. descriptors = {clients[s].fd : s \in {t \in Slots : Used(t)}}
        /\ \A s, t \in Slots : Used(s) /\ clients[s].fd = clients[t].fd => s = t
    BY DEF IInv, DescriptorsAccounted
  <2>3. descriptors' = {clients'[s].fd : s \in {t \in Slots : Used(t)'}}
    BY <1>2, <1>3, <1>4, <1>6, <1>10, <2>1, <2>2
  <2>4. ASSUME NEW s \in Slots, NEW t \in Slots, Used(s)', clients'[s].fd = clients'[t].fd
        PROVE  s = t
    <3>1. \A u \in Slots : ~Used(u) /\ u # new => clients'[u].fd = None
      BY <1>6, UsedSlots
    <3>2. \A u \in Slots : Used(u) => clients'[u].fd # None
      BY <2>1, UsedSlots
    <3> QED BY <1>3, <1>6, <1>10, <2>1, <2>2, <2>4, <3>1, <3>2
  <2> QED BY <2>3, <2>4 DEF DescriptorsAccounted
<1>12. PollSetFits' /\ QueueFits'
  BY <1>1, <1>2, <1>4, <1>6, <1>10 DEF IInv, Types, PollSetFits, QueueFits
<1>13. OnlyControllersHear'
  BY <1>2, <1>4, <1>6, UsedSlots DEF IInv, OnlyControllersHear
<1>14. EveryoneHears'
  <2> SUFFICES ASSUME NEW s \in Slots, clients'[s].ctrl, NEW c, c = clients'[s].fd
               PROVE  Hears(c)'
    BY DEF EveryoneHears, Hears, Wanted, ToSet
  <2>1. clients[s].ctrl /\ c = clients[s].fd
    BY <1>3, <1>6
  <2>2. Hears(c)
    BY <2>1, EveryoneHearsEach DEF IInv
  <2> QED BY <1>4, <2>2, HearsKept
<1> QED BY <1>7, <1>8, <1>9, <1>11, <1>12, <1>13, <1>14 DEF IInv

\* An event that is read is handed to every controller there is, and to nobody
\* else; one that is dropped is wanted by none.
LEMMA DrainPreserves == IInv /\ Drain => IInv'
<1> SUFFICES ASSUME IInv, Drain PROVE IInv'
  OBVIOUS
<1> USE BridgeAssumption DEF world
<1>1. pc = "mouse" /\ pc' \in {"mouse", "stop", "clients"} /\ connected
  BY DEF Drain, IInv, QueueFits
<1>2. UNCHANGED <<g_running, clients, pfds, connected, descriptors, world, lost, since>>
  BY DEF Drain
<1>3. /\ heard \in [Conns -> Seq(Nat)] /\ since \in [Conns -> 0..drained] /\ drained \in Nat
      /\ clients \in [Slots -> Client]
  BY DEF IInv, Types
<1>4. SlotsAgree' /\ Callers' /\ DescriptorsAccounted' /\ PollSetFits'
  BY <1>1, <1>2 DEF IInv, SlotsAgree, Callers, DescriptorsAccounted, PollSetFits, Used, Unused
<1>5. CASE queue = <<>>
  <2>1. queue' = queue /\ drained' = drained /\ heard' = heard
    <3>1. ~(SbPollEvent > 0)
      BY <1>5 DEF SbPollEvent
    <3> QED BY <1>3, <1>5, <3>1 DEF Drain
  <2>2. Types' /\ QueueFits'
    BY <1>1, <1>2, <2>1 DEF IInv, Types, QueueFits
  <2>3. history' = history
    BY <1>2, <2>1 DEF history
  <2> QED BY <1>2, <1>4, <2>2, <2>3, TableUntouched DEF IInv
<1>6. CASE queue # <<>>
  <2>1. /\ queue \in Seq(Nat) /\ Len(queue) \in Nat \ {0} /\ Head(queue) = drained + 1
        /\ queue' = Tail(queue) /\ drained' = drained + 1
    <3>1. queue \in Seq(Nat) /\ \A i \in 1..Len(queue) : queue[i] = drained + i
      BY DEF IInv, QueueFits
    <3>2. Len(queue) \in Nat \ {0} /\ Head(queue) = queue[1]
      BY <1>6, <3>1, HeadAndRest
    <3>3. 1 \in 1..Len(queue)
      BY <3>2
    <3>4. Head(queue) = drained + 1
      BY <3>1, <3>2, <3>3
    <3> QED BY <1>6, <3>1, <3>2, <3>4 DEF Drain
  <2>2. QueueFits'
    <3>1. /\ Tail(queue) \in Seq(Nat) /\ Len(Tail(queue)) = Len(queue) - 1
          /\ \A i \in 1..Len(Tail(queue)) : i + 1 \in 1..Len(queue) /\ Tail(queue)[i] = queue[i + 1]
      BY <1>6, <2>1, HeadAndRest
    <3>2. \A i \in 1..Len(queue) : queue[i] = drained + i
      BY DEF IInv, QueueFits
    <3>3. \A i \in 1..Len(Tail(queue)) : Tail(queue)[i] = drained + 1 + i
      BY <1>3, <3>1, <3>2
    <3> QED BY <1>1, <1>2, <2>1, <3>1, <3>3 DEF QueueFits
  <2>3. CASE Wanted(drained + 1)
    <3>1. heard' = [c \in Conns |-> IF c \in Hearers THEN Append(heard[c], drained + 1)
                                    ELSE heard[c]]
      BY <1>1, <1>6, <2>1, <2>3 DEF Drain, SbPollEvent
    <3>2. \A c \in Conns : Append(heard[c], drained + 1) \in Seq(Nat)
      BY <1>3, AppendProperties
    <3>3. Types'
      <4>1. heard' \in [Conns -> Seq(Nat)]
        BY <1>3, <3>1, <3>2
      <4>2. since' \in [Conns -> 0..drained'] /\ drained' \in Nat
        BY <1>2, <1>3, <2>1
      <4> QED BY <1>1, <1>2, <4>1, <4>2 DEF IInv, Types
    <3>4. OnlyControllersHear'
      <4> SUFFICES ASSUME NEW c \in Conns, heard'[c] # <<>>
                   PROVE  \E s \in Slots : clients[s].fd = c /\ clients[s].ctrl
        BY <1>2 DEF OnlyControllersHear
      <4>1. CASE c \in Hearers
        BY <4>1 DEF Hearers
      <4>2. CASE c \notin Hearers
        BY <3>1, <4>2 DEF IInv, OnlyControllersHear
      <4> QED BY <4>1, <4>2
    <3>5. EveryoneHears'
      <4> SUFFICES ASSUME NEW s \in Slots, clients[s].ctrl, NEW c, c = clients[s].fd
                   PROVE  /\ ToSet(heard'[c]) = {e \in (since[c] + 1)..(drained + 1) : Wanted(e)}
                          /\ \A i, j \in DOMAIN heard'[c] : i < j => heard'[c][i] < heard'[c][j]
        BY <1>2, <2>1 DEF EveryoneHears, Wanted
      <4>1. c \in Conns /\ c \in Hearers
        BY UsedSlots DEF Hearers
      <4>2. heard[c] \in Seq(Nat) /\ since[c] \in 0..drained
            /\ heard'[c] = Append(heard[c], drained + 1)
        BY <1>3, <3>1, <4>1
      <4>3. /\ ToSet(heard[c]) = {e \in (since[c] + 1)..drained : Wanted(e)}
            /\ \A i, j \in DOMAIN heard[c] : i < j => heard[c][i] < heard[c][j]
        BY DEF IInv, EveryoneHears
      <4>4. ToSet(heard'[c]) = {e \in (since[c] + 1)..(drained + 1) : Wanted(e)}
        <5>1. ToSet(heard'[c]) = ToSet(heard[c]) \cup {drained + 1}
          BY <1>3, <4>2, AppendAddsOne
        <5>2. (since[c] + 1)..(drained + 1) = ((since[c] + 1)..drained) \cup {drained + 1}
          BY <1>3, <4>2
        <5> QED BY <2>3, <4>3, <5>1, <5>2
      <4>5. /\ DOMAIN heard[c] = 1..Len(heard[c]) /\ Len(heard[c]) \in Nat
            /\ DOMAIN heard'[c] = 1..(Len(heard[c]) + 1)
            /\ \A i \in 1..Len(heard[c]) : heard'[c][i] = heard[c][i]
            /\ heard'[c][Len(heard[c]) + 1] = drained + 1
        BY <1>3, <4>2, AppendProperties, LenProperties
      <4>6. \A i \in 1..Len(heard[c]) : heard[c][i] \in Nat /\ heard[c][i] < drained + 1
        <5> SUFFICES ASSUME NEW i \in 1..Len(heard[c])
                     PROVE  heard[c][i] \in Nat /\ heard[c][i] < drained + 1
          OBVIOUS
        <5>1. heard[c][i] \in ToSet(heard[c])
          BY <4>5 DEF ToSet
        <5>2. heard[c][i] \in (since[c] + 1)..drained
          BY <4>3, <5>1
        <5> QED BY <1>3, <4>2, <5>2
      <4>7. ASSUME NEW i \in DOMAIN heard'[c], NEW j \in DOMAIN heard'[c], i < j
            PROVE  heard'[c][i] < heard'[c][j]
        <5>1. i \in 1..Len(heard[c])
          BY <4>5, <4>7
        <5>2. CASE j = Len(heard[c]) + 1
          BY <4>5, <4>6, <5>1, <5>2
        <5>3. CASE j # Len(heard[c]) + 1
          <6>1. j \in 1..Len(heard[c])
            BY <4>5, <5>3
          <6> QED BY <4>3, <4>5, <4>7, <5>1, <6>1
        <5> QED BY <5>2, <5>3
      <4> QED BY <4>4, <4>7
    <3> QED BY <1>4, <2>2, <3>3, <3>4, <3>5 DEF IInv
  <2>4. CASE ~Wanted(drained + 1)
    <3>1. heard' = heard
      <4>1. ~(SbPollEvent > 0)
        BY <2>1, <2>4 DEF SbPollEvent
      <4> QED BY <1>3, <4>1 DEF Drain
    <3>2. Types'
      <4>1. since' \in [Conns -> 0..drained'] /\ drained' \in Nat
        BY <1>2, <1>3, <2>1
      <4> QED BY <1>1, <1>2, <3>1, <4>1 DEF IInv, Types
    <3>3. OnlyControllersHear'
      BY <1>2, <3>1 DEF IInv, OnlyControllersHear
    <3>4. EveryoneHears'
      <4> SUFFICES ASSUME NEW s \in Slots, clients[s].ctrl, NEW c, c = clients[s].fd
                   PROVE  /\ ToSet(heard[c]) = {e \in (since[c] + 1)..(drained + 1) : Wanted(e)}
                          /\ \A i, j \in DOMAIN heard[c] : i < j => heard[c][i] < heard[c][j]
        BY <1>2, <2>1, <3>1 DEF EveryoneHears, Wanted
      <4>1. c \in Conns
        BY UsedSlots
      <4>2. (since[c] + 1)..(drained + 1) = ((since[c] + 1)..drained) \cup {drained + 1}
        BY <1>3, <4>1
      <4>3. {e \in (since[c] + 1)..(drained + 1) : Wanted(e)}
              = {e \in (since[c] + 1)..drained : Wanted(e)}
        BY <2>4, <4>2
      <4> QED BY <4>3 DEF IInv, EveryoneHears
    <3> QED BY <1>4, <2>2, <3>2, <3>3, <3>4 DEF IInv
  <2> QED BY <2>3, <2>4
<1> QED BY <1>5, <1>6

\* The slot whose turn it is is in use, whoever had a turn before it, and no other
\* slot has its descriptor.
LEMMA CurrentIsUsed ==
    ASSUME IInv, InTurn
    PROVE  /\ Current \in Slots /\ Current \in DOMAIN pfds /\ Used(Current)
           /\ clients[Current].fd \in Conns /\ clients[Current].fd \in descriptors
           /\ \A s \in Slots : s # Current => clients[s].fd # clients[Current].fd
<1> USE BridgeAssumption
<1>1. DOMAIN pfds \in SUBSET Nat /\ DOMAIN pfds \subseteq Slots /\ DOMAIN pfds # {}
  BY DEF IInv, Types, InTurn, Slots
<1>2. Current \in DOMAIN pfds
  BY <1>1, LeastIsMember DEF Current
<1>3. Used(Current)
  BY <1>2 DEF IInv, PollSetFits, InTurn
<1> QED BY <1>1, <1>2, <1>3, UsedSlots

\* The poll set after a turn is the rest of it.
LEMMA TurnOverKeeps ==
    ASSUME IInv, TurnOver
    PROVE  /\ DOMAIN pfds' = DOMAIN pfds \ {Current}
           /\ \A s \in DOMAIN pfds' : pfds'[s] = pfds[s]
           /\ DOMAIN pfds' \subseteq Slots /\ pfds' \in [DOMAIN pfds' -> [fd : Conns, hup : BOOLEAN]]
<1>1. pfds' = [s \in DOMAIN pfds \ {Current} |-> pfds[s]]
  BY DEF TurnOver
<1>2. DOMAIN pfds' = DOMAIN pfds \ {Current} /\ \A s \in DOMAIN pfds' : pfds'[s] = pfds[s]
  BY <1>1
<1>3. DOMAIN pfds \subseteq Slots /\ pfds \in [DOMAIN pfds -> [fd : Conns, hup : BOOLEAN]]
  BY DEF IInv, Types
<1> QED BY <1>1, <1>2, <1>3

\* A turn that moves a connection on keeps its descriptor; a controller it creates
\* starts with nothing heard.
LEMMA ServePreserves == IInv /\ Serve => IInv'
<1> SUFFICES ASSUME IInv, Serve PROVE IInv'
  OBVIOUS
<1> USE BridgeAssumption
<1> DEFINE old == clients[Current]
<1>1. InTurn /\ TurnOver /\ pc = "clients"
      /\ UNCHANGED <<pc, g_running, mouse_ready, connected, descriptors, world, mouse, drained, heard>>
  BY DEF Serve, InTurn
<1>2. PICK phase \in {"WS", "CLOSING"}, ctrl \in BOOLEAN :
        /\ Goes(phase, ctrl)
        /\ phase = "WS" => ctrl
        /\ \/ old.phase = "TLS" /\ ctrl /\ since' = [since EXCEPT ![old.fd] = drained]
           \/ since' = since /\ ctrl = old.ctrl
  <2>1. CASE old.phase = "TLS" /\ Goes("WS", TRUE) /\ since' = [since EXCEPT ![old.fd] = drained]
    BY <2>1
  <2>2. CASE old.phase = "TLS" /\ Goes("CLOSING", FALSE) /\ UNCHANGED since
    <3>1. old.ctrl = FALSE
      BY <1>1, <2>2, CurrentIsUsed DEF IInv, SlotsAgree, Types, Client
    <3> QED BY <2>2, <3>1
  <2>3. CASE old.phase = "WS" /\ Goes("CLOSING", TRUE) /\ UNCHANGED since
    <3>1. old.ctrl = TRUE
      BY <1>1, <2>3, CurrentIsUsed DEF IInv, SlotsAgree, Types, Client
    <3> QED BY <2>3, <3>1
  <2> QED BY <2>1, <2>2, <2>3 DEF Serve
<1>3. /\ Current \in Slots /\ old.fd \in Conns /\ old.fd # None /\ old \in Client
      /\ clients \in [Slots -> Client]
      /\ \A s \in Slots : s # Current => clients[s].fd # old.fd
  BY <1>1, CurrentIsUsed DEF IInv, Types
<1>4. /\ clients'[Current] = [fd |-> old.fd, phase |-> phase, ctrl |-> ctrl]
      /\ \A s \in Slots : s # Current => clients'[s] = clients[s]
      /\ clients' \in [Slots -> Client]
  <2>1. clients' = [clients EXCEPT ![Current].phase = phase, ![Current].ctrl = ctrl]
    BY <1>2 DEF Goes
  <2>2. clients'[Current] = [[old EXCEPT !.phase = phase] EXCEPT !.ctrl = ctrl]
    BY <1>3, <2>1
  <2>3. clients'[Current] = [fd |-> old.fd, phase |-> phase, ctrl |-> ctrl]
    BY <1>3, <2>2 DEF Client
  <2>4. \A s \in Slots : s # Current => clients'[s] = clients[s]
    BY <1>3, <2>1
  <2>5. clients'[Current] \in Client
    BY <1>2, <1>3, <2>3 DEF Client
  <2>6. clients' = [s \in Slots |-> clients'[s]]
    BY <1>3, <2>1
  <2> QED BY <1>3, <2>3, <2>4, <2>5, <2>6
<1>5. since' \in [Conns -> 0..drained] /\ \A c \in Conns : c # old.fd => since'[c] = since[c]
  BY <1>2 DEF IInv, Types
<1> HIDE DEF old
<1>6. \A s \in Slots : clients'[s].fd = clients[s].fd /\ (Used(s)' <=> Used(s))
  <2>1. clients'[Current] # Unused
    BY <1>2, <1>4 DEF Unused
  <2>2. Used(Current) /\ clients[Current].fd = old.fd
    BY <1>1, CurrentIsUsed DEF old
  <2>3. clients'[Current].fd = clients[Current].fd
    BY <1>4, <2>2
  <2>4. ASSUME NEW s \in Slots, s # Current
        PROVE  clients'[s].fd = clients[s].fd /\ (Used(s)' <=> Used(s))
    BY <1>4, <2>4 DEF Used, Unused
  <2>5. ASSUME NEW s \in Slots, s = Current
        PROVE  clients'[s].fd = clients[s].fd /\ (Used(s)' <=> Used(s))
    BY <2>1, <2>2, <2>3, <2>5 DEF Used, Unused
  <2> QED BY <2>4, <2>5
<1>7. Types'
  BY <1>1, <1>4, <1>5, TurnOverKeeps DEF IInv, Types, world
<1>8. SlotsAgree'
  BY <1>2, <1>3, <1>4 DEF IInv, SlotsAgree, Unused
<1>9. Callers' /\ QueueFits'
  BY <1>1 DEF IInv, Callers, QueueFits, world, mouse
<1>10. DescriptorsAccounted'
  BY <1>1, <1>6 DEF IInv, DescriptorsAccounted
<1>11. PollSetFits'
  BY <1>1, <1>6, TurnOverKeeps DEF IInv, PollSetFits, InTurn
<1>12. OnlyControllersHear'
  <2> SUFFICES ASSUME NEW c \in Conns, heard[c] # <<>>
               PROVE  \E s \in Slots : clients'[s].fd = c /\ clients'[s].ctrl
    BY <1>1 DEF OnlyControllersHear
  <2>1. PICK s \in Slots : clients[s].fd = c /\ clients[s].ctrl
    BY DEF IInv, OnlyControllersHear
  <2>2. CASE s = Current
    BY <1>2, <1>4, <2>1, <2>2 DEF old
  <2> QED BY <1>4, <2>1, <2>2
<1>13. EveryoneHears'
  <2> SUFFICES ASSUME NEW s \in Slots, clients'[s].ctrl, NEW c, c = clients'[s].fd
               PROVE  Hears(c)'
    BY DEF EveryoneHears, Hears, Wanted, ToSet
  <2>1. c = clients[s].fd
    BY <1>6
  <2>2. CASE s = Current /\ ~old.ctrl
    <3>1. since'[c] = drained /\ c \in Conns
      BY <1>2, <1>3, <1>4, <2>1, <2>2 DEF IInv, Types, old
    <3>2. heard[c] = <<>>
      BY <1>3, <2>1, <2>2, <3>1 DEF IInv, OnlyControllersHear, old
    <3>3. drained \in Nat /\ heard'[c] = <<>> /\ drained' = drained
      BY <1>1, <3>2 DEF IInv, Types
    <3> QED BY <3>1, <3>3 DEF Hears, ToSet
  <2>3. CASE ~(s = Current /\ ~old.ctrl)
    <3>1. clients[s].ctrl
      BY <1>4, <2>3 DEF old
    <3>2. c \in Conns /\ Hears(c)
      BY <2>1, <3>1, UsedSlots, EveryoneHearsEach DEF IInv
    <3>3. since'[c] = since[c]
      <4>1. CASE s = Current
        <5>1. old.ctrl = TRUE /\ old.phase # "TLS"
          BY <1>3, <3>1, <4>1 DEF IInv, SlotsAgree, old, Client
        <5> QED BY <1>2, <5>1
      <4>2. CASE s # Current
        BY <1>3, <1>5, <2>1, <3>2, <4>2
      <4> QED BY <4>1, <4>2
    <3> QED BY <1>1, <3>2, <3>3, HearsKept
  <2> QED BY <2>2, <2>3
<1> QED BY <1>7, <1>8, <1>9, <1>10, <1>11, <1>12, <1>13 DEF IInv

\* close_client gives back the slot, the descriptor and what the controller had;
\* nobody else has that descriptor, so nobody else loses anything.
LEMMA ReapPreserves == IInv /\ Reap => IInv'
<1> SUFFICES ASSUME IInv, Reap PROVE IInv'
  OBVIOUS
<1> USE BridgeAssumption
<1> DEFINE fd == clients[Current].fd
<1>1. /\ InTurn /\ TurnOver /\ pc = "clients"
      /\ UNCHANGED <<pc, g_running, mouse_ready, connected, backlog, mouse, drained>>
      /\ clients' = [clients EXCEPT ![Current] = Unused]
      /\ descriptors' = descriptors \ {fd}
      /\ peer' = [peer EXCEPT ![fd] = "away"]
      /\ heard' = [heard EXCEPT ![fd] = <<>>]
      /\ since' = [since EXCEPT ![fd] = 0]
  BY DEF Reap, InTurn, Leaves
<1>2. /\ Current \in Slots /\ Used(Current) /\ fd \in Conns /\ fd \in descriptors
      /\ \A s \in Slots : s # Current => clients[s].fd # fd
  BY <1>1, CurrentIsUsed
<1>3. /\ clients \in [Slots -> Client] /\ heard \in [Conns -> Seq(Nat)]
      /\ since \in [Conns -> 0..drained] /\ drained \in Nat /\ descriptors \subseteq Conns
      /\ peer \in [Conns -> {"away", "connected", "gone"}] /\ backlog \in Seq(Conns)
  BY DEF IInv, Types
<1> HIDE DEF fd
<1>4. clients'[Current] = Unused /\ \A s \in Slots : s # Current => clients'[s] = clients[s]
  BY <1>1, <1>2, <1>3
<1>5. \A c \in Conns : c # fd => peer'[c] = peer[c] /\ heard'[c] = heard[c] /\ since'[c] = since[c]
  BY <1>1, <1>3
<1>6. \A s \in Slots : Used(s)' <=> Used(s) /\ s # Current
  BY <1>4 DEF Used, Unused
<1>7. Types'
  <2>1. Unused \in Client
    BY DEF Unused, Client
  <2>2. clients' \in [Slots -> Client]
    BY <1>1, <1>3, <2>1
  <2>3. heard' \in [Conns -> Seq(Nat)]
    BY <1>1, <1>3, EmptySeq
  <2>4. since' \in [Conns -> 0..drained]
    <3>1. 0 \in 0..drained
      BY <1>3
    <3> QED BY <1>1, <1>3, <3>1
  <2>5. peer' \in [Conns -> {"away", "connected", "gone"}] /\ descriptors' \subseteq Conns
    BY <1>1, <1>3
  <2>6. DOMAIN pfds' \subseteq Slots /\ pfds' \in [DOMAIN pfds' -> [fd : Conns, hup : BOOLEAN]]
    BY <1>1, TurnOverKeeps
  <2>7. pc' = pc /\ backlog' = backlog /\ drained' = drained
    BY <1>1
  <2> QED BY <1>1, <1>3, <2>2, <2>3, <2>4, <2>5, <2>6, <2>7 DEF Types
<1>8. SlotsAgree'
  <2> SUFFICES ASSUME NEW s \in Slots
               PROVE  /\ clients'[s].fd = None => clients'[s] = Unused
                      /\ clients'[s].phase = "FREE" => clients'[s] = Unused
                      /\ clients'[s].phase = "TLS" => ~clients'[s].ctrl
                      /\ clients'[s].phase = "WS" => clients'[s].ctrl
    BY DEF SlotsAgree, Unused
  <2>1. CASE s = Current
    BY <1>4, <2>1 DEF Unused
  <2>2. CASE s # Current
    BY <1>4, <2>2 DEF IInv, SlotsAgree
  <2> QED BY <2>1, <2>2
<1>9. Callers'
  <2>1. \A i \in 1..Len(backlog) : backlog[i] \in Conns /\ backlog[i] # fd
    BY <1>2, <1>3, ElementOfSeq DEF IInv, Callers
  <2>2. \A i \in 1..Len(backlog) : backlog[i] \notin descriptors' /\ peer'[backlog[i]] # "away"
    BY <1>1, <1>5, <2>1 DEF IInv, Callers
  <2>3. \A c \in descriptors' : peer'[c] # "away"
    BY <1>1, <1>3, <1>5 DEF IInv, Callers
  <2> QED BY <1>1, <2>2, <2>3 DEF IInv, Callers
<1>10. DescriptorsAccounted'
  <2>1. descriptors = {clients[s].fd : s \in {t \in Slots : Used(t)}}
        /\ \A s, t \in Slots : Used(s) /\ clients[s].fd = clients[t].fd => s = t
    BY DEF IInv, DescriptorsAccounted
  <2>2. descriptors' = {clients'[s].fd : s \in {t \in Slots : Used(t)'}}
    <3>1. \A s \in Slots : Used(s)' => clients'[s].fd = clients[s].fd
      BY <1>4, <1>6
    <3>2. {clients'[s].fd : s \in {t \in Slots : Used(t)'}} \subseteq descriptors \ {fd}
      BY <1>2, <1>6, <2>1, <3>1
    <3>3. descriptors \ {fd} \subseteq {clients'[s].fd : s \in {t \in Slots : Used(t)'}}
      <4> SUFFICES ASSUME NEW d \in descriptors, d # fd
                   PROVE  \E s \in Slots : Used(s)' /\ clients'[s].fd = d
        OBVIOUS
      <4>1. PICK s \in Slots : Used(s) /\ clients[s].fd = d
        BY <2>1
      <4> QED BY <1>6, <3>1, <4>1 DEF fd
    <3> QED BY <1>1, <3>2, <3>3
  <2>3. \A s, t \in Slots : Used(s)' /\ clients'[s].fd = clients'[t].fd => s = t
    <3> SUFFICES ASSUME NEW s \in Slots, NEW t \in Slots, Used(s)', clients'[s].fd = clients'[t].fd
                 PROVE  s = t
      OBVIOUS
    <3>1. s # Current /\ Used(s) /\ clients'[s] = clients[s] /\ clients[s].fd # None
      BY <1>4, <1>6, UsedSlots
    <3>2. t # Current
      BY <1>4, <3>1 DEF Unused
    <3> QED BY <1>4, <2>1, <3>1, <3>2
  <2> QED BY <2>2, <2>3 DEF DescriptorsAccounted
<1>11. PollSetFits' /\ QueueFits'
  BY <1>1, <1>4, <1>6, TurnOverKeeps DEF IInv, PollSetFits, QueueFits, mouse
<1>12. OnlyControllersHear'
  <2> SUFFICES ASSUME NEW c \in Conns, heard'[c] # <<>>
               PROVE  \E s \in Slots : clients'[s].fd = c /\ clients'[s].ctrl
    BY DEF OnlyControllersHear
  <2>1. c # fd /\ heard[c] # <<>>
    BY <1>1, <1>3, <1>5
  <2>2. PICK s \in Slots : clients[s].fd = c /\ clients[s].ctrl
    BY <2>1 DEF IInv, OnlyControllersHear
  <2> QED BY <1>4, <2>1, <2>2 DEF fd
<1>13. EveryoneHears'
  <2> SUFFICES ASSUME NEW s \in Slots, clients'[s].ctrl, NEW c, c = clients'[s].fd
               PROVE  Hears(c)'
    BY DEF EveryoneHears, Hears, Wanted, ToSet
  <2>1. s # Current
    BY <1>4 DEF Unused
  <2>2. clients[s].ctrl /\ c = clients[s].fd /\ c # fd
    BY <1>2, <1>4, <2>1
  <2>3. c \in Conns /\ Hears(c)
    BY <2>2, UsedSlots, EveryoneHearsEach DEF IInv
  <2> QED BY <1>1, <1>5, <2>2, <2>3, HearsKept
<1> QED BY <1>7, <1>8, <1>9, <1>10, <1>11, <1>12, <1>13 DEF IInv

\* The end of main closes what every slot holds, which is all there is.
LEMMA ShutdownPreserves == IInv /\ Shutdown => IInv'
<1> SUFFICES ASSUME IInv, Shutdown PROVE IInv'
  OBVIOUS
<1> USE BridgeAssumption DEF Shutdown
<1>1. \A s \in Slots : clients'[s] = Unused
  OBVIOUS
<1>2. descriptors' = {}
  BY DEF IInv, DescriptorsAccounted
<1>3. \A c \in Conns : heard'[c] = <<>>
  OBVIOUS
<1>4. Types'
  <2>1. Unused \in Client
    BY DEF Unused, Client
  <2>2. clients' \in [Slots -> Client] /\ DOMAIN pfds' = {}
    BY <2>1
  <2>3. drained' \in Nat /\ since' \in [Conns -> 0..drained']
    BY DEF IInv, Types
  <2> QED BY <1>2, <2>2, <2>3 DEF Types
<1>5. SlotsAgree' /\ DescriptorsAccounted'
  <2>1. \A s \in Slots : ~Used(s)'
    BY <1>1 DEF Used, Unused
  <2>2. SlotsAgree'
    BY <1>1 DEF SlotsAgree, Unused
  <2> QED BY <1>2, <2>1, <2>2 DEF DescriptorsAccounted
<1>6. Callers' /\ PollSetFits' /\ QueueFits'
  <2>1. Callers'
    BY <1>2 DEF Callers
  <2>2. PollSetFits'
    BY DEF PollSetFits
  <2>3. QueueFits'
    BY DEF IInv, QueueFits, mouse
  <2> QED BY <2>1, <2>2, <2>3
<1>7. OnlyControllersHear' /\ EveryoneHears'
  BY <1>1, <1>3 DEF OnlyControllersHear, EveryoneHears, Unused
<1> QED BY <1>4, <1>5, <1>6, <1>7 DEF IInv

----------------------------------------------------------------------------

\* Whatever the peers, the mouse, spacenavd and the loop do, in any order, the
\* table, the poll set, the backlog and what was handed on keep fitting together.
THEOREM Inductive == Spec => []IInv
<1>1. IInv /\ [Next]_vars => IInv'
  <2> SUFFICES ASSUME IInv, [Next]_vars PROVE IInv'
    OBVIOUS
  <2>1. CASE Loop
    BY <2>1, PollingPreserves, TurningAwayPreserves, AcceptPreserves, DrainPreserves,
       ServePreserves, ReapPreserves, ShutdownPreserves DEF Loop
  <2>2. CASE PollFails
    BY <2>2, PollingPreserves
  <2>3. CASE World
    BY <2>3, WorldPreserves
  <2>4. CASE UNCHANGED vars
    <3> USE <2>4 DEF vars, world, mouse, history
    <3>1. Types' /\ Callers'
      BY DEF IInv, Types, Callers
    <3>2. PollSetFits' /\ QueueFits'
      BY DEF IInv, PollSetFits, QueueFits, Used, Unused
    <3> QED BY <3>1, <3>2, TableUntouched DEF IInv
  <2> QED BY <2>1, <2>2, <2>3, <2>4 DEF Next
<1> QED BY <1>1, InitEstablishes, PTL DEF Spec

\* A result of poll is never applied to a connection that took the slot after it.
THEOREM ResultsStayOwn == Spec => []ResultsAreOwn
<1>1. IInv => ResultsAreOwn
  BY DEF IInv, PollSetFits, ResultsAreOwn
<1> QED BY <1>1, Inductive, PTL

\* No way in or out of the table leaks a descriptor or gives one to two slots.
THEOREM NoDescriptorLeaks == Spec => []DescriptorsAccounted
<1>1. IInv => DescriptorsAccounted
  BY DEF IInv
<1> QED BY <1>1, Inductive, PTL

\* Every controller has been handed exactly the events read since it was created,
\* in order, whatever the other connections did meanwhile.
THEOREM EveryControllerHears == Spec => []EveryoneHears
<1>1. IInv => EveryoneHears
  BY DEF IInv
<1> QED BY <1>1, Inductive, PTL
=============================================================================
