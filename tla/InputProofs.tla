----------------------------- MODULE InputProofs -----------------------------
(***************************************************************************)
(* Proofs about Input, for streams of any length and buffers of any size.  *)
(* What is proved by induction, the sums of a sequence, takes the least    *)
(* number for which it fails, from the well-foundedness of the naturals.   *)
(***************************************************************************)
EXTENDS Input, TLAPS, SequenceTheorems, WellFoundedInduction

----------------------------------------------------------------------------
\* Sums

\* A set of naturals has a least element.
LEMMA Smallest ==
    ASSUME NEW T \in SUBSET Nat, T # {}
    PROVE  \E n \in T : \A m \in T : n <= m
<1> DEFINE Below == {p \in Nat \X Nat : p[1] < p[2]}
<1>1. IsWellFoundedOn(Below, Nat)
  BY NatLessThanWellFounded DEF OpToRel
<1>2. PICK n \in T : \A m \in T : <<m, n>> \notin Below
  <2> HIDE DEF Below
  <2> QED BY <1>1, WFMin
<1>3. \A m \in T : n <= m
  <2> SUFFICES ASSUME NEW m \in T PROVE n <= m
    OBVIOUS
  <2>1. m \in Nat /\ n \in Nat
    OBVIOUS
  <2>2. ~(m < n)
    BY <1>2, <2>1
  <2> QED BY <2>1, <2>2
<1> QED BY <1>3

\* The recursion of Sums, as a relation
IsSums(sum, weights, n) ==
    sum = [i \in 0..n |-> IF i = 0 THEN 0 ELSE sum[i - 1] + weights[i]]

\* There is a function that satisfies it, of natural values.
LEMMA SumsExist ==
    ASSUME NEW weights \in Seq(Nat), NEW n \in 0..Len(weights)
    PROVE  \E sum \in [0..n -> Nat] : IsSums(sum, weights, n)
<1> DEFINE Good(k) == \E sum \in [0..k -> Nat] : IsSums(sum, weights, k)
           Bad == {k \in 0..Len(weights) : ~Good(k)}
<1>0. Len(weights) \in Nat /\ \A i \in 1..Len(weights) : weights[i] \in Nat
  OBVIOUS
<1>1. Good(0)
  <2> DEFINE sum == [i \in 0..0 |-> 0]
  <2>1. sum \in [0..0 -> Nat]
    OBVIOUS
  <2>2. \A i \in 0..0 : i = 0
    OBVIOUS
  <2>3. IsSums(sum, weights, 0)
    BY <2>2 DEF IsSums
  <2> QED BY <2>1, <2>3
<1>2. ASSUME NEW k \in Nat, k + 1 \in 0..Len(weights), Good(k) PROVE Good(k + 1)
  <2>1. PICK sum \in [0..k -> Nat] : IsSums(sum, weights, k)
    BY <1>2
  <2> DEFINE next == [i \in 0..(k + 1) |-> IF i = k + 1 THEN sum[k] + weights[i] ELSE sum[i]]
  <2>2. \A i \in 0..(k + 1) : i = k + 1 \/ i \in 0..k
    OBVIOUS
  <2>3. sum[k] \in Nat /\ weights[k + 1] \in Nat
    BY <1>0, <1>2
  <2>4. next \in [0..(k + 1) -> Nat]
    BY <2>2, <2>3
  <2>5. \A i \in 0..k : sum[i] = IF i = 0 THEN 0 ELSE sum[i - 1] + weights[i]
    BY <2>1 DEF IsSums
  <2>6. \A i \in 0..(k + 1) : next[i] = IF i = 0 THEN 0 ELSE next[i - 1] + weights[i]
    <3> SUFFICES ASSUME NEW i \in 0..(k + 1)
                 PROVE  next[i] = IF i = 0 THEN 0 ELSE next[i - 1] + weights[i]
      OBVIOUS
    <3>1. CASE i = k + 1
      <4>1. next[k] = sum[k] /\ i # 0 /\ i - 1 = k
        BY <3>1
      <4> QED BY <3>1, <4>1
    <3>2. CASE i \in 0..k
      <4>1. next[i] = sum[i] /\ (i # 0 => i - 1 \in 0..k /\ next[i - 1] = sum[i - 1])
        BY <3>2
      <4> QED BY <2>5, <3>2, <4>1
    <3> QED BY <2>2, <3>1, <3>2
  <2>7. IsSums(next, weights, k + 1)
    BY <2>6 DEF IsSums
  <2> QED BY <2>4, <2>7
<1> HIDE DEF Good
<1>3. Bad = {}
  <2> SUFFICES ASSUME Bad # {} PROVE FALSE
    OBVIOUS
  <2>1. Bad \subseteq Nat
    OBVIOUS
  <2>2. PICK k \in Bad : \A m \in Bad : k <= m
    BY <2>1, Smallest
  <2>3. k # 0 /\ k \in Nat /\ k <= Len(weights)
    BY <1>0, <1>1, <2>2
  <2>4. k - 1 \in 0..Len(weights) /\ k - 1 \in Nat /\ (k - 1) + 1 = k
    BY <1>0, <2>3
  <2>5. k - 1 \notin Bad
    BY <2>2, <2>3
  <2>6. Good(k - 1)
    BY <2>4, <2>5
  <2>7. Good((k - 1) + 1)
    BY <1>0, <1>2, <2>3, <2>4, <2>6
  <2> QED BY <2>2, <2>4, <2>7
<1>4. Good(n)
  BY <1>3
<1> QED BY <1>4 DEF Good

\* What Sums computes.
LEMMA SumsAre ==
    ASSUME NEW weights \in Seq(Nat)
    PROVE  /\ Sums(weights) \in [0..Len(weights) -> Nat]
           /\ Sums(weights)[0] = 0
           /\ \A i \in 1..Len(weights) : Sums(weights)[i] = Sums(weights)[i - 1] + weights[i]
           /\ Total(weights) \in Nat
<1> DEFINE n == Len(weights)
<1>1. n \in 0..n
  OBVIOUS
<1>2. \E sum : IsSums(sum, weights, n)
  BY <1>1, SumsExist
<1>3. Sums(weights) = CHOOSE sum : IsSums(sum, weights, n)
  BY DEF Sums, IsSums
<1>4. IsSums(Sums(weights), weights, n)
  BY <1>2, <1>3
<1> DEFINE sum == Sums(weights)
<1>5. /\ DOMAIN sum = 0..n
      /\ sum = [i \in 0..n |-> sum[i]]
      /\ \A i \in 0..n : sum[i] = IF i = 0 THEN 0 ELSE sum[i - 1] + weights[i]
  BY <1>4 DEF IsSums
<1>6. n \in Nat /\ \A i \in 1..n : weights[i] \in Nat
  OBVIOUS
<1> HIDE DEF sum, n
<1>7. sum[0] = 0 /\ \A i \in 1..n : sum[i] = sum[i - 1] + weights[i]
  <2>1. 0 \in 0..n /\ \A i \in 1..n : i \in 0..n /\ i # 0
    BY <1>6
  <2>2. ASSUME NEW i \in 0..n PROVE sum[i] = IF i = 0 THEN 0 ELSE sum[i - 1] + weights[i]
    BY <1>5
  <2>3. sum[0] = 0
    BY <2>1, <2>2
  <2>4. ASSUME NEW i \in 1..n PROVE sum[i] = sum[i - 1] + weights[i]
    <3>1. i \in 0..n /\ i # 0
      BY <2>1
    <3> QED BY <2>2, <3>1
  <2> QED BY <2>3, <2>4
<1>8. \A i \in 0..n : sum[i] \in Nat
  <2> DEFINE Bad == {i \in 0..n : sum[i] \notin Nat}
  <2> SUFFICES ASSUME Bad # {} PROVE FALSE
    OBVIOUS
  <2>1. Bad \subseteq Nat
    OBVIOUS
  <2>2. PICK k \in Bad : \A m \in Bad : k <= m
    BY <2>1, Smallest
  <2>3. k \in 1..n
    <3>1. k # 0
      BY <1>7, <2>2
    <3> QED BY <1>6, <2>2, <3>1
  <2>4. k - 1 \in 0..n /\ ~(k <= k - 1)
    BY <1>6, <2>3
  <2>5. sum[k - 1] \in Nat
    BY <2>2, <2>4
  <2>6. sum[k] = sum[k - 1] + weights[k] /\ weights[k] \in Nat
    BY <1>6, <1>7, <2>3
  <2> QED BY <2>2, <2>5, <2>6
<1>9. sum \in [0..n -> Nat]
  BY <1>5, <1>8
<1>10. Total(weights) = sum[n] /\ n \in 0..n
  BY <1>6 DEF Total, sum, n
<1> QED BY <1>7, <1>9, <1>10 DEF sum, n

\* The sum of the first weights depends on nothing else.
LEMMA SumsAgree ==
    ASSUME NEW w \in Seq(Nat), NEW v \in Seq(Nat), NEW n \in Nat,
           n <= Len(w), n <= Len(v), \A i \in 1..n : w[i] = v[i]
    PROVE  Sums(w)[n] = Sums(v)[n]
<1>1. /\ Sums(w)[0] = 0 /\ \A i \in 1..Len(w) : Sums(w)[i] = Sums(w)[i - 1] + w[i]
      /\ Sums(v)[0] = 0 /\ \A i \in 1..Len(v) : Sums(v)[i] = Sums(v)[i - 1] + v[i]
  BY SumsAre
<1> DEFINE Bad == {i \in 0..n : Sums(w)[i] # Sums(v)[i]}
<1> SUFFICES ASSUME Bad # {} PROVE FALSE
  <2>1. n \in 0..n
    OBVIOUS
  <2> QED BY <2>1
<1>2. Bad \subseteq Nat
  OBVIOUS
<1>3. PICK k \in Bad : \A m \in Bad : k <= m
  BY <1>2, Smallest
<1>4. Len(w) \in Nat /\ Len(v) \in Nat
  OBVIOUS
<1>5. k \in 1..n /\ k \in 1..Len(w) /\ k \in 1..Len(v) /\ k - 1 \in 0..n /\ ~(k <= k - 1)
  <2>1. k \in 0..n /\ Sums(w)[k] # Sums(v)[k]
    BY <1>3
  <2>2. k # 0
    BY <1>1, <2>1
  <2> QED BY <1>4, <2>1, <2>2
<1>6. Sums(w)[k - 1] = Sums(v)[k - 1]
  BY <1>3, <1>5
<1>7. Sums(w)[k] = Sums(w)[k - 1] + w[k] /\ Sums(v)[k] = Sums(v)[k - 1] + v[k] /\ w[k] = v[k]
  BY <1>1, <1>5
<1>8. Sums(w)[k] # Sums(v)[k]
  BY <1>3
<1> QED BY <1>6, <1>7, <1>8

\* One more weight
LEMMA TotalAppend ==
    ASSUME NEW w \in Seq(Nat), NEW x \in Nat
    PROVE  Append(w, x) \in Seq(Nat) /\ Total(Append(w, x)) = Total(w) + x
<1> DEFINE v == Append(w, x)
           n == Len(w)
<1>1. /\ v \in Seq(Nat) /\ Len(v) = n + 1 /\ n \in Nat
      /\ \A i \in 1..n : w[i] = v[i]
      /\ v[n + 1] = x
  BY AppendProperties
<1> HIDE DEF v
<1>2. Sums(w)[n] = Sums(v)[n]
  <2>1. n <= Len(w) /\ n <= Len(v)
    BY <1>1
  <2> HIDE DEF n
  <2> QED BY <1>1, <2>1, SumsAgree
<1>3. \A i \in 1..Len(v) : Sums(v)[i] = Sums(v)[i - 1] + v[i]
  BY <1>1, SumsAre
<1>4. Sums(v)[n + 1] = Sums(v)[n] + v[n + 1]
  BY <1>1, <1>3
<1> QED BY <1>1, <1>2, <1>4 DEF Total, v

\* No weight, one weight
LEMMA TotalFew ==
    /\ Total(<<>>) = 0
    /\ \A x \in Nat : Total(<<x>>) = x
<1>1. <<>> \in Seq(Nat) /\ Len(<<>>) = 0
  OBVIOUS
<1>2. Total(<<>>) = 0
  <2>1. \A w \in Seq(Nat) : Sums(w)[0] = 0
    BY SumsAre
  <2> QED BY <1>1, <2>1 DEF Total
<1>3. ASSUME NEW x \in Nat PROVE Total(<<x>>) = x
  <2>1. <<x>> = Append(<<>>, x)
    OBVIOUS
  <2>2. Total(Append(<<>>, x)) = Total(<<>>) + x
    BY <1>1, TotalAppend
  <2> QED BY <1>2, <2>1, <2>2
<1> QED BY <1>2, <1>3

----------------------------------------------------------------------------
\* The bytes and the items they make up

Sizes == [i \in 1..Len(stream) |-> Size(stream[i])]

\* What has been read is what lies in inbuf and what was taken from it before,
\* and while the loop waits for input the next item is not complete.
Counts ==
    /\ stream \in Streams
    /\ inlen \in 0..INPUT_BUF_SIZE /\ transit \in Nat /\ taken \in 0..Len(stream)
    /\ busy \in BOOLEAN
    /\ phase \in {"HTTP", "WS", "CLOSING"} /\ failed \in {"no", "input", "reply"}
    /\ phase = "HTTP" => taken = 0
    /\ phase = "WS" => taken # 0
    /\ transit + inlen + Sums(Sizes)[taken] = Total(Sizes)
    /\ Open /\ ~busy /\ HasHead => inlen < Size(Head1)

\* The items of a stream
LEMMA Items ==
    ASSUME stream \in Streams
    PROVE  /\ Len(stream) \in Nat \ {0} /\ stream[1] \in Requests
           /\ \A i \in 2..Len(stream) : stream[i] \in Frames
           /\ \A i \in 1..Len(stream) : Size(stream[i]) \in Nat \ {0}
           /\ Sizes \in Seq(Nat) /\ Len(Sizes) = Len(stream)
           /\ Sizes = [i \in 1..Len(stream) |-> Size(stream[i])]
<1>1. /\ stream \in Seq(Frames \cup Requests) /\ stream # <<>> /\ stream[1] \in Requests
      /\ \A i \in 2..Len(stream) : stream[i] \in Frames
  BY StreamAssumption
<1>2. Len(stream) \in Nat \ {0}
  BY <1>1
<1>3. \A item \in Requests : Size(item) \in Nat \ {0}
  <2> SUFFICES ASSUME NEW item \in Requests PROVE Size(item) \in Nat \ {0}
    OBVIOUS
  <2>1. "head" \in DOMAIN item /\ item.head \in Nat \ {0} /\ item.content_length \in Nat
    BY DEF Requests
  <2> QED BY <2>1 DEF Size
<1>4. \A item \in Frames : Size(item) \in Nat \ {0}
  <2> SUFFICES ASSUME NEW item \in Frames PROVE Size(item) \in Nat \ {0}
    OBVIOUS
  <2>1. "head" \notin DOMAIN item /\ item.form \in {"short", "medium", "long"} /\ item.payload \in Nat
    BY DEF Frames, Forms, LengthBytes
  <2>2. LengthBytes[item.form] \in Nat
    BY <2>1 DEF LengthBytes
  <2> QED BY <2>1, <2>2 DEF Size, MaskBytes
<1>5. \A i \in 1..Len(stream) : Size(stream[i]) \in Nat \ {0}
  <2> SUFFICES ASSUME NEW i \in 1..Len(stream) PROVE Size(stream[i]) \in Nat \ {0}
    OBVIOUS
  <2>1. i = 1 \/ i \in 2..Len(stream)
    BY <1>2
  <2> QED BY <1>1, <1>3, <1>4, <2>1
<1>6. Sizes \in [1..Len(stream) -> Nat]
  BY <1>5 DEF Sizes
<1>7. Sizes \in Seq(Nat) /\ Len(Sizes) = Len(stream)
  BY <1>2, <1>6
<1> QED BY <1>1, <1>2, <1>5, <1>7 DEF Sizes

\* The item in front, when there is one
LEMMA FrontItem ==
    ASSUME Counts, HasHead
    PROVE  /\ taken + 1 \in 1..Len(stream) /\ Size(Head1) \in Nat \ {0}
           /\ phase = "HTTP" => Head1 \in Requests
           /\ phase = "WS" => Head1 \in Frames /\ taken + 1 \in 2..Len(stream)
<1>1. taken + 1 \in 1..Len(stream) /\ (phase = "WS" => taken + 1 \in 2..Len(stream))
  BY Items DEF Counts, HasHead
<1> QED BY <1>1, Items DEF Counts, Head1

\* An item is taken.
LEMMA ConsumeCounts ==
    ASSUME Counts, HasHead, inlen >= Size(Head1), Consume, UNCHANGED <<stream, transit>>
    PROVE  /\ inlen' \in 0..INPUT_BUF_SIZE /\ taken' \in 1..Len(stream)
           /\ transit' + inlen' + Sums(Sizes')[taken'] = Total(Sizes')
<1>1. /\ taken + 1 \in 1..Len(stream) /\ Size(Head1) \in Nat
      /\ inlen' = inlen - Size(Head1) /\ taken' = taken + 1
  BY FrontItem DEF Consume
<1>2. Sizes' = Sizes /\ Sizes \in Seq(Nat) /\ Len(Sizes) = Len(stream) /\ Sizes[taken + 1] = Size(Head1)
  BY <1>1, Items DEF Counts, Sizes, Head1
<1>3. /\ Sums(Sizes) \in [0..Len(stream) -> Nat]
      /\ \A i \in 1..Len(stream) : Sums(Sizes)[i] = Sums(Sizes)[i - 1] + Sizes[i]
      /\ Total(Sizes) \in Nat
  BY <1>2, SumsAre
<1>4. /\ inlen \in 0..INPUT_BUF_SIZE /\ INPUT_BUF_SIZE \in Nat /\ transit \in Nat
      /\ taken \in 0..Len(stream) /\ Len(stream) \in Nat
  BY Items, SizeAssumption DEF Counts, INPUT_BUF_SIZE
<1>5. Sums(Sizes)[taken + 1] = Sums(Sizes)[taken] + Size(Head1) /\ Sums(Sizes)[taken] \in Nat
  <2>1. (taken + 1) - 1 = taken
    BY <1>4
  <2> QED BY <1>1, <1>2, <1>3, <1>4, <2>1
<1>6. inlen' \in 0..INPUT_BUF_SIZE
  BY <1>1, <1>4
<1>7. transit + inlen + Sums(Sizes)[taken] = Total(Sizes)
  BY DEF Counts
<1>8. transit + (inlen - Size(Head1)) + (Sums(Sizes)[taken] + Size(Head1)) = Total(Sizes)
  BY <1>1, <1>4, <1>5, <1>7
<1> QED BY <1>1, <1>2, <1>5, <1>6, <1>8

\* What a step does to the counts, one of four things: it reads; it takes the
\* item in front; it stops for lack of input; it ends the connection.
Reads ==
    /\ Read /\ UNCHANGED message
Takes ==
    /\ busy /\ HasHead /\ inlen >= Size(Head1) /\ Consume
    /\ UNCHANGED <<stream, transit>>
    /\ (phase' = "CLOSING" /\ busy' = FALSE) \/ (phase' = "WS" /\ busy' = busy)
    /\ failed' \in {failed, "reply"}
Waits ==
    /\ busy /\ HasHead => inlen < Size(Head1)
    /\ busy' = FALSE /\ UNCHANGED <<stream, transit, inlen, taken, phase, failed>>
Ends ==
    /\ UNCHANGED <<stream, transit, inlen, taken>>
    /\ phase' = "CLOSING" /\ busy' = FALSE /\ UNCHANGED failed
Fills ==
    /\ Open /\ ~busy /\ transit > 0 /\ Room = 0 /\ failed' = "input"
    /\ UNCHANGED <<stream, transit, inlen, taken, busy, phase>>

\* Every step is one of these.
LEMMA Moves == ASSUME Counts, Next PROVE Reads \/ Takes \/ Waits \/ Ends \/ Fills
<1>1. CASE Read
  BY <1>1 DEF Read, Reads
<1>2. CASE InbufFull
  BY <1>2 DEF InbufFull, Fills
<1>3. CASE HttpWait
  <2>1. HasHead => inlen < Size(Head1)
    <3> SUFFICES ASSUME HasHead, ~HeaderThere PROVE inlen < Size(Head1)
      BY <1>3 DEF HttpWait
    <3>1. Head1 \in Requests
      BY <1>3, FrontItem DEF HttpWait, InHttp
    <3>2. /\ "head" \in DOMAIN Head1 /\ Head1.head \in Nat /\ Head1.content_length \in Nat
          /\ inlen < Head1.head /\ inlen \in Nat
      <4>1. inlen \in Nat
        BY SizeAssumption DEF Counts, INPUT_BUF_SIZE
      <4>2. "head" \in DOMAIN Head1 /\ Head1.head \in Nat /\ Head1.content_length \in Nat
        BY <3>1 DEF Requests
      <4> QED BY <4>1, <4>2 DEF HeaderThere
    <3> QED BY <3>2 DEF Size
  <2> QED BY <1>3, <2>1 DEF HttpWait, Waits, InHttp
<1>4. CASE FrameWait
  BY <1>4 DEF FrameWait, Waits, InWs
<1>5. CASE HttpRefuse \/ FrameMalformed \/ MessageTooLong
  BY <1>5 DEF HttpRefuse, FrameMalformed, MessageTooLong, Close, Ends
<1>6. CASE HttpRequest \/ HttpUpgrade
  BY <1>6 DEF HttpRequest, HttpUpgrade, AcceptUpgrade, InHttp, Complete, HeaderThere, Close, Takes
<1>7. CASE Fragment \/ Ping \/ Pong \/ CloseFrame
  BY <1>7 DEF Fragment, Ping, AnswerPing, Pong, CloseFrame, InWs, FrameThere, Close, Takes
<1>8. CASE LastFragment
  <2>1. /\ busy /\ phase = "WS" /\ HasHead /\ inlen >= Size(Head1) /\ Consume
        /\ UNCHANGED <<stream, transit>>
    BY <1>8 DEF LastFragment, InWs, FrameThere
  <2>2. \/ OnMessage(Append(MessageSoFar, taken + 1))
        \/ UNCHANGED <<busy, phase, failed>>
    BY <1>8 DEF LastFragment
  <2>3. /\ (phase' = "CLOSING" /\ busy' = FALSE) \/ UNCHANGED <<phase, busy>>
        /\ failed' \in {failed, "reply"}
    BY <2>2 DEF OnMessage, ClientSend, Close
  <2> QED BY <2>1, <2>3 DEF Takes
<1> QED BY <1>1, <1>2, <1>3, <1>4, <1>5, <1>6, <1>7, <1>8 DEF Next, ProcessClientBuffer

\* The counts are kept.
LEMMA CountsKept == Counts /\ [Next]_vars => Counts'
<1> SUFFICES ASSUME Counts, [Next]_vars PROVE Counts'
  OBVIOUS
<1>1. INPUT_BUF_SIZE \in Nat
  BY SizeAssumption DEF INPUT_BUF_SIZE
<1>2. CASE Reads
  <2>1. PICK n \in 1..transit : n <= Room /\ inlen' = inlen + n /\ transit' = transit - n
    BY <1>2 DEF Reads, Read
  <2>2. /\ busy' = TRUE /\ UNCHANGED <<stream, taken, phase, failed>>
    BY <1>2 DEF Reads, Read
  <2>3. transit' \in Nat /\ inlen' \in 0..INPUT_BUF_SIZE /\ transit' + inlen' = transit + inlen
    BY <1>1, <2>1 DEF Counts, Room
  <2>4. UNCHANGED Sizes
    BY <2>2 DEF Sizes
  <2> QED BY <2>2, <2>3, <2>4 DEF Counts
<1>3. CASE Takes
  <2>1. /\ inlen' \in 0..INPUT_BUF_SIZE /\ taken' \in 1..Len(stream)
        /\ transit' + inlen' + Sums(Sizes')[taken'] = Total(Sizes')
    BY <1>3, ConsumeCounts DEF Takes
  <2>2. /\ UNCHANGED <<stream, transit>> /\ busy = TRUE
        /\ phase' \in {"WS", "CLOSING"} /\ (phase' = "WS" => busy' = busy)
        /\ failed' \in {failed, "reply"}
    BY <1>3 DEF Takes, Counts
  <2>3. busy' \in BOOLEAN
    BY <1>3 DEF Takes, Counts
  <2>4. taken' # 0 /\ taken' \in 0..Len(stream)
    BY <2>1
  <2>5. ~(Open /\ ~busy)'
    BY <2>2 DEF Open
  <2> QED BY <2>1, <2>2, <2>3, <2>4, <2>5 DEF Counts
<1>4. CASE Waits \/ UNCHANGED vars
  <2>1. UNCHANGED <<stream, transit, inlen, taken, phase, failed>> /\ busy' \in {busy, FALSE}
    BY <1>4 DEF Waits, vars
  <2>2. UNCHANGED <<Sizes, HasHead, Head1, Open>>
    BY <2>1 DEF Sizes, HasHead, Head1, Open
  <2>3. Size(Head1)' = Size(Head1)
    BY <2>2 DEF Size
  <2>4. Open /\ ~busy' /\ HasHead => inlen < Size(Head1)
    BY <1>4 DEF Waits, vars, Counts
  <2> QED BY <2>1, <2>2, <2>3, <2>4 DEF Counts
<1>5. CASE Ends \/ Fills
  <2>1. /\ UNCHANGED <<stream, transit, inlen, taken>> /\ busy' \in {busy, FALSE}
        /\ phase' \in {phase, "CLOSING"} /\ failed' \in {failed, "input"}
        /\ phase' = "CLOSING" \/ failed' = "input"
    BY <1>5 DEF Ends, Fills
  <2>2. UNCHANGED Sizes
    BY <2>1 DEF Sizes
  <2> QED BY <2>1, <2>2 DEF Counts, Open
<1> QED BY <1>2, <1>3, <1>4, <1>5, Moves

\* At first nothing has been read.
LEMMA CountsInit == Init => Counts
<1> SUFFICES ASSUME Init PROVE Counts
  OBVIOUS
<1>1. /\ stream \in Streams /\ transit = Total(Sizes) /\ inlen = 0 /\ taken = 0
      /\ busy = FALSE /\ phase = "HTTP" /\ failed = "no"
  BY DEF Init, Sizes
<1>2. /\ Sizes \in Seq(Nat) /\ Len(stream) \in Nat \ {0}
      /\ \A i \in 1..Len(stream) : Size(stream[i]) \in Nat \ {0}
  BY <1>1, Items
<1>3. Total(Sizes) \in Nat /\ Sums(Sizes)[0] = 0
  BY <1>2, SumsAre
<1>4. 0 \in 0..INPUT_BUF_SIZE /\ 0 \in 0..Len(stream)
  BY <1>2, SizeAssumption DEF INPUT_BUF_SIZE
<1>5. 1 \in 1..Len(stream)
  BY <1>2
<1>6. inlen < Size(Head1)
  BY <1>1, <1>2, <1>5 DEF Head1
<1>7. transit + inlen + Sums(Sizes)[taken] = Total(Sizes)
  BY <1>1, <1>3
<1>8. /\ phase \in {"HTTP", "WS", "CLOSING"} /\ failed \in {"no", "input", "reply"}
      /\ phase # "WS" /\ transit \in Nat
  BY <1>1, <1>3
<1> QED BY <1>1, <1>4, <1>6, <1>7, <1>8 DEF Counts

----------------------------------------------------------------------------
\* The message in progress

PayloadsOf(b) == [i \in 1..Len(b) |-> stream[b[i]].payload]

\* b lists frames among the first n items, in order.
Lists(b, n) ==
    /\ b \in Seq(2..n)
    /\ \A i, k \in DOMAIN b : i < k => b[i] < b[k]

\* One more frame in a list
LEMMA Extends ==
    ASSUME stream \in Streams, NEW n \in Nat, n + 1 \in 2..Len(stream),
           NEW b, Lists(b, n)
    PROVE  /\ Lists(Append(b, n + 1), n + 1)
           /\ ToSet(Append(b, n + 1)) = ToSet(b) \cup {n + 1}
           /\ Total(PayloadsOf(b)) \in Nat /\ stream[n + 1].payload \in Nat
           /\ Total(PayloadsOf(Append(b, n + 1))) = Total(PayloadsOf(b)) + stream[n + 1].payload
<1> DEFINE c == Append(b, n + 1)
           len == Len(b)
<1>1. /\ b \in Seq(2..n) /\ len \in Nat /\ DOMAIN b = 1..len
      /\ \A i \in 1..len : b[i] \in 2..n
  BY DEF Lists
<1>2. b \in Seq(2..(n + 1)) /\ n + 1 \in 2..(n + 1)
  <2>1. \A i \in 1..len : b[i] \in 2..(n + 1)
    BY <1>1
  <2>2. Len(stream) \in Nat
    BY Items
  <2> QED BY <1>1, <2>1, <2>2
<1>3. /\ c \in Seq(2..(n + 1)) /\ Len(c) = len + 1 /\ DOMAIN c = 1..(len + 1)
      /\ \A i \in 1..len : c[i] = b[i]
      /\ c[len + 1] = n + 1
  BY <1>1, <1>2, AppendProperties
<1>4. \A i \in 1..(len + 1) : i = len + 1 \/ i \in 1..len
  BY <1>1
<1>5. \A k \in 2..Len(stream) : stream[k].payload \in Nat
  BY Items DEF Frames
<1>6. Len(stream) \in Nat /\ n + 1 <= Len(stream)
  BY Items
<1>7. \A i \in 1..len : b[i] \in 2..Len(stream)
  BY <1>1, <1>6
<1> HIDE DEF c, len
<1>8. Lists(c, n + 1)
  <2>1. ASSUME NEW i \in 1..(len + 1), NEW k \in 1..(len + 1), i < k PROVE c[i] < c[k]
    <3>1. i \in 1..len
      BY <1>1, <1>4, <2>1
    <3>2. CASE k = len + 1
      BY <1>1, <1>3, <3>1, <3>2
    <3>3. CASE k \in 1..len
      BY <1>1, <1>3, <2>1, <3>1, <3>3 DEF Lists
    <3> QED BY <1>4, <3>2, <3>3
  <2> QED BY <1>3, <2>1 DEF Lists
<1>9. ToSet(c) = ToSet(b) \cup {n + 1}
  <2>1. ToSet(c) = {c[i] : i \in 1..(len + 1)} /\ ToSet(b) = {b[i] : i \in 1..len}
    BY <1>1, <1>3 DEF ToSet
  <2>2. len + 1 \in 1..(len + 1) /\ \A i \in 1..len : i \in 1..(len + 1)
    BY <1>1
  <2> QED BY <1>3, <1>4, <2>1, <2>2
<1>10. /\ PayloadsOf(b) \in Seq(Nat)
       /\ PayloadsOf(c) = Append(PayloadsOf(b), stream[n + 1].payload)
  <2>1. PayloadsOf(b) = [i \in 1..len |-> stream[b[i]].payload]
    BY DEF PayloadsOf, len
  <2>2. PayloadsOf(b) \in [1..len -> Nat]
    BY <1>5, <1>7, <2>1
  <2>3. PayloadsOf(b) \in Seq(Nat) /\ Len(PayloadsOf(b)) = len
    BY <1>1, <2>2
  <2>4. PayloadsOf(c) = [i \in 1..(len + 1) |-> stream[c[i]].payload]
    BY <1>3 DEF PayloadsOf
  <2> DEFINE d == Append(PayloadsOf(b), stream[n + 1].payload)
  <2>5. /\ d \in Seq(Nat) /\ Len(d) = len + 1
        /\ \A i \in 1..len : d[i] = PayloadsOf(b)[i]
        /\ d[len + 1] = stream[n + 1].payload
    BY <1>5, <2>3, AppendProperties
  <2> HIDE DEF d
  <2>6. DOMAIN d = 1..(len + 1) /\ d = [i \in 1..(len + 1) |-> d[i]]
    BY <2>5
  <2>7. \A i \in 1..(len + 1) : d[i] = stream[c[i]].payload
    <3>1. \A i \in 1..len : d[i] = stream[c[i]].payload
      BY <1>3, <2>1, <2>5
    <3> QED BY <1>3, <1>4, <2>5, <3>1
  <2>8. d = PayloadsOf(c)
    BY <2>4, <2>6, <2>7
  <2> QED BY <2>3, <2>8 DEF d
<1>11. Total(PayloadsOf(b)) \in Nat /\ stream[n + 1].payload \in Nat
  BY <1>5, <1>10, SumsAre
<1>12. Total(PayloadsOf(c)) = Total(PayloadsOf(b)) + stream[n + 1].payload
  BY <1>10, <1>11, TotalAppend
<1> QED BY <1>8, <1>9, <1>11, <1>12 DEF c

\* A list of nothing, and a list where more was taken since
LEMMA ListsNothing ==
    /\ \A n \in Nat : Lists(<<>>, n)
    /\ Total(PayloadsOf(<<>>)) = 0 /\ ToSet(<<>>) = {}
<1>1. \A n \in Nat : Lists(<<>>, n)
  BY DEF Lists
<1>2. PayloadsOf(<<>>) = <<>>
  BY DEF PayloadsOf
<1> QED BY <1>1, <1>2, TotalFew DEF ToSet

\* A list stays one when more is taken.
LEMMA ListsStill ==
    ASSUME NEW n \in Nat, NEW k \in Nat, n <= k, NEW b, Lists(b, n)
    PROVE  Lists(b, k)
<1>1. b \in Seq(2..n) /\ 2..n \subseteq 2..k
  BY DEF Lists
<1>2. b \in Seq(2..k)
  BY <1>1
<1> QED BY <1>2 DEF Lists

----------------------------------------------------------------------------
\* Which frames belong together

\* After n items the message that frame s began is in progress.
Pending(s, n) ==
    /\ s \in 2..n /\ Begins(s)
    /\ \A j \in (s + 1)..n : ~Begins(j)
    /\ \A j \in s..n : Data(j) => ~stream[j].fin

\* One more frame: it goes on with the message in progress, or begins another,
\* or is none of a message's, and it ends a message if it is the last of one.
LEMMA OneMoreFrame ==
    ASSUME NEW n \in Nat \ {0}
    PROVE  LET k == n + 1 IN
           /\ \A s \in 2..n : Begins(k) => ~Pending(s, k)
           /\ \A s \in 2..n : ~Begins(k) /\ ~Data(k) => (Pending(s, k) <=> Pending(s, n))
           /\ \A s \in 2..n : ~Begins(k) /\ Data(k) =>
                /\ Pending(s, k) <=> Pending(s, n) /\ ~stream[k].fin
                /\ Within(s, k) <=> Pending(s, n)
           /\ \A s \in 2..n : Begins(k) => ~Within(s, k)
           /\ Pending(k, k) <=> Begins(k) /\ (Data(k) => ~stream[k].fin)
           /\ Within(k, k) <=> Begins(k) /\ Data(k)
<1> DEFINE k == n + 1
<1>1. k \in Nat /\ k \in 2..k /\ (k + 1)..k = {} /\ k..k = {k} /\ k..(k - 1) = {}
  OBVIOUS
<1>2. ASSUME NEW s \in 2..n
      PROVE  /\ s \in 2..k /\ s <= k
             /\ (s + 1)..k = ((s + 1)..n) \cup {k}
             /\ s..k = (s..n) \cup {k} /\ s..(k - 1) = s..n
  OBVIOUS
<1> HIDE DEF k
<1>3. ASSUME NEW s \in 2..n, Begins(k) PROVE ~Pending(s, k) /\ ~Within(s, k)
  BY <1>2, <1>3 DEF Pending, Within
<1>4. ASSUME NEW s \in 2..n, ~Begins(k)
      PROVE  /\ ~Data(k) => (Pending(s, k) <=> Pending(s, n))
             /\ Data(k) => (Pending(s, k) <=> Pending(s, n) /\ ~stream[k].fin)
             /\ Data(k) => (Within(s, k) <=> Pending(s, n))
  BY <1>2, <1>4 DEF Pending, Within
<1>5. /\ Pending(k, k) <=> Begins(k) /\ (Data(k) => ~stream[k].fin)
      /\ Within(k, k) <=> Begins(k) /\ Data(k)
  BY <1>1 DEF Pending, Within
<1> QED BY <1>3, <1>4, <1>5 DEF k

\* At most one message is in progress.
LEMMA OnePending ==
    ASSUME NEW n \in Nat, NEW s, NEW t, Pending(s, n), Pending(t, n)
    PROVE  s = t
<1>1. s \in 2..n /\ t \in 2..n
  BY DEF Pending
<1>2. CASE s < t
  <2>1. t \in (s + 1)..n
    BY <1>1, <1>2
  <2> QED BY <2>1 DEF Pending
<1>3. CASE t < s
  <2>1. s \in (t + 1)..n
    BY <1>1, <1>3
  <2> QED BY <2>1 DEF Pending
<1> QED BY <1>1, <1>2, <1>3

\* The fragments of a message, with one more frame
LEMMA OneMoreFragment ==
    ASSUME NEW n \in Nat, NEW s \in 2..(n + 1)
    PROVE  /\ FragmentsOf(n + 1, n) = {}
           /\ Data(n + 1) => FragmentsOf(s, n + 1) = FragmentsOf(s, n) \cup {n + 1}
           /\ ~Data(n + 1) => FragmentsOf(s, n + 1) = FragmentsOf(s, n)
<1>1. (n + 1)..n = {} /\ s..(n + 1) = (s..n) \cup {n + 1}
  OBVIOUS
<1> QED BY <1>1 DEF FragmentsOf

\* The bytes of a message, with one more frame
LEMMA MoreBytes ==
    ASSUME stream \in Streams, NEW n \in Nat, n + 1 \in 2..Len(stream), NEW s \in 2..(n + 1)
    PROVE  /\ Bytes(n + 1, n) = 0 /\ Bytes(s, n) \in Nat
           /\ Bytes(s, n + 1) = Bytes(s, n) + (IF Data(n + 1) THEN stream[n + 1].payload ELSE 0)
<1> DEFINE weight(j) == IF Data(s + j - 1) THEN stream[s + j - 1].payload ELSE 0
           m == n + 1 - s
           w == [j \in 1..m |-> weight(j)]
           x == IF Data(n + 1) THEN stream[n + 1].payload ELSE 0
<1>1. Len(stream) \in Nat /\ \A k \in 2..Len(stream) : stream[k].payload \in Nat
  BY Items DEF Frames
<1>2. m \in Nat /\ (n + 1) + 1 - s = m + 1 /\ s + (m + 1) - 1 = n + 1
  OBVIOUS
<1>3. \A j \in 1..(m + 1) : s + j - 1 \in 2..Len(stream)
  BY <1>1
<1>4. \A j \in 1..(m + 1) : weight(j) \in Nat
  BY <1>1, <1>3
<1>5. weight(m + 1) = x
  BY <1>2
<1>6. Bytes(s, n) = Total(w) /\ Bytes(s, n + 1) = Total([j \in 1..(m + 1) |-> weight(j)])
  BY <1>2 DEF Bytes
<1>7. Bytes(n + 1, n) = 0
  <2>1. 1..((n + 1) - (n + 1)) = {}
    OBVIOUS
  <2>2. [j \in 1..((n + 1) - (n + 1)) |->
           IF Data(n + 1 + j - 1) THEN stream[n + 1 + j - 1].payload ELSE 0] = <<>>
    BY <2>1
  <2>3. n + 1 - (n + 1) = (n + 1) - (n + 1)
    OBVIOUS
  <2> QED BY <2>2, <2>3, TotalFew DEF Bytes
<1> HIDE DEF weight, m, x
<1>8. w \in Seq(Nat) /\ Len(w) = m
  <2>1. \A j \in 1..m : weight(j) \in Nat
    BY <1>2, <1>4
  <2> QED BY <1>2, <2>1
<1>9. [j \in 1..(m + 1) |-> weight(j)] = Append(w, x)
  <2> DEFINE v == Append(w, x)
  <2>0. x \in Nat
    <3>1. m + 1 \in 1..(m + 1)
      BY <1>2
    <3> QED BY <1>4, <1>5, <3>1
  <2>1. \A j \in 1..m : w[j] = weight(j)
    OBVIOUS
  <2> HIDE DEF w
  <2>2. /\ v \in Seq(Nat) /\ Len(v) = m + 1
        /\ \A j \in 1..m : v[j] = w[j]
        /\ v[m + 1] = x
    BY <1>8, <2>0, AppendProperties
  <2> HIDE DEF v
  <2>3. \A j \in 1..(m + 1) : j = m + 1 \/ j \in 1..m
    BY <1>2
  <2>4. \A j \in 1..(m + 1) : v[j] = weight(j)
    BY <1>5, <2>1, <2>2, <2>3
  <2>5. v = [j \in 1..(m + 1) |-> v[j]]
    BY <2>2
  <2> QED BY <2>4, <2>5 DEF v
<1>10. x \in Nat
  <2>1. m + 1 \in 1..(m + 1)
    BY <1>2
  <2> QED BY <1>4, <1>5, <2>1
<1> HIDE DEF w
<1>11. Total(Append(w, x)) = Total(w) + x /\ Total(w) \in Nat
  BY <1>8, <1>10, TotalAppend, SumsAre
<1> QED BY <1>6, <1>7, <1>9, <1>11 DEF x

\* What has been sent by the end of one more frame
LEMMA SentMore ==
    ASSUME NEW n \in Nat \ {0}
    PROVE  Sent(n + 1) = Sent(n) \cup
             {FragmentsOf(s, n + 1) : s \in {s \in 2..(n + 1) : IsText(s, n + 1) /\ stream[n + 1].fin}}
<1> DEFINE k == n + 1
           New == {FragmentsOf(s, k) : s \in {s \in 2..k : IsText(s, k) /\ stream[k].fin}}
           Whole(m) == {ends \in (2..m) \X (2..m) : IsText(ends[1], ends[2]) /\ stream[ends[2]].fin}
<1>1. k \in 2..k /\ (\A i \in 2..n : i \in 2..k) /\ (\A i \in 2..k : i = k \/ i \in 2..n)
  OBVIOUS
<1>2. \A m : Sent(m) = {FragmentsOf(ends[1], ends[2]) : ends \in Whole(m)}
  BY DEF Sent
<1>3. Whole(k) = Whole(n) \cup {<<s, k>> : s \in {s \in 2..k : IsText(s, k) /\ stream[k].fin}}
  <2>1. ASSUME NEW ends \in Whole(k), ends[2] # k PROVE ends \in Whole(n)
    <3>1. ends[2] \in 2..n /\ ends[1] \in 2..k /\ ends[1] <= ends[2]
      BY <1>1, <2>1 DEF IsText, Within
    <3>2. ends[1] \in 2..n
      BY <3>1
    <3> QED BY <3>1, <3>2
  <2>2. ASSUME NEW ends \in Whole(k), ends[2] = k
        PROVE  ends \in {<<s, k>> : s \in {s \in 2..k : IsText(s, k) /\ stream[k].fin}}
    BY <2>2
  <2>3. Whole(n) \subseteq Whole(k)
    BY <1>1
  <2>4. \A s \in 2..k : IsText(s, k) /\ stream[k].fin => <<s, k>> \in Whole(k)
    BY <1>1
  <2> HIDE DEF k
  <2> QED BY <2>1, <2>2, <2>3, <2>4
<1> HIDE DEF Whole, k
<1>4. {FragmentsOf(ends[1], ends[2]) : ends \in Whole(k)}
        = {FragmentsOf(ends[1], ends[2]) : ends \in Whole(n)} \cup New
  <2> DEFINE S == {s \in 2..k : IsText(s, k) /\ stream[k].fin}
  <2>1. New = {FragmentsOf(s, k) : s \in S}
    OBVIOUS
  <2>2. Whole(k) = Whole(n) \cup {<<s, k>> : s \in S}
    BY <1>3
  <2> HIDE DEF S, New
  <2> DEFINE P == {<<s, k>> : s \in S}
  <2>3. {FragmentsOf(ends[1], ends[2]) : ends \in P} = New
    <3>1. ASSUME NEW ends \in P PROVE FragmentsOf(ends[1], ends[2]) \in New
      <4>1. PICK s \in S : ends = <<s, k>>
        OBVIOUS
      <4>2. ends[1] = s /\ ends[2] = k
        BY <4>1
      <4> QED BY <2>1, <4>2
    <3>2. ASSUME NEW s \in S PROVE \E ends \in P : FragmentsOf(s, k) = FragmentsOf(ends[1], ends[2])
      <4>1. <<s, k>> \in P /\ <<s, k>>[1] = s /\ <<s, k>>[2] = k
        OBVIOUS
      <4> QED BY <4>1
    <3> HIDE DEF P
    <3> QED BY <2>1, <3>1, <3>2
  <2> QED BY <2>2, <2>3
<1> QED BY <1>2, <1>4 DEF k

\* Messages that were sent ended before the one in progress began.
LEMMA SentBefore ==
    ASSUME NEW n \in Nat, NEW F \in Sent(n), NEW b \in F
    PROVE  b \in 2..n /\ \A s : Pending(s, n) => b < s
<1>1. PICK t \in 2..n, i \in 2..n : IsText(t, i) /\ stream[i].fin /\ F = FragmentsOf(t, i)
  BY DEF Sent
<1>2. b \in t..i
  BY <1>1 DEF FragmentsOf
<1>3. b \in 2..n /\ b <= i
  BY <1>1, <1>2
<1>4. ASSUME NEW s, Pending(s, n) PROVE b < s
  <2>1. s \in 2..n /\ i \notin s..n
    BY <1>1, <1>4 DEF Pending, IsText, Within
  <2> QED BY <1>1, <1>3, <2>1
<1> QED BY <1>3, <1>4

----------------------------------------------------------------------------
\* What gathers in msgbuf

LengthSoFar == IF Continues(Head1) THEN msglen ELSE 0

\* msglen counts the payloads of the frames in msgbuf.
Gathered ==
    /\ msglen \in 0..MSG_BUF_SIZE
    /\ msg_opcode \in {"none", "TEXT", "BIN"}
    /\ Lists(msgbuf, taken)
    /\ msglen = Total(PayloadsOf(msgbuf))

\* The message in progress is the one that the frames taken leave unfinished.
InProgress ==
    phase # "CLOSING" =>
        /\ msg_opcode = "none" => \A s \in 2..taken : ~Pending(s, taken)
        /\ msg_opcode # "none" =>
             \E s \in 2..taken :
                /\ Pending(s, taken) /\ stream[s].opcode = msg_opcode
                /\ msg_opcode = "TEXT" =>
                     ToSet(msgbuf) = FragmentsOf(s, taken) /\ msglen = Bytes(s, taken)

DataFrame == InWs /\ FrameThere /\ Head1.opcode \in DataOpcodes
Rests ==
    /\ UNCHANGED <<stream, taken, message, delivered>>
    /\ phase' \in {phase, "CLOSING"}
Passes ==
    /\ HasHead /\ taken' = taken + 1 /\ UNCHANGED <<stream, message, delivered>>
    /\ phase = "HTTP" \/ (phase = "WS" /\ Head1.opcode \notin DataOpcodes)

\* What a step does to the message in progress
LEMMA MessageMoves ==
    ASSUME Counts, [Next]_vars
    PROVE  Rests \/ Passes \/ (DataFrame /\ (MessageTooLong \/ Fragment \/ LastFragment))
<1>1. CASE Read \/ InbufFull \/ UNCHANGED vars
  BY <1>1 DEF Read, InbufFull, vars, Rests
<1>2. CASE HttpWait \/ HttpRefuse \/ FrameWait \/ FrameMalformed
  BY <1>2 DEF HttpWait, HttpRefuse, FrameWait, FrameMalformed, Close, Rests
<1>3. CASE HttpRequest \/ HttpUpgrade
  BY <1>3 DEF HttpRequest, HttpUpgrade, AcceptUpgrade, InHttp, Complete, HeaderThere, Consume,
              Passes, message
<1>4. CASE Ping \/ Pong \/ CloseFrame
  BY <1>4 DEF Ping, AnswerPing, Pong, CloseFrame, InWs, FrameThere, Consume, Passes, DataOpcodes
<1>5. CASE MessageTooLong \/ Fragment \/ LastFragment
  BY <1>5 DEF MessageTooLong, Fragment, LastFragment, DataFrame
<1> QED BY <1>1, <1>2, <1>3, <1>4, <1>5 DEF Next, ProcessClientBuffer

\* What there is of the message of a data frame before it
LEMMA SoFar ==
    ASSUME Counts, Gathered, DataFrame
    PROVE  /\ taken \in Nat \ {0} /\ taken + 1 \in 2..Len(stream)
           /\ Head1 = stream[taken + 1] /\ Head1.payload \in Nat
           /\ Lists(MessageSoFar, taken) /\ LengthSoFar = Total(PayloadsOf(MessageSoFar))
           /\ LengthSoFar \in 0..MSG_BUF_SIZE
           /\ NewLength = LengthSoFar + Head1.payload /\ NewLength - Head1.payload = LengthSoFar
           /\ MessageOpcode \in {"none", "TEXT", "BIN"}
           /\ Data(taken + 1) /\ (Begins(taken + 1) <=> ~Continues(Head1))
<1>1. /\ taken + 1 \in 2..Len(stream) /\ Head1 \in Frames /\ Head1 = stream[taken + 1]
      /\ Head1.opcode \in {"CONT", "TEXT", "BIN"}
  BY FrontItem DEF DataFrame, InWs, FrameThere, Head1, DataOpcodes
<1>2. taken \in Nat \ {0}
  BY <1>1, Items DEF Counts
<1>3. Head1.payload \in Nat /\ MSG_BUF_SIZE \in Nat
  BY <1>1, SizeAssumption DEF Frames
<1>4. /\ Lists(MessageSoFar, taken) /\ LengthSoFar = Total(PayloadsOf(MessageSoFar))
      /\ LengthSoFar \in 0..MSG_BUF_SIZE
  <2>1. CASE Continues(Head1)
    BY <2>1 DEF Gathered, MessageSoFar, LengthSoFar
  <2>2. CASE ~Continues(Head1)
    <3>1. MessageSoFar = <<>> /\ LengthSoFar = 0
      BY <2>2 DEF MessageSoFar, LengthSoFar
    <3> QED BY <1>2, <1>3, <3>1, ListsNothing
  <2> QED BY <2>1, <2>2
<1>5. NewLength = LengthSoFar + Head1.payload
  BY DEF NewLength, LengthSoFar
<1>6. NewLength - Head1.payload = LengthSoFar
  BY <1>3, <1>4, <1>5
<1>7. MessageOpcode \in {"none", "TEXT", "BIN"}
  BY <1>1 DEF MessageOpcode, Gathered, Continues
<1>8. Data(taken + 1) /\ (Begins(taken + 1) <=> ~Continues(Head1))
  BY <1>1 DEF Data, DataOpcodes, Begins, Continues
<1> QED BY <1>1, <1>2, <1>3, <1>4, <1>5, <1>6, <1>7, <1>8

\* Whatever is taken, msgbuf lists frames that were taken and msglen counts them.
LEMMA GatheredKept == ASSUME Counts, Gathered, [Next]_vars PROVE Gathered'
<1>0. stream \in Streams /\ taken \in Nat /\ MSG_BUF_SIZE \in Nat
  BY Items, SizeAssumption DEF Counts
<1>1. ASSUME NEW b, msgbuf' = b, stream' = stream, Lists(b, taken'), msglen' = Total(PayloadsOf(b)),
             msglen' \in 0..MSG_BUF_SIZE, msg_opcode' \in {"none", "TEXT", "BIN"}
      PROVE  Gathered'
  <2>1. PayloadsOf(msgbuf)' = PayloadsOf(b)
    BY <1>1 DEF PayloadsOf
  <2> QED BY <1>1, <2>1 DEF Gathered
<1>2. CASE Rests
  BY <1>1, <1>2 DEF Gathered, Rests, message
<1>3. CASE Passes
  <2>1. taken' = taken + 1 /\ UNCHANGED <<stream, message>>
    BY <1>3 DEF Passes
  <2>2. Lists(msgbuf, taken + 1)
    BY <1>0, ListsStill DEF Gathered
  <2> QED BY <1>1, <2>1, <2>2 DEF Gathered, message
<1>4. ASSUME DataFrame, MessageTooLong \/ Fragment \/ LastFragment PROVE Gathered'
  <2> DEFINE k == taken + 1
  <2>1. /\ taken \in Nat \ {0} /\ k \in 2..Len(stream)
        /\ Head1 = stream[k] /\ Head1.payload \in Nat
        /\ Lists(MessageSoFar, taken) /\ LengthSoFar = Total(PayloadsOf(MessageSoFar))
        /\ LengthSoFar \in 0..MSG_BUF_SIZE
        /\ NewLength = LengthSoFar + Head1.payload /\ NewLength - Head1.payload = LengthSoFar
        /\ MessageOpcode \in {"none", "TEXT", "BIN"}
    BY <1>4, SoFar
  <2>2. CASE MessageTooLong
    <3>1. /\ msg_opcode' = MessageOpcode /\ msglen' = LengthSoFar /\ msgbuf' = MessageSoFar
          /\ UNCHANGED <<stream, taken>>
      BY <2>1, <2>2 DEF MessageTooLong
    <3> QED BY <1>1, <2>1, <3>1
  <2>3. CASE Fragment
    <3>1. msg_opcode' = MessageOpcode /\ taken' = k /\ stream' = stream
      BY <2>3 DEF Fragment, Consume
    <3>2. CASE Text
      <4>1. /\ NewLength <= MSG_BUF_SIZE /\ msgbuf' = Append(MessageSoFar, k) /\ msglen' = NewLength
        BY <2>3, <3>2 DEF Fragment
      <4>2. /\ Lists(Append(MessageSoFar, k), k)
            /\ Total(PayloadsOf(Append(MessageSoFar, k))) = NewLength
        BY <1>0, <2>1, Extends
      <4>3. NewLength \in 0..MSG_BUF_SIZE
        BY <1>0, <2>1, <4>1
      <4> QED BY <1>1, <2>1, <3>1, <4>1, <4>2, <4>3
    <3>3. CASE ~Text
      <4>1. msgbuf' = MessageSoFar /\ msglen' = LengthSoFar
        BY <2>1, <2>3, <3>3 DEF Fragment
      <4>2. Lists(MessageSoFar, k)
        BY <2>1, ListsStill
      <4> QED BY <1>1, <2>1, <3>1, <4>1, <4>2
    <3> QED BY <3>2, <3>3
  <2>4. CASE LastFragment
    <3>1. msg_opcode' = "none" /\ msgbuf' = <<>> /\ msglen' = 0 /\ taken' = k /\ stream' = stream
      BY <2>4 DEF LastFragment, NoMessage, Consume
    <3>2. k \in Nat /\ 0 \in 0..MSG_BUF_SIZE
      BY <1>0, <2>1
    <3> QED BY <1>1, <3>1, <3>2, ListsNothing
  <2> QED BY <1>4, <2>2, <2>3, <2>4
<1> QED BY <1>2, <1>3, <1>4, MessageMoves

\* As the stream stays, what is said of its frames does not change.
LEMMA StreamStays ==
    ASSUME stream' = stream, NEW s
    PROVE  /\ Pending(s, taken)' <=> Pending(s, taken')
           /\ FragmentsOf(s, taken)' = FragmentsOf(s, taken')
           /\ Bytes(s, taken)' = Bytes(s, taken')
<1>1. \A j : (Data(j)' <=> Data(j)) /\ (Begins(j)' <=> Begins(j))
  BY DEF Data, Begins
<1>2. Pending(s, taken)' <=> Pending(s, taken')
  BY <1>1 DEF Pending
<1>3. FragmentsOf(s, taken)' = FragmentsOf(s, taken')
  BY <1>1 DEF FragmentsOf
<1>4. Bytes(s, taken)' = Bytes(s, taken')
  BY DEF Bytes, Data
<1> QED BY <1>2, <1>3, <1>4

\* What InProgress says of the state after a step that leaves the connection open
LEMMA StillInProgress ==
    ASSUME stream' = stream, NEW k, taken' = k,
           msg_opcode' = "none" => \A s \in 2..k : ~Pending(s, k),
           msg_opcode' # "none" =>
             \E s \in 2..k :
                /\ Pending(s, k) /\ stream[s].opcode = msg_opcode'
                /\ msg_opcode' = "TEXT" =>
                     ToSet(msgbuf') = FragmentsOf(s, k) /\ msglen' = Bytes(s, k)
    PROVE  InProgress'
<1>1. \A s : /\ Pending(s, taken)' <=> Pending(s, k)
             /\ FragmentsOf(s, taken)' = FragmentsOf(s, k)
             /\ Bytes(s, taken)' = Bytes(s, k)
  BY StreamStays
<1>2. ToSet(msgbuf)' = ToSet(msgbuf')
  BY DEF ToSet
<1>3. msg_opcode' = "none" => \A s \in 2..taken' : ~Pending(s, taken)'
  BY <1>1
<1>4. msg_opcode' # "none" =>
        \E s \in 2..taken' :
           /\ Pending(s, taken)' /\ stream'[s].opcode = msg_opcode'
           /\ msg_opcode' = "TEXT" =>
                ToSet(msgbuf)' = FragmentsOf(s, taken)' /\ msglen' = Bytes(s, taken)'
  BY <1>1, <1>2
<1> QED BY <1>3, <1>4 DEF InProgress

\* The frame in front goes on with the message in progress, begins a new one, or
\* ends one, and msgbuf keeps up with it.
LEMMA InProgressKept == ASSUME Counts, Gathered, InProgress, [Next]_vars PROVE InProgress'
<1> SUFFICES ASSUME phase' # "CLOSING" PROVE InProgress'
  BY DEF InProgress
<1>0. stream \in Streams /\ taken \in Nat /\ Len(stream) \in Nat
  BY Items DEF Counts
<1>1. CASE Rests
  <2>1. phase # "CLOSING" /\ UNCHANGED <<stream, taken, msg_opcode, msgbuf, msglen>>
    BY <1>1 DEF Rests, message
  <2> QED BY <2>1, StillInProgress DEF InProgress
<1>2. CASE Passes
  <2> DEFINE k == taken + 1
  <2>1. /\ taken' = k /\ UNCHANGED <<stream, msg_opcode, msgbuf, msglen>> /\ phase # "CLOSING"
    BY <1>2 DEF Passes, message
  <2>2. CASE phase = "HTTP"
    <3>1. taken = 0 /\ 2..taken = {} /\ 2..k = {}
      BY <2>2 DEF Counts
    <3>2. msg_opcode = "none"
      BY <2>1, <3>1 DEF InProgress
    <3> QED BY <2>1, <3>1, <3>2, StillInProgress
  <2>3. CASE phase = "WS"
    <3>1. k \in 2..Len(stream) /\ Head1 \in Frames /\ Head1 = stream[k] /\ taken \in Nat \ {0}
      BY <1>0, <1>2, <2>3, FrontItem DEF Passes, Head1, Counts
    <3>2. ~Data(k) /\ ~Begins(k)
      BY <1>2, <2>3, <3>1 DEF Passes, Data, Begins, DataOpcodes
    <3>3. /\ \A s \in 2..taken : Pending(s, k) <=> Pending(s, taken)
          /\ ~Pending(k, k)
      BY <3>1, <3>2, OneMoreFrame
    <3>4. \A s \in 2..taken : FragmentsOf(s, k) = FragmentsOf(s, taken) /\ Bytes(s, k) = Bytes(s, taken)
      <4> SUFFICES ASSUME NEW s \in 2..taken
                   PROVE  FragmentsOf(s, k) = FragmentsOf(s, taken) /\ Bytes(s, k) = Bytes(s, taken)
        OBVIOUS
      <4>1. s \in 2..(taken + 1)
        BY <1>0
      <4>2. Bytes(s, taken) \in Nat /\ Bytes(s, k) = Bytes(s, taken) + 0
        BY <1>0, <3>1, <3>2, <4>1, MoreBytes
      <4>3. FragmentsOf(s, k) = FragmentsOf(s, taken)
        BY <1>0, <3>2, <4>1, OneMoreFragment
      <4> QED BY <4>2, <4>3
    <3>5. \A s \in 2..k : s = k \/ s \in 2..taken
      BY <1>0
    <3>6. \A s \in 2..taken : s \in 2..k
      BY <1>0
    <3>7. msg_opcode = "none" => \A s \in 2..k : ~Pending(s, k)
      BY <2>1, <3>3, <3>5 DEF InProgress
    <3>8. msg_opcode # "none" =>
            \E s \in 2..k :
               /\ Pending(s, k) /\ stream[s].opcode = msg_opcode
               /\ msg_opcode = "TEXT" =>
                    ToSet(msgbuf) = FragmentsOf(s, k) /\ msglen = Bytes(s, k)
      BY <2>1, <3>3, <3>4, <3>6 DEF InProgress
    <3> HIDE DEF k
    <3> QED BY <2>1, <3>7, <3>8, StillInProgress
  <2> QED BY <1>2, <2>2, <2>3 DEF Passes
<1>3. ASSUME DataFrame, MessageTooLong \/ Fragment \/ LastFragment PROVE InProgress'
  <2> DEFINE k == taken + 1
  <2>1. /\ taken \in Nat \ {0} /\ k \in 2..Len(stream)
        /\ Head1 = stream[k] /\ Head1.payload \in Nat
        /\ Lists(MessageSoFar, taken)
        /\ NewLength = LengthSoFar + Head1.payload
        /\ MessageOpcode \in {"none", "TEXT", "BIN"}
        /\ Data(k) /\ (Begins(k) <=> ~Continues(Head1))
    BY <1>3, SoFar
  <2>2. /\ ToSet(Append(MessageSoFar, k)) = ToSet(MessageSoFar) \cup {k}
    BY <1>0, <2>1, Extends
  <2>3. /\ \A s \in 2..k : s = k \/ s \in 2..taken
        /\ \A s \in 2..taken : s \in 2..k
        /\ k \in 2..k
    BY <2>1
  <2>4. /\ \A s \in 2..taken : Begins(k) => ~Pending(s, k)
        /\ \A s \in 2..taken : ~Begins(k) => (Pending(s, k) <=> Pending(s, taken) /\ ~stream[k].fin)
        /\ Pending(k, k) <=> Begins(k) /\ ~stream[k].fin
    BY <2>1, OneMoreFrame
  <2>5. \A s \in 2..k : /\ FragmentsOf(s, k) = FragmentsOf(s, taken) \cup {k}
                        /\ Bytes(s, k) = Bytes(s, taken) + Head1.payload
    BY <1>0, <2>1, MoreBytes, OneMoreFragment
  <2>6. FragmentsOf(k, taken) = {} /\ Bytes(k, taken) = 0
    BY <1>0, <2>1, <2>3, MoreBytes, OneMoreFragment
  <2> HIDE DEF k
  <2>7. ~MessageTooLong /\ phase = "WS"
    BY <1>3 DEF MessageTooLong, Close, DataFrame, InWs
  <2>8. CASE LastFragment
    <3>1. msg_opcode' = "none" /\ taken' = k /\ stream' = stream /\ stream[k].fin
      BY <2>1, <2>8 DEF LastFragment, NoMessage, Consume, k
    <3>2. \A s \in 2..k : ~Pending(s, k)
      BY <2>3, <2>4, <3>1
    <3> QED BY <3>1, <3>2, StillInProgress
  <2>9. CASE Fragment
    <3>1. /\ msg_opcode' = MessageOpcode /\ taken' = k /\ stream' = stream /\ ~stream[k].fin
          /\ Text => msgbuf' = Append(MessageSoFar, k) /\ msglen' = NewLength
      BY <2>1, <2>9 DEF Fragment, Consume, k
    <3>2. CASE Continues(Head1)
      <4>1. /\ ~Begins(k) /\ MessageOpcode = msg_opcode /\ MessageSoFar = msgbuf
            /\ LengthSoFar = msglen
        BY <2>1, <3>2 DEF MessageOpcode, MessageSoFar, LengthSoFar
      <4>2. msg_opcode = "none" => \A s \in 2..k : ~Pending(s, k)
        BY <2>3, <2>4, <2>7, <4>1 DEF InProgress
      <4>3. ASSUME msg_opcode # "none"
            PROVE  \E s \in 2..k :
                      /\ Pending(s, k) /\ stream[s].opcode = msg_opcode
                      /\ msg_opcode = "TEXT" =>
                           ToSet(msgbuf') = FragmentsOf(s, k) /\ msglen' = Bytes(s, k)
        <5>1. PICK s \in 2..taken :
                /\ Pending(s, taken) /\ stream[s].opcode = msg_opcode
                /\ msg_opcode = "TEXT" =>
                     ToSet(msgbuf) = FragmentsOf(s, taken) /\ msglen = Bytes(s, taken)
          BY <2>7, <4>3 DEF InProgress
        <5>2. s \in 2..k /\ Pending(s, k)
          BY <2>3, <2>4, <3>1, <4>1, <5>1
        <5>3. msg_opcode = "TEXT" => ToSet(msgbuf') = FragmentsOf(s, k) /\ msglen' = Bytes(s, k)
          BY <2>1, <2>2, <2>5, <3>1, <4>1, <5>1, <5>2 DEF Text
        <5> QED BY <5>1, <5>2, <5>3
      <4> QED BY <3>1, <4>1, <4>2, <4>3, StillInProgress
    <3>3. CASE ~Continues(Head1)
      <4>1. /\ Begins(k) /\ MessageOpcode = stream[k].opcode /\ MessageSoFar = <<>>
            /\ LengthSoFar = 0 /\ MessageOpcode # "none"
        BY <2>1, <3>3 DEF MessageOpcode, MessageSoFar, LengthSoFar, Begins
      <4>2. Pending(k, k)
        BY <2>4, <3>1, <4>1
      <4>3. Text => ToSet(msgbuf') = FragmentsOf(k, k) /\ msglen' = Bytes(k, k)
        BY <2>1, <2>2, <2>3, <2>5, <2>6, <3>1, <4>1, ListsNothing
      <4> QED BY <2>3, <3>1, <4>1, <4>2, <4>3, StillInProgress DEF Text
    <3> QED BY <3>2, <3>3
  <2> QED BY <1>3, <2>7, <2>8, <2>9
<1> QED BY <1>1, <1>2, <1>3, MessageMoves

----------------------------------------------------------------------------
\* What is delivered

\* The last fragment of a message completes what gathered in msgbuf to what was
\* sent, all of it behind every message sent before.
LEMMA NewlySent ==
    ASSUME Counts, Gathered, InProgress, DataFrame, Head1.fin
    PROVE  LET M == Append(MessageSoFar, taken + 1) IN
           /\ Text => Sent(taken + 1) = Sent(taken) \cup {ToSet(M)}
           /\ ~Text => Sent(taken + 1) = Sent(taken)
           /\ Text => \A b \in ToSet(M) : \A F \in Sent(taken) : \A a \in F : a < b
<1> DEFINE k == taken + 1
           M == Append(MessageSoFar, k)
           New == {FragmentsOf(s, k) : s \in {s \in 2..k : IsText(s, k) /\ stream[k].fin}}
<1>0. stream \in Streams /\ phase = "WS"
  BY DEF Counts, DataFrame, InWs
<1>1. /\ taken \in Nat \ {0} /\ k \in 2..Len(stream) /\ Head1 = stream[k] /\ stream[k].fin
      /\ Lists(MessageSoFar, taken)
      /\ Data(k) /\ (Begins(k) <=> ~Continues(Head1))
  BY SoFar
<1>2. ToSet(M) = ToSet(MessageSoFar) \cup {k}
  BY <1>0, <1>1, Extends
<1>3. Sent(k) = Sent(taken) \cup New
  BY <1>1, SentMore
<1>4. /\ \A s \in 2..k : s = k \/ s \in 2..taken
      /\ \A s \in 2..taken : s \in 2..k /\ s < k
      /\ k \in 2..k
  BY <1>1
<1>5. /\ \A s \in 2..taken : Begins(k) => ~Within(s, k)
      /\ \A s \in 2..taken : ~Begins(k) => (Within(s, k) <=> Pending(s, taken))
      /\ Within(k, k) <=> Begins(k)
  BY <1>1, OneMoreFrame
<1>6. /\ \A s \in 2..k : FragmentsOf(s, k) = FragmentsOf(s, taken) \cup {k}
      /\ FragmentsOf(k, taken) = {}
  BY <1>1, <1>4, OneMoreFragment
<1>7. \A F \in Sent(taken) : \A a \in F : a \in 2..taken /\ \A s : Pending(s, taken) => a < s
  BY <1>1, SentBefore
<1>8. \A F \in Sent(taken) : \A a \in F : a < k
  BY <1>4, <1>7
<1> HIDE DEF k, M
<1>9. CASE Continues(Head1)
  <2>1. ~Begins(k) /\ MessageOpcode = msg_opcode /\ MessageSoFar = msgbuf
    BY <1>1, <1>9 DEF MessageOpcode, MessageSoFar
  <2>2. \A s \in 2..k : Within(s, k) <=> s \in 2..taken /\ Pending(s, taken)
    BY <1>4, <1>5, <2>1
  <2>3. CASE Text
    <3>1. PICK s \in 2..taken : /\ Pending(s, taken) /\ stream[s].opcode = "TEXT"
                                /\ ToSet(msgbuf) = FragmentsOf(s, taken)
      BY <1>0, <2>1, <2>3 DEF InProgress, Text
    <3>2. \A t \in 2..k : IsText(t, k) <=> t = s
      BY <1>1, <1>4, <2>2, <3>1, OnePending DEF IsText
    <3>3. New = {FragmentsOf(s, k)}
      BY <1>1, <1>4, <3>1, <3>2
    <3>4. ToSet(M) = FragmentsOf(s, k)
      BY <1>2, <1>4, <1>6, <2>1, <3>1
    <3>5. ASSUME NEW b \in ToSet(M), NEW F \in Sent(taken), NEW a \in F PROVE a < b
      <4>1. b = k \/ b \in FragmentsOf(s, taken)
        BY <1>2, <2>1, <3>1
      <4>2. CASE b \in FragmentsOf(s, taken)
        <5>1. b \in s..taken /\ a \in 2..taken /\ a < s /\ s \in 2..taken
          BY <1>7, <3>1, <4>2 DEF FragmentsOf
        <5> QED BY <1>1, <5>1
      <4> QED BY <1>8, <4>1, <4>2
    <3> QED BY <1>3, <2>3, <3>3, <3>4, <3>5 DEF M, k
  <2>4. CASE ~Text
    <3>1. \A t \in 2..k : ~IsText(t, k)
      <4> SUFFICES ASSUME NEW t \in 2..taken, Pending(t, taken), stream[t].opcode = "TEXT"
                   PROVE  FALSE
        BY <2>2 DEF IsText
      <4>1. PICK s \in 2..taken : Pending(s, taken) /\ stream[s].opcode = msg_opcode
        BY <1>0 DEF InProgress
      <4>2. s = t
        BY <1>1, <4>1, OnePending
      <4> QED BY <2>1, <2>4, <4>1, <4>2 DEF Text
    <3>2. New = {}
      BY <3>1
    <3> QED BY <1>3, <2>4, <3>2 DEF k
  <2> QED BY <2>3, <2>4
<1>10. CASE ~Continues(Head1)
  <2>1. Begins(k) /\ MessageOpcode = stream[k].opcode /\ MessageSoFar = <<>>
    BY <1>1, <1>10 DEF MessageOpcode, MessageSoFar
  <2>2. \A s \in 2..k : IsText(s, k) <=> s = k /\ Text
    BY <1>4, <1>5, <2>1 DEF IsText, Text
  <2>3. CASE Text
    <3>1. New = {FragmentsOf(k, k)}
      BY <1>1, <1>4, <2>2, <2>3
    <3>2. ToSet(M) = {k} /\ FragmentsOf(k, k) = {k}
      BY <1>2, <1>4, <1>6, <2>1, ListsNothing
    <3> QED BY <1>3, <1>8, <2>3, <3>1, <3>2 DEF M, k
  <2>4. CASE ~Text
    <3>1. New = {}
      BY <2>2, <2>4
    <3> QED BY <1>3, <2>4, <3>1 DEF k
  <2> QED BY <2>3, <2>4
<1> QED BY <1>9, <1>10

DeliveredInv == DeliversWhatWasSent /\ delivered \in Seq(Seq(Nat))

\* What was sent depends on the stream and on how much of it was taken.
LEMMA SentStays ==
    ASSUME stream' = stream, NEW k, taken' = k
    PROVE  Sent(taken)' = Sent(k)
<1>1. \A j : (Data(j)' <=> Data(j)) /\ (Begins(j)' <=> Begins(j)) /\ stream'[j].fin = stream[j].fin
  BY DEF Data, Begins
<1>2. ASSUME NEW s, NEW i
      PROVE  (IsText(s, i)' <=> IsText(s, i)) /\ FragmentsOf(s, i)' = FragmentsOf(s, i)
  <2>1. Within(s, i)' <=> Within(s, i)
    BY <1>1 DEF Within
  <2>2. IsText(s, i)' <=> IsText(s, i)
    BY <2>1 DEF IsText
  <2>3. FragmentsOf(s, i)' = FragmentsOf(s, i)
    BY <1>1 DEF FragmentsOf
  <2> QED BY <2>2, <2>3
<1> DEFINE P == {e \in (2..k) \X (2..k) : IsText(e[1], e[2]) /\ stream[e[2]].fin}
           Q == {e \in (2..k) \X (2..k) : IsText(e[1], e[2])' /\ stream'[e[2]].fin}
<1>3. P = Q
  BY <1>1, <1>2
<1>4. Sent(k) = {FragmentsOf(e[1], e[2]) : e \in P}
  BY DEF Sent
<1>5. Sent(taken)' = {FragmentsOf(e[1], e[2])' : e \in Q}
  BY DEF Sent
<1> HIDE DEF P, Q
<1>6. {FragmentsOf(e[1], e[2])' : e \in Q} = {FragmentsOf(e[1], e[2]) : e \in Q}
  BY <1>2
<1> QED BY <1>3, <1>4, <1>5, <1>6

\* Nothing is delivered when nothing more was sent.
LEMMA NothingMore ==
    ASSUME DeliveredInv, stream' = stream, delivered' = delivered, NEW k, taken' = k,
           Sent(k) = Sent(taken)
    PROVE  DeliveredInv'
<1>1. Sent(taken)' = Sent(taken)
  BY SentStays
<1>2. {ToSet(m) : m \in ToSet(delivered')} = Sent(taken)'
  BY <1>1 DEF DeliveredInv, DeliversWhatWasSent
<1>3. /\ \A m \in ToSet(delivered') : \A i, j \in DOMAIN m : i < j => m[i] < m[j]
      /\ \A i, j \in DOMAIN delivered' : i < j =>
           \A a \in ToSet(delivered'[i]), b \in ToSet(delivered'[j]) : a < b
  BY DEF DeliveredInv, DeliversWhatWasSent
<1>4. DeliversWhatWasSent'
  BY <1>2, <1>3 DEF DeliversWhatWasSent, ToSet
<1> QED BY <1>4 DEF DeliveredInv

\* A message is delivered that was sent, after all the others.
LEMMA OneMore ==
    ASSUME DeliveredInv, stream' = stream, NEW k, taken' = k, NEW M \in Seq(Nat),
           delivered' = Append(delivered, M),
           Sent(k) = Sent(taken) \cup {ToSet(M)},
           \A i, j \in DOMAIN M : i < j => M[i] < M[j],
           \A b \in ToSet(M) : \A F \in Sent(taken) : \A a \in F : a < b
    PROVE  DeliveredInv'
<1>2. Sent(taken)' = Sent(taken) \cup {ToSet(M)}
  BY SentStays
<1> DEFINE n == Len(delivered)
<1>3. /\ delivered \in Seq(Seq(Nat)) /\ n \in Nat /\ DOMAIN delivered = 1..n
      /\ delivered' \in Seq(Seq(Nat)) /\ DOMAIN delivered' = 1..(n + 1)
      /\ \A i \in 1..n : delivered'[i] = delivered[i]
      /\ delivered'[n + 1] = M
  BY AppendProperties DEF DeliveredInv
<1>4. n + 1 \in 1..(n + 1) /\ \A i \in 1..(n + 1) : i = n + 1 \/ i \in 1..n
  BY <1>3
<1>5. \A i \in 1..n : i \in 1..(n + 1) /\ i < n + 1
  BY <1>3
<1> HIDE DEF n
<1>6. ToSet(delivered) = {delivered[i] : i \in 1..n}
  BY <1>3 DEF ToSet
<1>7. ToSet(delivered)' = ToSet(delivered) \cup {M}
  <2>1. ToSet(delivered)' = {delivered'[i] : i \in 1..(n + 1)}
    BY <1>3 DEF ToSet
  <2> QED BY <1>3, <1>4, <1>5, <1>6, <2>1
<1>8. {ToSet(m) : m \in ToSet(delivered)'} = Sent(taken)'
  BY <1>2, <1>7 DEF DeliveredInv, DeliversWhatWasSent
<1>9. \A m \in ToSet(delivered)' : \A i, j \in DOMAIN m : i < j => m[i] < m[j]
  BY <1>7 DEF DeliveredInv, DeliversWhatWasSent
<1>10. ASSUME NEW i \in 1..(n + 1), NEW j \in 1..(n + 1), i < j,
              NEW a \in ToSet(delivered'[i]), NEW b \in ToSet(delivered'[j])
       PROVE  a < b
  <2>1. i \in 1..n /\ delivered'[i] = delivered[i]
    BY <1>3, <1>4, <1>5, <1>10
  <2>2. CASE j \in 1..n
    BY <1>3, <1>10, <2>1, <2>2 DEF DeliveredInv, DeliversWhatWasSent
  <2>3. CASE j = n + 1
    <3>1. ToSet(delivered[i]) \in Sent(taken)
      BY <1>6, <2>1 DEF DeliveredInv, DeliversWhatWasSent
    <3> QED BY <1>3, <1>10, <2>1, <2>3, <3>1
  <2> QED BY <1>4, <2>2, <2>3
<1>11. \A i, j \in DOMAIN delivered' : i < j =>
         \A a \in ToSet(delivered'[i]), b \in ToSet(delivered'[j]) : a < b
  BY <1>3, <1>10
<1>12. DeliversWhatWasSent'
  BY <1>8, <1>9, <1>11 DEF DeliversWhatWasSent, ToSet
<1> QED BY <1>3, <1>12 DEF DeliveredInv

\* A frame that belongs to no message, or leaves one unfinished, completes none.
LEMMA NothingEnds ==
    ASSUME NEW n \in Nat \ {0}, ~Data(n + 1) \/ ~stream[n + 1].fin
    PROVE  Sent(n + 1) = Sent(n)
<1>1. \A s : ~(IsText(s, n + 1) /\ stream[n + 1].fin)
  BY DEF IsText, Within
<1>2. {FragmentsOf(s, n + 1) : s \in {s \in 2..(n + 1) : IsText(s, n + 1) /\ stream[n + 1].fin}} = {}
  BY <1>1
<1> QED BY <1>2, SentMore

\* The controller gets what was sent, whatever the next step.
LEMMA DeliveredKept ==
    ASSUME Counts, Gathered, InProgress, DeliveredInv, [Next]_vars
    PROVE  DeliveredInv'
<1>0. stream \in Streams /\ taken \in Nat
  BY Items DEF Counts
<1>1. CASE Rests
  BY <1>1, NothingMore DEF Rests
<1>2. CASE Passes
  <2> DEFINE k == taken + 1
  <2>1. HasHead /\ taken' = k /\ stream' = stream /\ delivered' = delivered
    BY <1>2 DEF Passes
  <2>2. CASE phase = "HTTP"
    <3>1. taken = 0 /\ 2..taken = {} /\ 2..k = {}
      BY <2>2 DEF Counts
    <3>2. Sent(k) = {} /\ Sent(taken) = {}
      <4> HIDE DEF k
      <4> QED BY <3>1 DEF Sent
    <3> HIDE DEF k
    <3> QED BY <2>1, <3>2, NothingMore
  <2>3. CASE phase = "WS"
    <3>1. k \in 2..Len(stream) /\ Head1 = stream[k] /\ taken \in Nat \ {0}
      BY <1>0, <2>1, <2>3, FrontItem DEF Head1, Counts
    <3>2. ~Data(k)
      BY <1>2, <2>3, <3>1 DEF Passes, Data
    <3>3. Sent(k) = Sent(taken)
      BY <3>1, <3>2, NothingEnds
    <3> HIDE DEF k
    <3> QED BY <2>1, <3>3, NothingMore
  <2> QED BY <1>2, <2>2, <2>3 DEF Passes
<1>3. ASSUME DataFrame, MessageTooLong \/ Fragment \/ LastFragment PROVE DeliveredInv'
  <2> DEFINE k == taken + 1
             M == Append(MessageSoFar, k)
  <2>1. /\ taken \in Nat \ {0} /\ k \in 2..Len(stream) /\ Head1 = stream[k]
        /\ Lists(MessageSoFar, taken)
    BY <1>3, SoFar
  <2>2. Lists(M, k)
    BY <1>0, <2>1, Extends
  <2>3. CASE MessageTooLong
    BY <2>3, NothingMore DEF MessageTooLong
  <2>4. CASE Fragment
    <3>1. taken' = k /\ stream' = stream /\ delivered' = delivered /\ ~stream[k].fin
      BY <2>1, <2>4 DEF Fragment, Consume
    <3>2. Sent(k) = Sent(taken)
      BY <2>1, <3>1, NothingEnds
    <3> HIDE DEF k
    <3> QED BY <3>1, <3>2, NothingMore
  <2>5. CASE LastFragment
    <3>1. /\ taken' = k /\ stream' = stream /\ Head1.fin
          /\ \/ Text /\ delivered' = Append(delivered, M)
             \/ ~Text /\ delivered' = delivered
      BY <2>5 DEF LastFragment, OnMessage, Consume
    <3>2. /\ Text => Sent(k) = Sent(taken) \cup {ToSet(M)}
          /\ ~Text => Sent(k) = Sent(taken)
          /\ Text => \A b \in ToSet(M) : \A F \in Sent(taken) : \A a \in F : a < b
      BY <1>3, <3>1, NewlySent
    <3>3. M \in Seq(Nat) /\ \A i, j \in DOMAIN M : i < j => M[i] < M[j]
      <4>1. M \in Seq(2..k) /\ 2..k \subseteq Nat
        <5> HIDE DEF M
        <5> QED BY <2>1, <2>2 DEF Lists
      <4> HIDE DEF M
      <4>2. M \in Seq(Nat)
        <5>1. \A i \in 1..Len(M) : M[i] \in Nat
          BY <2>1, <4>1
        <5> QED BY <4>1, <5>1
      <4> QED BY <2>2, <4>2 DEF Lists
    <3> HIDE DEF k, M
    <3>4. CASE Text
      BY <3>1, <3>2, <3>3, <3>4, OneMore
    <3>5. CASE ~Text
      BY <3>1, <3>2, <3>5, NothingMore
    <3> QED BY <3>4, <3>5
  <2> QED BY <1>3, <2>3, <2>4, <2>5
<1> QED BY <1>1, <1>2, <1>3, MessageMoves

----------------------------------------------------------------------------
\* What is queued

\* A remainder that is the number itself
LEMMA SmallRemainder ==
    ASSUME NEW a \in Nat, NEW m \in Nat, a < m
    PROVE  a % m = a
OBVIOUS

Responses == [status : Nat, cors : BOOLEAN]
ReadableFrames ==
    {f \in [opcode : {"TEXT", "PONG"}, form : Forms, written : Nat, payload : Nat] :
        f.written = f.payload /\ (f.form = "short" => f.written <= SHORT_MAX)}
IsPong(f) == "opcode" \in DOMAIN f /\ f.opcode = "PONG"
\* What is queued besides the answers to PINGs
Plain == {f \in Responses \cup ReadableFrames : ~IsPong(f)}

\* The length of a frame is written so that it is read back.
LEMMA EncodeIsReadable ==
    ASSUME NEW opcode \in {"TEXT", "PONG"}, NEW len \in Nat
    PROVE  \E f \in ReadableFrames :
              Encode(opcode, len) = <<f>> /\ f.opcode = opcode /\ f.payload = len
<1> DEFINE form == FormOf(len)
           f == [opcode |-> opcode, form |-> form, written |-> Written(form, len), payload |-> len]
<1>1. SHORT_MAX \in Nat /\ MEDIUM_MAX \in Nat
  BY SizeAssumption
<1>2. form \in {"short", "medium", "long"} /\ form \in Forms
  BY DEF FormOf, Forms, LengthBytes
<1>3. Written(form, len) = len
  <2>1. CASE form = "short"
    <3>1. len < SHORT_MAX + 3 /\ SHORT_MAX + 3 \in Nat
      BY <1>1, <2>1 DEF FormOf
    <3>2. len % (SHORT_MAX + 3) = len
      BY <3>1, SmallRemainder
    <3> QED BY <2>1, <3>2 DEF Written
  <2>2. CASE form = "medium"
    <3>1. len < MEDIUM_MAX + 1 /\ MEDIUM_MAX + 1 \in Nat
      BY <1>1, <2>2 DEF FormOf
    <3>2. len % (MEDIUM_MAX + 1) = len
      BY <3>1, SmallRemainder
    <3> QED BY <2>2, <3>2 DEF Written
  <2>3. CASE form = "long"
    BY <2>3 DEF Written
  <2> QED BY <1>2, <2>1, <2>2, <2>3
<1>4. form = "short" => len <= SHORT_MAX
  BY DEF FormOf
<1>5. Encode(opcode, len) = <<f>>
  BY DEF Encode
<1> HIDE DEF form
<1>6. f.opcode = opcode /\ f.form = form /\ f.written = len /\ f.payload = len
  BY <1>3
<1>7. f \in [opcode : {"TEXT", "PONG"}, form : Forms, written : Nat, payload : Nat]
  BY <1>2, <1>3
<1> HIDE DEF f
<1>8. f \in ReadableFrames
  BY <1>4, <1>6, <1>7 DEF ReadableFrames
<1> QED BY <1>5, <1>6, <1>8

\* A TEXT frame answers no PING.
LEMMA TextIsPlain == ASSUME NEW len \in Nat PROVE Encode("TEXT", len) \in Seq(Plain)
<1>1. PICK f \in ReadableFrames : Encode("TEXT", len) = <<f>> /\ f.opcode = "TEXT"
  BY EncodeIsReadable
<1>2. f \in Plain
  BY <1>1 DEF Plain, IsPong
<1>3. <<f>> \in Seq(Plain)
  BY <1>2
<1> QED BY <1>1, <1>3

\* Neither does the response to a request.
LEMMA ResponsesArePlain ==
    ASSUME NEW req \in Requests
    PROVE  UpgradeResponse(req) \in Seq(Plain) /\ PlainResponse(req) \in Seq(Plain)
<1>1. ASSUME NEW status \in Nat, NEW cors \in BOOLEAN PROVE Response(status, cors) \in Seq(Plain)
  <2> DEFINE r == [status |-> status, cors |-> cors]
  <2>1. r \in Responses /\ DOMAIN r = {"status", "cors"}
    BY DEF Responses
  <2>2. r \in Plain
    BY <2>1 DEF Plain, IsPong
  <2>3. Response(status, cors) = <<r>>
    BY DEF Response
  <2> HIDE DEF r
  <2> QED BY <2>2, <2>3
<1>2. /\ req.origin \in BOOLEAN /\ TRUE \in BOOLEAN /\ FALSE \in BOOLEAN
      /\ 200 \in Nat /\ 204 \in Nat /\ 403 \in Nat /\ 404 \in Nat
  BY DEF Requests
<1>3. UpgradeResponse(req) \in Seq(Plain)
  <2>1. (IF ~req.origin THEN 403 ELSE IF ~req.key THEN 400 ELSE 101) \in Nat
    OBVIOUS
  <2> QED BY <1>1, <2>1 DEF UpgradeResponse
<1>4. SensitivityResponse(req) \in Seq(Plain)
  <2> DEFINE status == IF req.method = "POST" THEN 400 ELSE 405
  <2>1. status \in Nat
    OBVIOUS
  <2> HIDE DEF status
  <2>2. Response(status, TRUE) \in Seq(Plain)
    BY <1>1, <2>1
  <2>3. Response(403, FALSE) \in Seq(Plain) /\ Response(200, TRUE) \in Seq(Plain)
    BY <1>1, <1>2, Zenon
  <2>4. SensitivityResponse(req) \in {Response(403, FALSE), Response(200, TRUE), Response(status, TRUE)}
    BY DEF SensitivityResponse, status
  <2> QED BY <2>2, <2>3, <2>4
<1>5. PlainResponse(req) \in Seq(Plain)
  <2>1. /\ Response(204, req.origin) \in Seq(Plain) /\ Response(200, req.origin) \in Seq(Plain)
        /\ Response(404, FALSE) \in Seq(Plain)
    BY <1>1, <1>2, Zenon
  <2> QED BY <1>4, <2>1 DEF PlainResponse
<1> QED BY <1>3, <1>5

\* What a step queues: nothing that answers a PING, unless it takes one.
Speaks ==
    /\ stream' = stream /\ (failed' = "no" => failed = "no")
    /\ \E what \in Seq(Plain) : out' = out \o what
    /\ \/ taken' = taken
       \/ /\ HasHead /\ taken' = taken + 1
          /\ taken + 1 \in 2..Len(stream) => Head1.opcode # "PING"
Answers ==
    /\ InWs /\ FrameThere /\ Head1.opcode = "PING"
    /\ stream' = stream /\ failed' = failed /\ taken' = taken + 1
    /\ Queue(Encode("PONG", Head1.payload))

\* Every step is one of the two.
LEMMA OutMoves ==
    ASSUME Counts, out \in Seq(Responses \cup ReadableFrames), [Next]_vars
    PROVE  Speaks \/ Answers
<1>1. ASSUME out' = out PROVE \E what \in Seq(Plain) : out' = out \o what
  <2>1. <<>> \in Seq(Plain) /\ out \o <<>> = out
    OBVIOUS
  <2> QED BY <1>1, <2>1
<1>2. ASSUME NEW what \in Seq(Plain), Queue(what) PROVE \E w \in Seq(Plain) : out' = out \o w
  BY <1>1, <1>2 DEF Queue
<1>3. CASE Read \/ HttpWait \/ HttpRefuse \/ FrameWait \/ FrameMalformed \/ MessageTooLong \/ UNCHANGED vars
  <2>1. stream' = stream /\ failed' = failed /\ taken' = taken /\ out' = out
    BY <1>3 DEF Read, HttpWait, HttpRefuse, FrameWait, FrameMalformed, MessageTooLong, vars
  <2> QED BY <1>1, <2>1 DEF Speaks
<1>4. CASE InbufFull
  <2>1. stream' = stream /\ failed' # "no" /\ taken' = taken /\ out' = out
    BY <1>4 DEF InbufFull
  <2> QED BY <1>1, <2>1 DEF Speaks
<1>5. CASE HttpRequest \/ HttpUpgrade
  <2>1. /\ stream' = stream /\ failed' = failed /\ HasHead /\ taken' = taken + 1 /\ phase = "HTTP"
    BY <1>5 DEF HttpRequest, HttpUpgrade, AcceptUpgrade, Consume, Complete, HeaderThere, InHttp
  <2>2. Head1 \in Requests /\ taken = 0
    BY <2>1, FrontItem DEF Counts
  <2>3. UpgradeResponse(Head1) \in Seq(Plain) /\ PlainResponse(Head1) \in Seq(Plain)
    BY <2>2, ResponsesArePlain
  <2>4. Encode("TEXT", WELCOME_SIZE) \in Seq(Plain)
    BY SizeAssumption, TextIsPlain
  <2>5. UpgradeResponse(Head1) \o Encode("TEXT", WELCOME_SIZE) \in Seq(Plain)
    BY <2>3, <2>4
  <2>6. \E w \in Seq(Plain) : Queue(w)
    BY <1>5, <2>3, <2>5 DEF HttpRequest, HttpUpgrade, AcceptUpgrade
  <2>7. taken + 1 \notin 2..Len(stream)
    BY <2>2
  <2> QED BY <1>2, <2>1, <2>6, <2>7 DEF Speaks
<1>6. CASE Fragment \/ Pong \/ CloseFrame
  <2>1. /\ stream' = stream /\ failed' = failed /\ HasHead /\ taken' = taken + 1 /\ out' = out
        /\ Head1.opcode # "PING"
    BY <1>6 DEF Fragment, Pong, CloseFrame, Consume, FrameThere, DataOpcodes
  <2> QED BY <1>1, <2>1 DEF Speaks
<1>7. CASE LastFragment
  <2>1. stream' = stream /\ HasHead /\ taken' = taken + 1 /\ Head1.opcode # "PING"
    BY <1>7 DEF LastFragment, Consume, FrameThere, DataOpcodes
  <2>2. UNCHANGED <<failed, out>> \/ \E len \in ReplySizes : ClientSend(len)
    BY <1>7 DEF LastFragment, OnMessage
  <2>3. CASE UNCHANGED <<failed, out>>
    BY <1>1, <2>1, <2>3 DEF Speaks
  <2>4. ASSUME NEW len \in ReplySizes, ClientSend(len) PROVE Speaks
    <3>1. Encode("TEXT", len) \in Seq(Plain)
      BY SizeAssumption, TextIsPlain
    <3>2. CASE Queue(Encode("TEXT", len)) /\ UNCHANGED failed
      BY <1>2, <2>1, <3>1, <3>2 DEF Speaks
    <3>3. CASE failed' = "reply" /\ UNCHANGED out
      BY <1>1, <2>1, <3>3 DEF Speaks
    <3> QED BY <2>4, <3>2, <3>3 DEF ClientSend
  <2> QED BY <2>2, <2>3, <2>4
<1>8. CASE Ping
  BY <1>8 DEF Ping, AnswerPing, Consume, Answers
<1> QED BY <1>3, <1>4, <1>5, <1>6, <1>7, <1>8 DEF Next, ProcessClientBuffer

Queued == out \in Seq(Responses \cup ReadableFrames)

\* Only responses and readable frames are queued.
LEMMA QueuedKept == ASSUME Counts, Queued, [Next]_vars PROVE Queued'
<1> DEFINE Answer == Responses \cup ReadableFrames
<1>1. Plain \subseteq Answer
  BY DEF Plain
<1>2. CASE Speaks
  <2>1. PICK what \in Seq(Plain) : out' = out \o what
    BY <1>2 DEF Speaks
  <2>2. what \in Seq(Answer)
    <3> HIDE DEF Answer
    <3>1. \A i \in 1..Len(what) : what[i] \in Answer
      BY <1>1
    <3> QED BY <3>1
  <2>3. out \o what \in Seq(Answer)
    <3>1. out \in Seq(Answer)
      BY DEF Queued
    <3> HIDE DEF Answer
    <3> QED BY <2>2, <3>1
  <2> QED BY <2>1, <2>3 DEF Queued
<1>3. CASE Answers
  <2>1. Head1.payload \in Nat
    BY <1>3, FrontItem DEF Answers, InWs, FrameThere, Frames
  <2>2. PICK f \in ReadableFrames : Encode("PONG", Head1.payload) = <<f>>
    BY <2>1, EncodeIsReadable
  <2>3. out' = out \/ out' = out \o <<f>>
    BY <1>3, <2>2 DEF Answers, Queue
  <2>4. out \o <<f>> \in Seq(Answer)
    <3>1. out \in Seq(Answer) /\ f \in Answer
      BY DEF Queued
    <3> HIDE DEF Answer
    <3> QED BY <3>1
  <2> QED BY <2>3, <2>4 DEF Queued
<1> QED BY <1>2, <1>3, OutMoves DEF Queued

\* No frame can be misread.
LEMMA QueuedAreReadable == Queued => FramesAreReadable
<1> SUFFICES ASSUME Queued, NEW f \in ToSet(out), "form" \in DOMAIN f
             PROVE  f.written = f.payload /\ (f.form = "short" => f.written <= SHORT_MAX)
  BY DEF FramesAreReadable
<1>1. f \in Responses \cup ReadableFrames
  BY DEF Queued, ToSet
<1>2. f \notin Responses
  BY DEF Responses
<1> QED BY <1>1, <1>2 DEF ReadableFrames

\* What else is queued leaves every answer with its PING.
LEMMA SpeaksAnswersNone ==
    ASSUME Counts, Queued, PongsAnswerPings, Speaks
    PROVE  PongsAnswerPings'
<1> DEFINE n == Len(out)
<1>1. PICK what \in Seq(Plain) : out' = out \o what
  BY DEF Speaks
<1>2. /\ n \in Nat /\ DOMAIN out = 1..n /\ DOMAIN out' = 1..(n + Len(what)) /\ Len(what) \in Nat
      /\ \A j \in 1..n : out'[j] = out[j]
      /\ \A j \in (n + 1)..(n + Len(what)) : out'[j] = what[j - n]
  BY <1>1 DEF Queued
<1>3. \A j \in (n + 1)..(n + Len(what)) : ~IsPong(out'[j])
  <2> SUFFICES ASSUME NEW j \in (n + 1)..(n + Len(what)) PROVE ~IsPong(what[j - n])
    BY <1>2
  <2>1. j - n \in 1..Len(what)
    BY <1>2
  <2>2. what[j - n] \in Plain
    BY <2>1
  <2> QED BY <2>2 DEF Plain
<1>4. \A j : j \in 1..(n + Len(what)) <=> j \in 1..n \/ j \in (n + 1)..(n + Len(what))
  BY <1>2
<1> HIDE DEF n
<1>5. Pongs = {j \in 1..n : IsPong(out[j])}
  BY <1>2 DEF Pongs, IsPong
<1>6. Pongs' = {j \in 1..(n + Len(what)) : IsPong(out'[j])}
  BY <1>2 DEF Pongs, IsPong
<1>7. Pongs' = Pongs /\ \A j \in Pongs : out'[j] = out[j]
  BY <1>2, <1>3, <1>4, <1>5, <1>6
<1>8. Pings' = Pings
  <2>1. stream' = stream /\ taken \in Nat /\ Len(stream) \in Nat
    BY Items DEF Speaks, Counts
  <2>2. CASE taken' = taken
    BY <2>1, <2>2 DEF Pings
  <2>3. CASE HasHead /\ taken' = taken + 1 /\ (taken + 1 \in 2..Len(stream) => Head1.opcode # "PING")
    <3>1. taken + 1 \in 2..(taken + 1) => stream[taken + 1].opcode # "PING"
      BY <2>1, <2>3 DEF HasHead, Head1
    <3>2. \A i \in 2..(taken + 1) : i = taken + 1 \/ i \in 2..taken
      BY <2>1
    <3>3. \A i \in 2..taken : i \in 2..(taken + 1)
      BY <2>1
    <3>4. Pings' = {i \in 2..(taken + 1) : stream[i].opcode = "PING"}
      BY <2>1, <2>3 DEF Pings
    <3> QED BY <3>1, <3>2, <3>3, <3>4 DEF Pings
  <2> QED BY <2>2, <2>3 DEF Speaks
<1>9. PICK pingOf \in [Pongs -> Pings] :
        LET answered == {pingOf[j] : j \in Pongs} IN
        /\ \A j \in Pongs : out[j].payload = stream[pingOf[j]].payload
        /\ \A j, k \in Pongs : j < k => pingOf[j] < pingOf[k]
        /\ \A i \in Pings \ answered, k \in answered : k < i
        /\ failed = "no" => answered = Pings
  BY DEF PongsAnswerPings
<1>10. LET answered == {pingOf[j] : j \in Pongs'} IN
        /\ \A j \in Pongs' : out'[j].payload = stream'[pingOf[j]].payload
        /\ \A j, k \in Pongs' : j < k => pingOf[j] < pingOf[k]
        /\ \A i \in Pings' \ answered, k \in answered : k < i
        /\ failed' = "no" => answered = Pings'
  BY <1>7, <1>8, <1>9 DEF Speaks
<1>11. pingOf \in [Pongs' -> Pings']
  BY <1>7, <1>8
<1> QED BY <1>10, <1>11 DEF PongsAnswerPings

\* A PING is answered with its own payload, behind the answers before it, as
\* long as anything can be queued at all.
LEMMA AnswersAnswer ==
    ASSUME Counts, Queued, PongsAnswerPings, Answers
    PROVE  PongsAnswerPings'
<1> DEFINE n == Len(out)
           k == taken + 1
<1>1. /\ k \in 2..Len(stream) /\ Head1 = stream[k] /\ stream[k].opcode = "PING"
      /\ stream[k].payload \in Nat
      /\ taken \in Nat /\ stream' = stream /\ taken' = k /\ failed' = failed
  <2>1. HasHead /\ phase = "WS"
    BY DEF Answers, InWs, FrameThere
  <2>2. k \in 2..Len(stream) /\ Head1 \in Frames /\ Head1 = stream[k]
    BY <2>1, FrontItem DEF Head1
  <2>3. Head1.payload \in Nat
    BY <2>2 DEF Frames
  <2>4. taken \in Nat
    BY Items DEF Counts
  <2> QED BY <2>2, <2>3, <2>4 DEF Answers
<1>2. n \in Nat /\ DOMAIN out = 1..n
  BY DEF Queued
<1>3. /\ k \in Pings' /\ Pings' = Pings \cup {k} /\ \A i \in Pings : i < k
  <2>1. \A i : i \in 2..k <=> i = k \/ i \in 2..taken
    BY <1>1
  <2>2. \A i \in 2..taken : i < k
    BY <1>1
  <2> HIDE DEF k
  <2>3. Pings' = {i \in 2..k : stream[i].opcode = "PING"}
    BY <1>1 DEF Pings
  <2> QED BY <1>1, <2>1, <2>2, <2>3 DEF Pings
<1>4. PICK pingOf \in [Pongs -> Pings] :
        LET answered == {pingOf[j] : j \in Pongs} IN
        /\ \A j \in Pongs : out[j].payload = stream[pingOf[j]].payload
        /\ \A i, j \in Pongs : i < j => pingOf[i] < pingOf[j]
        /\ \A i \in Pings \ answered, j \in answered : j < i
        /\ failed = "no" => answered = Pings
  BY DEF PongsAnswerPings
<1> HIDE DEF k
<1>5. CASE failed # "no"
  <2>1. out' = out
    BY <1>5 DEF Answers, Queue
  <2>2. Pongs' = Pongs
    BY <2>1 DEF Pongs
  <2>3. pingOf \in [Pongs' -> Pings']
    BY <1>3, <1>4, <2>2
  <2>4. LET answered == {pingOf[j] : j \in Pongs'} IN
        /\ \A j \in Pongs' : out'[j].payload = stream'[pingOf[j]].payload
        /\ \A i, j \in Pongs' : i < j => pingOf[i] < pingOf[j]
        /\ \A i \in Pings' \ answered, j \in answered : j < i
        /\ failed' = "no" => answered = Pings'
    <3> DEFINE answered == {pingOf[j] : j \in Pongs}
    <3>1. answered \subseteq Pings
      BY <1>4
    <3>2. /\ \A i \in Pings \ answered, j \in answered : j < i
      BY <1>4
    <3> HIDE DEF answered
    <3>3. \A i \in Pings' \ answered, j \in answered : j < i
      BY <1>3, <3>1, <3>2
    <3> QED BY <1>1, <1>4, <1>5, <2>1, <2>2, <3>3 DEF answered
  <2> QED BY <2>3, <2>4 DEF PongsAnswerPings
<1>6. CASE failed = "no"
  <2>1. PICK f \in ReadableFrames :
          Encode("PONG", stream[k].payload) = <<f>> /\ f.opcode = "PONG" /\ f.payload = stream[k].payload
    BY <1>1, EncodeIsReadable
  <2>2. out' = out \o <<f>>
    BY <1>1, <1>6, <2>1 DEF Answers, Queue
  <2>3. /\ DOMAIN out' = 1..(n + 1) /\ \A j \in 1..n : out'[j] = out[j]
        /\ out'[n + 1] = f
    BY <1>2, <2>2 DEF Queued
  <2>4. /\ n + 1 \notin 1..n
        /\ \A j : j \in 1..(n + 1) <=> j = n + 1 \/ j \in 1..n
        /\ \A j \in 1..n : j < n + 1 /\ ~(n + 1 < j)
        /\ ~(n + 1 < n + 1)
    BY <1>2
  <2>5. IsPong(f)
    BY <2>1 DEF ReadableFrames, IsPong
  <2> DEFINE m == n + 1
  <2> HIDE DEF n, m
  <2>6. /\ Pongs = {j \in 1..n : IsPong(out[j])}
        /\ Pongs' = {j \in 1..(n + 1) : IsPong(out'[j])}
    BY <1>2, <2>3 DEF Pongs, IsPong
  <2>7. /\ Pongs' = Pongs \cup {m} /\ m \notin Pongs
        /\ \A j \in Pongs : out'[j] = out[j] /\ j < m /\ ~(m < j)
        /\ ~(m < m) /\ out'[m] = f
    BY <2>3, <2>4, <2>5, <2>6 DEF m
  <2> DEFINE g == [j \in Pongs' |-> IF j = m THEN k ELSE pingOf[j]]
  <2>8. g \in [Pongs' -> Pings'] /\ g[m] = k /\ \A j \in Pongs : g[j] = pingOf[j] /\ g[j] \in Pings
    BY <1>3, <1>4, <2>7
  <2> HIDE DEF g
  <2>9. \A j \in Pongs' : out'[j].payload = stream'[g[j]].payload
    BY <1>1, <1>4, <2>1, <2>7, <2>8
  <2>10. \A i, j \in Pongs' : i < j => g[i] < g[j]
    BY <1>3, <1>4, <2>7, <2>8
  <2>11. {g[j] : j \in Pongs'} = Pings'
    <3>1. {pingOf[j] : j \in Pongs} = Pings
      BY <1>4, <1>6
    <3>2. \A i \in Pings : \E j \in Pongs : i = g[j]
      BY <2>8, <3>1
    <3> QED BY <1>3, <2>7, <2>8, <3>2
  <2> QED BY <2>8, <2>9, <2>10, <2>11 DEF PongsAnswerPings
<1> QED BY <1>5, <1>6

----------------------------------------------------------------------------
\* A client that stays within the limits

\* Whether it does is a matter of what it sends.
LEMMA LegalStays == ASSUME stream' = stream PROVE Legal' <=> Legal
<1>1. \A j : (Data(j)' <=> Data(j)) /\ (Begins(j)' <=> Begins(j))
  BY DEF Data, Begins
<1>2. ASSUME NEW s, NEW i
      PROVE  (IsText(s, i)' <=> IsText(s, i)) /\ Bytes(s, i)' = Bytes(s, i)
  <2>1. Within(s, i)' <=> Within(s, i)
    BY <1>1 DEF Within
  <2>2. IsText(s, i)' <=> IsText(s, i)
    BY <2>1 DEF IsText
  <2>3. Bytes(s, i)' = Bytes(s, i)
    BY DEF Bytes, Data
  <2> QED BY <2>2, <2>3
<1>3. ASSUME NEW i PROVE LegalFrame(i)' <=> LegalFrame(i)
  BY <1>2 DEF LegalFrame
<1> QED BY <1>3 DEF Legal

\* The item in front of a client that does
LEMMA LegalFront ==
    ASSUME Counts, Legal, HasHead
    PROVE  /\ phase = "HTTP" => LegalRequest(Head1)
           /\ phase = "WS" => LegalFrame(taken + 1) /\ ~Malformed(Head1)
           /\ phase # "CLOSING" => Size(Head1) \in 0..INPUT_BUF_SIZE
<1>0. /\ MSG_BUF_SIZE \in Nat /\ MAX_BODY \in Nat /\ INT_MAX \in Nat /\ SHORT_MAX \in Nat
      /\ MSG_BUF_SIZE + 14 <= INT_MAX /\ INPUT_BUF_SIZE = MSG_BUF_SIZE + 14
      /\ inlen \in Nat
  BY SizeAssumption DEF Counts, INPUT_BUF_SIZE
<1>1. ASSUME phase = "HTTP" PROVE LegalRequest(Head1) /\ Size(Head1) \in 0..INPUT_BUF_SIZE
  <2>1. taken = 0 /\ taken + 1 = 1 /\ Size(Head1) \in Nat
    BY <1>1, FrontItem DEF Counts
  <2>2. LegalRequest(Head1)
    BY <2>1 DEF Legal, Head1
  <2> QED BY <1>0, <2>1, <2>2 DEF LegalRequest
<1>2. ASSUME phase = "WS"
      PROVE  LegalFrame(taken + 1) /\ ~Malformed(Head1) /\ Size(Head1) \in 0..INPUT_BUF_SIZE
  <2>1. /\ taken + 1 \in 2..Len(stream) /\ Head1 \in Frames /\ Head1 = stream[taken + 1]
        /\ Size(Head1) \in Nat
    BY <1>2, FrontItem DEF Head1
  <2>2. LegalFrame(taken + 1)
    BY <2>1 DEF Legal
  <2>3. /\ Head1.flaw = "none" /\ Head1.opcode # "unknown"
        /\ Control(Head1) => Head1.fin /\ Head1.payload <= SHORT_MAX
        /\ Head1.payload <= MSG_BUF_SIZE
    BY <2>1, <2>2 DEF LegalFrame
  <2>4. Head1.payload \in Nat /\ LengthBytes[Head1.form] \in 0..8 /\ "head" \notin DOMAIN Head1
    <3>1. /\ Head1.payload \in Nat /\ Head1.form \in {"short", "medium", "long"}
          /\ "head" \notin DOMAIN Head1
      BY <2>1 DEF Frames, Forms, LengthBytes
    <3>2. LengthBytes[Head1.form] \in 0..8
      BY <3>1 DEF LengthBytes
    <3> QED BY <3>1, <3>2
  <2>5. 2 + LengthBytes[Head1.form] + MaskBytes \in 0..14
    BY <2>4 DEF MaskBytes
  <2>6. Head1.payload <= INT_MAX - (2 + LengthBytes[Head1.form] + MaskBytes)
    BY <1>0, <2>3, <2>4, <2>5
  <2>7. ~Malformed(Head1)
    BY <1>0, <2>3, <2>4, <2>5, <2>6 DEF Malformed
  <2>8. Size(Head1) = (2 + LengthBytes[Head1.form] + MaskBytes) + Head1.payload
    BY <2>4, <2>5 DEF Size
  <2> HIDE DEF MaskBytes, LengthBytes
  <2>9. Size(Head1) <= INPUT_BUF_SIZE
    BY <1>0, <2>3, <2>4, <2>5, <2>8
  <2> QED BY <1>0, <2>1, <2>2, <2>7, <2>9
<1> QED BY <1>1, <1>2 DEF Counts

\* inbuf has room for the rest of what is in front of it.
LEMMA RoomLeft ==
    ASSUME Counts, Legal, Open, ~busy, transit > 0
    PROVE  Room > 0
<1>0. inlen \in 0..INPUT_BUF_SIZE /\ INPUT_BUF_SIZE \in Nat /\ transit \in Nat
  BY SizeAssumption DEF Counts, INPUT_BUF_SIZE
<1>1. HasHead
  <2> SUFFICES ASSUME ~HasHead PROVE FALSE
    OBVIOUS
  <2>0. stream \in Streams /\ taken \in 0..Len(stream)
    BY DEF Counts
  <2>1. taken = Len(stream) /\ Len(Sizes) = Len(stream) /\ Sizes \in Seq(Nat)
    <3>1. Len(Sizes) = Len(stream) /\ Sizes \in Seq(Nat) /\ Len(stream) \in Nat
      BY <2>0, Items
    <3> HIDE DEF Sizes
    <3> QED BY <2>0, <3>1 DEF HasHead
  <2>2. Sums(Sizes)[taken] = Total(Sizes) /\ Total(Sizes) \in Nat
    BY <2>1, SumsAre DEF Total
  <2> QED BY <1>0, <2>2 DEF Counts
<1>2. inlen < Size(Head1)
  BY <1>1 DEF Counts
<1>3. Size(Head1) \in 0..INPUT_BUF_SIZE
  BY <1>1, LegalFront DEF Open
<1> QED BY <1>0, <1>2, <1>3 DEF Room

\* A legal message fits in msgbuf.
LEMMA LegalFits ==
    ASSUME Counts, Gathered, InProgress, Legal, DataFrame, Text
    PROVE  NewLength <= MSG_BUF_SIZE
<1> DEFINE k == taken + 1
<1>0. stream \in Streams /\ phase = "WS" /\ HasHead
  BY DEF Counts, DataFrame, InWs, FrameThere
<1>1. /\ taken \in Nat \ {0} /\ k \in 2..Len(stream) /\ Head1 = stream[k]
      /\ NewLength = LengthSoFar + Head1.payload /\ Head1.payload \in Nat
      /\ Data(k) /\ (Begins(k) <=> ~Continues(Head1))
  BY SoFar
<1>2. LegalFrame(k)
  BY <1>0, LegalFront
<1>3. CASE ~Continues(Head1)
  <2>1. NewLength = Head1.payload
    BY <1>1, <1>3 DEF LengthSoFar
  <2> QED BY <1>1, <1>2, <2>1 DEF LegalFrame
<1>4. CASE Continues(Head1)
  <2>1. msg_opcode = "TEXT" /\ LengthSoFar = msglen
    BY <1>4 DEF Text, MessageOpcode, LengthSoFar
  <2>2. PICK s \in 2..taken : /\ Pending(s, taken) /\ stream[s].opcode = "TEXT"
                              /\ msglen = Bytes(s, taken)
    BY <1>0, <2>1 DEF InProgress
  <2>3. Within(s, k)
    BY <1>1, <1>4, <2>2, OneMoreFrame
  <2>4. s \in 2..k
    BY <1>1
  <2>5. Bytes(s, k) = Bytes(s, taken) + Head1.payload
    BY <1>0, <1>1, <2>4, MoreBytes
  <2> HIDE DEF k
  <2>6. Bytes(s, k) <= MSG_BUF_SIZE
    BY <1>2, <2>2, <2>3, <2>4 DEF LegalFrame, IsText
  <2> QED BY <1>1, <2>1, <2>2, <2>5, <2>6
<1> QED BY <1>3, <1>4

\* No step cuts such a client off.
LEMMA LegalKept ==
    ASSUME Counts, Gathered, InProgress, LegalNeverCut, [Next]_vars
    PROVE  LegalNeverCut'
<1>0. stream' = stream
  BY MessageMoves DEF Rests, Passes, MessageTooLong, Fragment, LastFragment
<1> SUFFICES ASSUME Legal PROVE phase' # "CLOSING" /\ failed' # "input"
  BY <1>0, LegalStays DEF LegalNeverCut
<1>1. phase # "CLOSING" /\ failed # "input"
  BY DEF LegalNeverCut
<1>2. CASE Read \/ HttpWait \/ FrameWait \/ Fragment \/ Ping \/ Pong \/ UNCHANGED vars
  BY <1>1, <1>2 DEF Read, HttpWait, FrameWait, Fragment, Ping, AnswerPing, Pong, vars
<1>3. ~InbufFull
  BY RoomLeft DEF InbufFull
<1>4. ~HttpRefuse /\ ~HttpRequest
  <2> SUFFICES ASSUME HttpRefuse \/ HttpRequest PROVE FALSE
    OBVIOUS
  <2>1. phase = "HTTP" /\ HasHead
    BY DEF HttpRefuse, HttpRequest, InHttp, HeaderThere, Complete
  <2>2. LegalRequest(Head1) /\ Head1 \in Requests
    BY <2>1, LegalFront, FrontItem
  <2>3. Head1.content_length \in Nat /\ MAX_BODY \in Nat
    BY <2>2, SizeAssumption DEF Requests
  <2> QED BY <2>2, <2>3 DEF HttpRefuse, HttpRequest, LegalRequest
<1>5. CASE HttpUpgrade
  BY <1>1, <1>5 DEF HttpUpgrade, AcceptUpgrade
<1>6. ~FrameMalformed
  BY LegalFront DEF FrameMalformed, InWs
<1>7. ~MessageTooLong
  <2> SUFFICES ASSUME MessageTooLong PROVE FALSE
    OBVIOUS
  <2>1. DataFrame /\ Text /\ NewLength > MSG_BUF_SIZE
    BY DEF MessageTooLong, DataFrame
  <2>2. NewLength \in Nat /\ MSG_BUF_SIZE \in Nat
    <3>1. LengthSoFar \in 0..MSG_BUF_SIZE /\ Head1.payload \in Nat /\ NewLength = LengthSoFar + Head1.payload
      BY <2>1, SoFar
    <3> QED BY <3>1, SizeAssumption
  <2> QED BY <2>1, <2>2, LegalFits
<1>8. CASE LastFragment
  <2> DEFINE M == Append(MessageSoFar, taken + 1)
  <2>1. DataFrame
    BY <1>8 DEF LastFragment, DataFrame
  <2>2. /\ taken \in Nat /\ taken + 1 \in 2..Len(stream) /\ Lists(MessageSoFar, taken)
        /\ stream \in Streams
    BY <2>1, SoFar DEF Counts
  <2>3. ToSet(M) \subseteq 2..Len(stream)
    <3>1. ToSet(MessageSoFar) \subseteq 2..taken
      BY <2>2 DEF Lists, ToSet
    <3>2. ToSet(M) = ToSet(MessageSoFar) \cup {taken + 1}
      BY <2>2, Extends
    <3>3. 2..taken \subseteq 2..Len(stream)
      BY <2>2, Items
    <3> HIDE DEF M
    <3> QED BY <2>2, <3>1, <3>2, <3>3
  <2>4. \A k \in ToSet(M) : ~stream[k].violates
    BY <2>3 DEF Legal, LegalFrame
  <2>5. UNCHANGED <<busy, phase, failed, delivered, out>> \/ OnMessage(M)
    BY <1>8 DEF LastFragment
  <2> HIDE DEF M
  <2>6. phase' = phase /\ failed' \in {failed, "reply"}
    BY <2>4, <2>5 DEF OnMessage, ClientSend
  <2> QED BY <1>1, <2>6
<1>9. ~CloseFrame
  <2> SUFFICES ASSUME CloseFrame PROVE FALSE
    OBVIOUS
  <2>1. HasHead /\ phase = "WS" /\ Head1.opcode = "CLOSE"
    BY DEF CloseFrame, InWs, FrameThere
  <2>2. LegalFrame(taken + 1)
    BY <2>1, LegalFront
  <2> QED BY <2>1, <2>2 DEF LegalFrame, Head1
<1> QED BY <1>2, <1>3, <1>4, <1>5, <1>6, <1>7, <1>8, <1>9 DEF Next, ProcessClientBuffer

----------------------------------------------------------------------------
\* The inductive invariant

IInv ==
    /\ Counts /\ Gathered /\ InProgress
    /\ DeliveredInv
    /\ Queued /\ PongsAnswerPings
    /\ LegalNeverCut

\* It holds before anything is read,
LEMMA InitIInv == Init => IInv
<1> SUFFICES ASSUME Init PROVE IInv
  OBVIOUS
<1>0. /\ inlen = 0 /\ taken = 0 /\ phase = "HTTP" /\ failed = "no"
      /\ msg_opcode = "none" /\ msgbuf = <<>> /\ msglen = 0
      /\ delivered = <<>> /\ out = <<>> /\ 2..taken = {}
  BY DEF Init
<1>1. Counts
  BY CountsInit
<1>2. Gathered
  <2>1. Lists(msgbuf, taken) /\ msglen = Total(PayloadsOf(msgbuf))
    BY <1>0, ListsNothing
  <2> QED BY <1>0, <2>1, SizeAssumption DEF Gathered
<1>3. InProgress
  BY <1>0 DEF InProgress
<1>4. DeliveredInv
  <2>1. Sent(taken) = {}
    BY <1>0 DEF Sent
  <2>2. ToSet(delivered) = {} /\ DOMAIN delivered = {} /\ delivered \in Seq(Seq(Nat))
    BY <1>0 DEF ToSet
  <2>3. DeliversWhatWasSent
    BY <2>1, <2>2 DEF DeliversWhatWasSent
  <2> QED BY <2>2, <2>3 DEF DeliveredInv
<1>5. Queued
  BY <1>0 DEF Queued
<1>6. PongsAnswerPings
  <2>1. Pongs = {} /\ Pings = {}
    BY <1>0 DEF Pongs, Pings
  <2> DEFINE pingOf == [j \in {} |-> 0]
  <2>2. pingOf \in [Pongs -> Pings] /\ {pingOf[j] : j \in Pongs} = {}
    BY <2>1
  <2> HIDE DEF pingOf
  <2> QED BY <2>1, <2>2 DEF PongsAnswerPings
<1>7. LegalNeverCut
  BY <1>0 DEF LegalNeverCut
<1> QED BY <1>1, <1>2, <1>3, <1>4, <1>5, <1>6, <1>7 DEF IInv

\* and every step keeps it.
LEMMA IInvKept == IInv /\ [Next]_vars => IInv'
<1> SUFFICES ASSUME IInv, [Next]_vars PROVE IInv'
  OBVIOUS
<1>1. /\ Counts /\ Gathered /\ InProgress /\ DeliveredInv /\ Queued
      /\ PongsAnswerPings /\ LegalNeverCut
  BY DEF IInv
<1>2. Counts' /\ Gathered' /\ InProgress'
  BY <1>1, CountsKept, GatheredKept, InProgressKept
<1>3. DeliveredInv'
  BY <1>1, DeliveredKept
<1>4. Queued'
  BY <1>1, QueuedKept
<1>5. PongsAnswerPings'
  BY <1>1, OutMoves, SpeaksAnswersNone, AnswersAnswer DEF Queued
<1>6. LegalNeverCut'
  BY <1>1, LegalKept
<1> QED BY <1>2, <1>3, <1>4, <1>5, <1>6 DEF IInv

\* The invariant holds whatever clients send and however it is cut into chunks.
THEOREM InputInvariant == Spec => []IInv
BY InitIInv, IInvKept, PTL DEF Spec

\* Neither buffer is written beyond its end, what is consumed was there, and
\* msglen counts what is in msgbuf.
THEOREM BuffersHold == Spec => []TypeOK
<1>1. IInv => TypeOK
  BY DEF IInv, Counts, Gathered, TypeOK, BuffersBounded, PayloadsOf
<1> QED BY <1>1, InputInvariant, PTL

\* The controller gets the text messages that were sent, whole, in order and
\* each once, however they are fragmented, interrupted and cut into chunks.
THEOREM MessagesArrive == Spec => []DeliversWhatWasSent
<1>1. IInv => DeliversWhatWasSent
  BY DEF IInv, DeliveredInv
<1> QED BY <1>1, InputInvariant, PTL

\* A client that stays within the limits is never cut off for what it sends.
THEOREM LimitsAreUsable == Spec => []LegalNeverCut
<1>1. IInv => LegalNeverCut
  BY DEF IInv
<1> QED BY <1>1, InputInvariant, PTL

\* Every PING is answered with its payload, in order, until a message fails to
\* be sent.
THEOREM PingsAreAnswered == Spec => []PongsAnswerPings
<1>1. IInv => PongsAnswerPings
  BY DEF IInv
<1> QED BY <1>1, InputInvariant, PTL

\* The lengths the bridge writes are read back as they were meant.
THEOREM LengthsAreReadBack == Spec => []FramesAreReadable
<1>1. IInv => FramesAreReadable
  BY QueuedAreReadable DEF IInv
<1> QED BY <1>1, InputInvariant, PTL
=============================================================================
