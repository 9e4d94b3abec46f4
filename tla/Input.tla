-------------------------------- MODULE Input --------------------------------
(***************************************************************************)
(* What the bridge makes of the bytes of one connection, from the TLS      *)
(* handshake on: src/http.c, src/ws.c, and process_client_buffer of main.c *)
(* with what it calls.  A client's bytes come in chunks that respect no    *)
(* boundary; they gather in inbuf, from which complete requests and frames *)
(* are taken one by one.  The fragments of a message gather in msgbuf.     *)
(*                                                                         *)
(* A stream is a request, which may be an upgrade, and frames.  Their      *)
(* contents are reduced to what the code tells apart, but every byte       *)
(* counts.  Transport.tla has the socket below, Controller.tla the         *)
(* messages above.                                                         *)
(***************************************************************************)
EXTENDS Integers, SequencesExt

CONSTANTS
    Streams,            \* what clients may send
    MSG_BUF_SIZE,
    BUF_SIZE,           \* the frame client_send encodes into
    MAX_BODY,           \* 8192
    SHORT_MAX,          \* 125: what the second byte of a frame can count to
    MEDIUM_MAX,         \* 65535
    INT_MAX,
    WELCOME_SIZE, ReplySizes    \* of the messages a controller sends

\* How the length of a payload is written, and what the frame takes besides it:
\* two bytes, the length in 0, 2 or 8 more, and in a client's frame a mask.
LengthBytes == [short |-> 0, medium |-> 2, long |-> 8]
Forms == DOMAIN LengthBytes
MaskBytes == 4

DataOpcodes == {"CONT", "TEXT", "BIN"}
ControlOpcodes == {"CLOSE", "PING", "PONG"}
Frames == [opcode : DataOpcodes \cup ControlOpcodes \cup {"unknown"}, fin : BOOLEAN,
           flaw : {"none", "reserved bits", "unmasked"}, form : Forms,
           payload : Nat, violates : BOOLEAN]
Requests == [head : Nat \ {0}, content_length : Nat, parses : BOOLEAN,
             upgrade : BOOLEAN, origin : BOOLEAN, key : BOOLEAN,
             method : {"OPTIONS", "GET", "POST", "other"},
             path : {"nlproxy", "sensitivity", "other"}, number : BOOLEAN]

ASSUME SizeAssumption ==
    /\ {MSG_BUF_SIZE, BUF_SIZE, MAX_BODY, SHORT_MAX, MEDIUM_MAX, INT_MAX} \subseteq Nat \ {0}
    /\ SHORT_MAX < MEDIUM_MAX /\ MEDIUM_MAX < INT_MAX
    /\ MSG_BUF_SIZE + 14 <= INT_MAX    \* ws_decode_frame returns the size of a frame as an int
    /\ ReplySizes \cup {WELCOME_SIZE} \subseteq Nat
ASSUME StreamAssumption ==
    \A s \in Streams :
        /\ s \in Seq(Frames \cup Requests)
        /\ s # <<>> /\ s[1] \in Requests
        /\ \A i \in 2..Len(s) : s[i] \in Frames

\* Mutant: room for the header of a medium frame only.
INPUT_BUF_SIZE_Medium == MSG_BUF_SIZE + 8

INPUT_BUF_SIZE == MSG_BUF_SIZE + 14

VARIABLES
    stream, transit,    \* what the client sends, and how many bytes are not yet read
    inlen, taken,       \* bytes in inbuf, items consumed before them
    busy,               \* in process_client_buffer
    phase, failed,      \* failed says why, for the properties
    msg_opcode, msgbuf, msglen,  \* the message in progress, as indices into the stream
    delivered,          \* messages handed to the controller
    out                 \* responses and frames queued

\* The sums of the first naturals of a sequence, and of all of them
Sums(weights) ==
    LET sum[n \in 0..Len(weights)] == IF n = 0 THEN 0 ELSE sum[n - 1] + weights[n] IN sum
Total(weights) == Sums(weights)[Len(weights)]

message == <<msg_opcode, msgbuf, msglen>>
vars == <<stream, transit, inlen, taken, busy, phase, failed, message, delivered, out>>

Size(item) ==
    IF "head" \in DOMAIN item THEN item.head + item.content_length
    ELSE 2 + LengthBytes[item.form] + MaskBytes + item.payload
Head1 == stream[taken + 1]
HasHead == taken < Len(stream)

Open == failed = "no" /\ phase # "CLOSING"
Consume == inlen' = inlen - Size(Head1) /\ taken' = taken + 1
Close == phase' = "CLOSING" /\ busy' = FALSE

\* queue_output; that outbuf may be full is in Transport
Queue(what) == out' = IF failed = "no" THEN out \o what ELSE out

----------------------------------------------------------------------------
\* ws_encode_frame: the form it chooses for a length, and the length as it is
\* then written into the bytes of that form.  0 stands for its -1.

\* Mutant: one too many for the short form, which has 126 for a mark.
FormOfOffByOne(len) ==
    IF len <= SHORT_MAX + 1 THEN "short" ELSE IF len <= MEDIUM_MAX THEN "medium" ELSE "long"

FormOf(len) ==
    IF len <= SHORT_MAX THEN "short" ELSE IF len <= MEDIUM_MAX THEN "medium" ELSE "long"
Written(form, len) ==
    IF form = "short" THEN len % (SHORT_MAX + 3)
    ELSE IF form = "medium" THEN len % (MEDIUM_MAX + 1) ELSE len
EncodedSize(len, bufsz) ==
    LET n == 2 + LengthBytes[FormOf(len)] + len IN IF n > bufsz THEN 0 ELSE n
Encode(opcode, len) ==
    <<[opcode |-> opcode, form |-> FormOf(len), written |-> Written(FormOf(len), len),
       payload |-> len]>>

\* client_send
ClientSend(len) ==
    \/ EncodedSize(len, BUF_SIZE) > 0 /\ Queue(Encode("TEXT", len)) /\ UNCHANGED failed
    \/ EncodedSize(len, BUF_SIZE) = 0 /\ failed' = "reply" /\ UNCHANGED out

----------------------------------------------------------------------------
\* The read loop of main

\* Mutant: what is in the buffer already is forgotten.
RoomWhole == INPUT_BUF_SIZE

Room == INPUT_BUF_SIZE - inlen

Read ==
    /\ Open /\ ~busy
    /\ \E n \in 1..transit :
        /\ n <= Room
        /\ inlen' = inlen + n
        /\ transit' = transit - n
    /\ busy' = TRUE
    /\ UNCHANGED <<stream, taken, phase, failed, message, delivered, out>>

InbufFull ==
    /\ Open /\ ~busy /\ transit > 0
    /\ Room = 0
    /\ failed' = "input"
    /\ UNCHANGED <<stream, transit, inlen, taken, busy, phase, message, delivered, out>>

----------------------------------------------------------------------------
\* Requests (http_parse_request, handle_http_request)

InHttp == busy /\ phase = "HTTP"
HeaderThere == HasHead /\ inlen >= Head1.head

HttpWait ==
    /\ InHttp
    /\ \/ ~HeaderThere
       \/ HeaderThere /\ Head1.parses /\ Head1.content_length <= MAX_BODY /\ inlen < Size(Head1)
    /\ busy' = FALSE
    /\ UNCHANGED <<stream, transit, inlen, taken, phase, failed, message, delivered, out>>

HttpRefuse ==
    /\ InHttp /\ HeaderThere
    /\ ~Head1.parses \/ Head1.content_length > MAX_BODY
    /\ Close
    /\ UNCHANGED <<stream, transit, inlen, taken, failed, message, delivered, out>>

\* The status, and whether the page that asked may read the answer.
Response(status, cors) == <<[status |-> status, cors |-> cors]>>

\* handle_sensitivity_request; its effects are in Sensitivity.tla.
SensitivityResponse(req) ==
    IF ~req.origin THEN Response(403, FALSE)
    ELSE IF req.method = "GET" \/ (req.method = "POST" /\ req.number) THEN Response(200, TRUE)
    ELSE Response(IF req.method = "POST" THEN 400 ELSE 405, TRUE)

PlainResponse(req) ==
    IF req.method = "OPTIONS" THEN Response(204, req.origin)
    ELSE IF req.path = "nlproxy" THEN Response(200, req.origin)
    ELSE IF req.path = "sensitivity" THEN SensitivityResponse(req)
    ELSE Response(404, FALSE)

\* handle_ws_upgrade, before the controller is created
UpgradeAccepted(req) == req.upgrade /\ req.origin /\ req.key
UpgradeResponse(req) == Response(IF ~req.origin THEN 403 ELSE IF ~req.key THEN 400 ELSE 101, FALSE)

Complete == HeaderThere /\ Head1.parses /\ Head1.content_length <= MAX_BODY /\ inlen >= Size(Head1)

HttpRequest ==
    /\ InHttp /\ Complete
    /\ ~UpgradeAccepted(Head1)
    /\ Queue(IF Head1.upgrade THEN UpgradeResponse(Head1) ELSE PlainResponse(Head1))
    /\ Consume /\ Close
    /\ UNCHANGED <<stream, transit, failed, message, delivered>>

AcceptUpgrade ==
    /\ InHttp /\ Complete
    /\ UpgradeAccepted(Head1)
    /\ Queue(UpgradeResponse(Head1) \o Encode("TEXT", WELCOME_SIZE))
    /\ Consume
    /\ phase' = "WS"
    /\ UNCHANGED <<stream, transit, failed, message, delivered>>

\* Mutant: what was read beyond the request is left for the next read.
HttpUpgradeReturns == AcceptUpgrade /\ busy' = FALSE

\* The WELCOME follows the response, and the loop goes on with what was read
\* beyond the request.
HttpUpgrade == AcceptUpgrade /\ UNCHANGED busy

----------------------------------------------------------------------------
\* Frames.  ws_decode_frame looks at what there is of a frame in this order: two
\* bytes, the length, the mask and the payload.

InWs == busy /\ phase = "WS"
Control(f) == f.opcode \in ControlOpcodes
LengthThere(f) == inlen >= 2 + LengthBytes[f.form]
Malformed(f) ==
    \/ inlen >= 2 /\ f.flaw # "none"
    \/ /\ LengthThere(f)
       /\ \/ f.payload > INT_MAX - (2 + LengthBytes[f.form] + MaskBytes)
          \/ f.opcode = "unknown"
          \/ Control(f) /\ (~f.fin \/ f.payload > SHORT_MAX)
FrameThere == HasHead /\ ~Malformed(Head1) /\ inlen >= Size(Head1)

FrameWait ==
    /\ InWs
    /\ HasHead => ~Malformed(Head1) /\ inlen < Size(Head1)
    /\ busy' = FALSE
    /\ UNCHANGED <<stream, transit, inlen, taken, phase, failed, message, delivered, out>>

FrameMalformed ==
    /\ InWs /\ HasHead /\ Malformed(Head1)
    /\ Close
    /\ UNCHANGED <<stream, transit, inlen, taken, failed, message, delivered, out>>

\* What a data frame makes of the message in progress: a TEXT or BIN frame
\* begins a new one, and only TEXT is kept.
Continues(f) == f.opcode = "CONT"
MessageOpcode == IF Continues(Head1) THEN msg_opcode ELSE Head1.opcode
MessageSoFar == IF Continues(Head1) THEN msgbuf ELSE <<>>
Text == MessageOpcode = "TEXT"
NewLength == (IF Continues(Head1) THEN msglen ELSE 0) + Head1.payload

MessageTooLong ==
    /\ InWs /\ FrameThere /\ Head1.opcode \in DataOpcodes
    /\ Text /\ NewLength > MSG_BUF_SIZE
    /\ msg_opcode' = MessageOpcode
    /\ msglen' = NewLength - Head1.payload
    /\ msgbuf' = MessageSoFar
    /\ Close
    /\ UNCHANGED <<stream, transit, inlen, taken, failed, delivered, out>>

\* A fragment that is not the last one of its message
Fragment ==
    /\ InWs /\ FrameThere /\ Head1.opcode \in DataOpcodes /\ ~Head1.fin
    /\ msg_opcode' = MessageOpcode
    /\ \/ Text /\ NewLength <= MSG_BUF_SIZE
          /\ msgbuf' = Append(MessageSoFar, taken + 1) /\ msglen' = NewLength
       \/ ~Text /\ msgbuf' = MessageSoFar /\ msglen' = NewLength - Head1.payload
    /\ Consume
    /\ UNCHANGED <<stream, transit, busy, phase, failed, delivered, out>>

\* controller_on_message, which may refuse the message or send one of its own
OnMessage(m) ==
    /\ delivered' = Append(delivered, m)
    /\ \/ /\ \E k \in ToSet(m) : stream[k].violates
          /\ Close
          /\ UNCHANGED <<failed, out>>
       \/ /\ \A k \in ToSet(m) : ~stream[k].violates
          /\ UNCHANGED <<failed, out>> \/ \E len \in ReplySizes : ClientSend(len)
          /\ UNCHANGED <<phase, busy>>

NoMessage == msg_opcode' = "none" /\ msgbuf' = <<>> /\ msglen' = 0
LastFragment ==
    /\ InWs /\ FrameThere /\ Head1.opcode \in DataOpcodes /\ Head1.fin
    /\ \/ /\ Text /\ NewLength <= MSG_BUF_SIZE
          /\ OnMessage(Append(MessageSoFar, taken + 1))
       \/ ~Text /\ UNCHANGED <<busy, phase, failed, delivered, out>>
    /\ NoMessage
    /\ Consume
    /\ UNCHANGED <<stream, transit>>

\* A control frame is small enough for the PONG to be encoded.
AnswerPing(len) ==
    /\ InWs /\ FrameThere /\ Head1.opcode = "PING"
    /\ Queue(Encode("PONG", len))
    /\ Consume
    /\ UNCHANGED <<stream, transit, busy, phase, failed, delivered>>

\* Mutants: the PING takes the place of the message in progress; the PONG is empty.
PingForgets == AnswerPing(Head1.payload) /\ NoMessage
PingEmpty == AnswerPing(0) /\ UNCHANGED message

Ping == AnswerPing(Head1.payload) /\ UNCHANGED message

Pong ==
    /\ InWs /\ FrameThere /\ Head1.opcode = "PONG"
    /\ Consume
    /\ UNCHANGED <<stream, transit, busy, phase, failed, message, delivered, out>>

CloseFrame ==
    /\ InWs /\ FrameThere /\ Head1.opcode = "CLOSE"
    /\ Consume /\ Close
    /\ UNCHANGED <<stream, transit, failed, message, delivered, out>>

----------------------------------------------------------------------------

Init ==
    /\ stream \in Streams
    /\ transit = Total([i \in 1..Len(stream) |-> Size(stream[i])])
    /\ inlen = 0 /\ taken = 0
    /\ busy = FALSE
    /\ phase = "HTTP" /\ failed = "no"
    /\ msg_opcode = "none" /\ msgbuf = <<>> /\ msglen = 0
    /\ delivered = <<>> /\ out = <<>>

ProcessClientBuffer ==
    \/ HttpWait \/ HttpRefuse \/ HttpRequest \/ HttpUpgrade
    \/ FrameWait \/ FrameMalformed \/ MessageTooLong \/ Fragment \/ LastFragment
    \/ Ping \/ Pong \/ CloseFrame

Next == Read \/ InbufFull \/ ProcessClientBuffer

\* What the client sends arrives, and the loop takes it up.
Spec == Init /\ [][Next]_vars /\ WF_vars(Read \/ InbufFull) /\ WF_vars(ProcessClientBuffer)

----------------------------------------------------------------------------
\* Properties

\* Neither buffer is ever written beyond its end, and what is consumed was there.
BuffersBounded ==
    /\ inlen \in 0..INPUT_BUF_SIZE
    /\ msglen \in 0..MSG_BUF_SIZE
TypeOK ==
    /\ BuffersBounded
    /\ transit \in Nat /\ taken \in 0..Len(stream)
    /\ busy \in BOOLEAN
    /\ phase \in {"HTTP", "WS", "CLOSING"} /\ failed \in {"no", "input", "reply"}
    /\ msg_opcode \in {"none", "TEXT", "BIN"}
    /\ msglen = Total([i \in 1..Len(msgbuf) |-> stream[msgbuf[i]].payload])

\* RFC 6455 5.4, without a buffer: frame i ends the message that frame s began if
\* both are data frames and no other message begins or ends between them.
Data(i) == stream[i].opcode \in DataOpcodes
Begins(s) == stream[s].opcode \in {"TEXT", "BIN"}
Within(s, i) ==
    /\ s <= i /\ Begins(s) /\ Data(i)
    /\ \A j \in (s + 1)..i : ~Begins(j)
    /\ \A j \in s..(i - 1) : Data(j) => ~stream[j].fin
FragmentsOf(s, i) == {j \in s..i : Data(j)}
IsText(s, i) == Within(s, i) /\ stream[s].opcode = "TEXT"
Sent(n) ==
    {FragmentsOf(ends[1], ends[2]) :
        ends \in {ends \in (2..n) \X (2..n) : IsText(ends[1], ends[2]) /\ stream[ends[2]].fin}}

\* However the bytes are cut into chunks, and whatever lies between the fragments
\* of a message or is left unfinished, the controller gets the text messages that
\* were sent, whole, in order, each once.
DeliversWhatWasSent ==
    /\ {ToSet(m) : m \in ToSet(delivered)} = Sent(taken)
    /\ \A m \in ToSet(delivered) : \A i, k \in DOMAIN m : i < k => m[i] < m[k]
    /\ \A i, k \in DOMAIN delivered : i < k =>
         \A a \in ToSet(delivered[i]), b \in ToSet(delivered[k]) : a < b

\* "Bound both forms to the same 1 MiB limit; the receive buffer also needs room
\* for the largest masked frame header" (main.c): a client that stays within the
\* limits is never cut off for what it sends, single frames and messages of
\* exactly the limit, in the longest form, included.
LegalRequest(req) ==
    /\ req.parses /\ UpgradeAccepted(req)
    /\ req.content_length <= MAX_BODY /\ Size(req) <= INPUT_BUF_SIZE
Bytes(s, i) ==
    Total([j \in 1..(i + 1 - s) |-> IF Data(s + j - 1) THEN stream[s + j - 1].payload ELSE 0])
LegalFrame(i) ==
    LET f == stream[i] IN
    /\ f.flaw = "none" /\ f.opcode \notin {"unknown", "CLOSE"} /\ ~f.violates
    /\ Control(f) => f.fin /\ f.payload <= SHORT_MAX
    /\ f.payload <= MSG_BUF_SIZE
    /\ \A s \in 2..i : IsText(s, i) => Bytes(s, i) <= MSG_BUF_SIZE
Legal == LegalRequest(stream[1]) /\ \A i \in 2..Len(stream) : LegalFrame(i)
LegalNeverCut == Legal => phase # "CLOSING" /\ failed # "input"

\* Every PING consumed is answered, in order and with its payload, until a
\* controller's message fails to be sent: the PONGs are those of the first PINGs.
Pings == {i \in 2..taken : stream[i].opcode = "PING"}
Pongs == {j \in DOMAIN out : "opcode" \in DOMAIN out[j] /\ out[j].opcode = "PONG"}
PongsAnswerPings ==
    \E pingOf \in [Pongs -> Pings] :
        LET answered == {pingOf[j] : j \in Pongs} IN
        /\ \A j \in Pongs : out[j].payload = stream[pingOf[j]].payload
        /\ \A j, k \in Pongs : j < k => pingOf[j] < pingOf[k]
        /\ \A i \in Pings \ answered, k \in answered : k < i
        /\ failed = "no" => answered = Pings

\* The lengths the bridge writes are read back as they were meant.
FramesAreReadable ==
    \A f \in ToSet(out) : "form" \in DOMAIN f =>
        /\ f.written = f.payload
        /\ f.form = "short" => f.written <= SHORT_MAX

\* What arrives in full is handled to its end, or ends the connection: nothing
\* that is complete rests in the buffer, waiting for bytes that never come.
StreamGetsThrough == <>(taken = Len(stream) \/ ~Open)
=============================================================================
