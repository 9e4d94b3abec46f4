------------------------------ MODULE MCInput -------------------------------
(* Streams for TLC: an upgrade with up to MaxFrames frames, or another request *)
(* with at most one thing behind it.                                           *)
EXTENDS Input

CONSTANT MaxFrames

Upgrade == [head |-> 3, content_length |-> 0, parses |-> TRUE, upgrade |-> TRUE,
            origin |-> TRUE, key |-> TRUE, method |-> "GET", path |-> "other",
            number |-> FALSE]
Requests1 ==
    {[Upgrade EXCEPT !.upgrade = u, !.origin = o, !.key = k, !.method = m, !.path = p,
                     !.number = b] :
        u, o, k, b \in BOOLEAN, m \in {"OPTIONS", "GET", "POST", "other"},
        p \in {"nlproxy", "sensitivity", "other"}}
      \cup {[Upgrade EXCEPT !.content_length = n] : n \in {MAX_BODY, MAX_BODY + 1}}
      \cup {[Upgrade EXCEPT !.parses = FALSE],
            [Upgrade EXCEPT !.head = INPUT_BUF_SIZE], [Upgrade EXCEPT !.head = INPUT_BUF_SIZE + 1]}

Frame(opcode, fin, form, payload) ==
    [opcode |-> opcode, fin |-> fin, flaw |-> "none", form |-> form, payload |-> payload,
     violates |-> FALSE]
Short == Frame("TEXT", TRUE, "short", 1)
Frames1 ==
    {Short, Frame("TEXT", FALSE, "medium", MSG_BUF_SIZE - 2),
     Frame("TEXT", TRUE, "long", MSG_BUF_SIZE),
     Frame("CONT", TRUE, "long", 2), Frame("CONT", FALSE, "short", 1),
     Frame("BIN", FALSE, "short", 0), Frame("PING", TRUE, "medium", SHORT_MAX)}
Endings ==
    {[Short EXCEPT !.flaw = "unmasked"], [Short EXCEPT !.opcode = "unknown"],
     [Short EXCEPT !.violates = TRUE], [Short EXCEPT !.flaw = "reserved bits"],
     Frame("PING", FALSE, "short", 1), Frame("PONG", TRUE, "medium", SHORT_MAX + 1),
     Frame("PONG", TRUE, "short", 0), Frame("CLOSE", TRUE, "short", 1),
     Frame("TEXT", TRUE, "long", MSG_BUF_SIZE + 1), Frame("TEXT", TRUE, "long", INT_MAX), Frame("CONT", TRUE, "medium", 3)}
MCStreams ==
    {<<Upgrade>> \o fs : fs \in UNION {[1..n -> Frames1] : n \in 0..MaxFrames}}
      \cup {<<Upgrade, f, e>> : f \in Frames1, e \in Endings}
      \cup {<<r>> : r \in Requests1} \cup {<<r, Short>> : r \in Requests1}
=============================================================================
