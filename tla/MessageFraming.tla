--------------------------- MODULE MessageFraming ---------------------------
(***************************************************************************)
(* Messages as bytes of a socket and back: rpc::MessageProcessor, qemud    *)
(* commands (QemudMessageProcessor) and lines of AT commands (AtParser     *)
(* under GsmMessageProcessor), written with BaseSocketMessenger::send and  *)
(* read by SocketConnection in pieces of any size.  A connection speaks    *)
(* one of the three.  A byte has ByteBase values instead of 256; the same  *)
(* base stands for the hexadecimal digits of qemud.                        *)
(***************************************************************************)
EXTENDS Naturals, Sequences

CONSTANTS
  ByteBase,    \* number of values of a byte
  BodyBytes,   \* the bytes a body may hold
  BodyLengths, \* bound: lengths of the bodies of rpc and qemud
  LineLengths, \* bound: lengths of the AT lines
  MaxMessages, \* bound: messages sent
  MaxRead,     \* size of buffer_ of SocketConnection
  Room,        \* size of the socket's send buffer
  MaxRetries   \* bound: writes that are repeated

ASSUME FramingAssumption ==
  /\ ByteBase \in Nat \ {0, 1, 2} /\ BodyBytes \subseteq 0..(ByteBase - 1)
  /\ BodyLengths \subseteq Nat /\ LineLengths \subseteq Nat
  /\ MaxRead \in Nat \ {0} /\ Room \in Nat \ {0}

VARIABLES
  kind,     \* "rpc", "qemud" or "at"
  sending,  \* the bytes of the message in send(), <<>> outside
  retries,  \* writes that were repeated from the first byte
  wire,     \* bytes in the socket
  buffer,   \* buffer_ of the processor
  sent,     \* messages given to send(), in order
  got       \* messages dispatched, in order

vars == <<kind, sending, retries, wire, buffer, sent, got>>

Bytes == 0..(ByteBase - 1)
Strings(bytes, lengths) == UNION {[1..n -> bytes] : n \in lengths}

Invocation == 0
Response == 1

\* The characters of AT lines: '\n' or '\r', the prefix "AT", any other.
EndOfLine == 0
AT == 1

-----------------------------------------------------------------------------
(***************************************************************************)
(* Sending.                                                                *)
(***************************************************************************)
Quotient(n) == n \div ByteBase

\* The lowest three and four digits of n, the highest first.
Digits3(n) == <<Quotient(Quotient(n)) % ByteBase, Quotient(n) % ByteBase, n % ByteBase>>
Digits4(n) == <<Quotient(Quotient(Quotient(n))) % ByteBase>> \o Digits3(n)

\* rpc: the lowest three bytes of the size, whatever the size is, and the type
\* (Channel::send_message, send_response); qemud: the size in four digits
\* (qemud_channel_send of the guest); at: a line.
Encode(k, m) ==
  CASE k = "rpc" -> (Digits3(Len(m.body)) \o <<m.type>>) \o m.body
    [] k = "qemud" -> Digits4(Len(m.body)) \o m.body
    [] k = "at" -> m.body \o <<EndOfLine>>

\* The guest sends no empty command of qemud, and none whose size needs more
\* than four digits.
QemudSizes == 1..(ByteBase * ByteBase * ByteBase * ByteBase - 1)

Messages(k) ==
  CASE k = "rpc" -> [type : Bytes, body : Strings(BodyBytes, BodyLengths)]
    [] k = "qemud" -> [type : {Invocation}, body : Strings(BodyBytes, BodyLengths \cap QemudSizes)]
    [] k = "at" -> [type : {Invocation}, body : Strings(Bytes \ {EndOfLine}, LineLengths)]

Init ==
  /\ kind \in {"rpc", "qemud", "at"}
  /\ sending = <<>> /\ retries = 0 /\ wire = <<>> /\ buffer = <<>>
  /\ sent = <<>> /\ got = <<>>

Send(m) ==
  /\ sending = <<>> /\ Len(sent) < MaxMessages
  /\ sending' = Encode(kind, m) /\ sent' = Append(sent, m)
  /\ UNCHANGED <<kind, retries, wire, buffer, got>>

\* One write with transfer_all on the non-blocking socket.
Write ==
  LET free == Room - Len(wire)
  IN  /\ sending # <<>> /\ free > 0
      /\ IF Len(sending) <= free
           THEN /\ wire' = wire \o sending /\ sending' = <<>>
                /\ UNCHANGED retries
           ELSE \* try_again after a part: the next write starts at the first byte
                /\ retries < MaxRetries
                /\ wire' = wire \o SubSeq(sending, 1, free) /\ retries' = retries + 1
                /\ UNCHANGED sending
      /\ UNCHANGED <<kind, buffer, sent, got>>

-----------------------------------------------------------------------------
(***************************************************************************)
(* Receiving: each loop is a step from [buf, out, more] to the next one.   *)
(***************************************************************************)
Value3(h) == (h[1] * ByteBase + h[2]) * ByteBase + h[3]
Value4(h) == Value3(h) * ByteBase + h[4]

After(buf, n) == SubSeq(buf, n + 1, Len(buf))

\* The loop ends with what it has.
Stop(st) == [buf |-> st.buf, out |-> st.out, more |-> FALSE]

\* The first four bytes; behind the end of the vector there may be anything.
Header(buf, past) == [i \in 1..4 |-> IF i <= Len(buf) THEN buf[i] ELSE past[i]]

\* Mutant of RpcStep: the header is not counted.
RpcStepBodyOnly(st, past) ==
  LET head == Header(st.buf, past)
      size == Value3(head)
      m == [type |-> head[4], body |-> SubSeq(st.buf, 5, 4 + size)]
  IN  IF Len(st.buf) = 0 \/ Len(st.buf) < size THEN Stop(st)
      ELSE [buf |-> After(st.buf, 4 + size), more |-> TRUE,
            out |-> IF m.type \in {Invocation, Response} THEN Append(st.out, m) ELSE st.out]

\* rpc::MessageProcessor::process_data, which does not wait for a whole header.
RpcStep(st, past) ==
  LET head == Header(st.buf, past)
      size == Value3(head)
      m == [type |-> head[4], body |-> SubSeq(st.buf, 5, 4 + size)]
  IN  IF Len(st.buf) = 0 \/ Len(st.buf) < size + 4 THEN Stop(st)
      ELSE [buf |-> After(st.buf, 4 + size), more |-> TRUE,
            out |-> IF m.type \in {Invocation, Response} THEN Append(st.out, m) ELSE st.out]

\* Mutant of QemudStep: one command for each call.
QemudStepOnce(st) ==
  LET consumed == 4 + Value4(st.buf)
  IN  IF Len(st.buf) < 4 THEN Stop(st)
      ELSE IF Len(st.buf) < consumed THEN Stop(st)
      ELSE [buf |-> After(st.buf, consumed), more |-> FALSE,
            out |-> Append(st.out, [type |-> Invocation, body |-> SubSeq(st.buf, 5, consumed)])]

\* QemudMessageProcessor::process_commands.  `remaining' is unsigned and taken
\* after the erase: the loop ends when it is zero.
QemudStep(st) ==
  LET consumed == 4 + Value4(st.buf)
      rest == After(st.buf, consumed)
  IN  IF Len(st.buf) < 4 THEN Stop(st)
      ELSE IF Len(st.buf) < consumed THEN Stop(st)
      ELSE [buf |-> rest, more |-> Len(rest) # consumed,
            out |-> Append(st.out, [type |-> Invocation, body |-> SubSeq(st.buf, 5, consumed)])]

\* AtParser::process_data: a line is a command if it starts with AT.
AtStep(st) ==
  LET ends == {i \in 1..Len(st.buf) : st.buf[i] = EndOfLine}
      at == CHOOSE i \in ends : \A j \in ends : i <= j
      line == SubSeq(st.buf, 1, at - 1)
  IN  IF ends = {} THEN Stop(st)
      ELSE [buf |-> After(st.buf, at), more |-> TRUE,
            out |-> IF line # <<>> /\ Head(line) = AT
                      THEN Append(st.out, [type |-> Invocation, body |-> line]) ELSE st.out]

Step(k, st, past) ==
  CASE ~st.more -> st
    [] st.more /\ k = "rpc" -> RpcStep(st, past)
    [] st.more /\ k = "qemud" -> QemudStep(st)
    [] st.more /\ k = "at" -> AtStep(st)

\* A step that goes on takes a byte at least.
Loop(k, buf, past) ==
  LET st[n \in 0..(Len(buf) + 1)] ==
        IF n = 0 THEN [buf |-> buf, out |-> <<>>, more |-> TRUE] ELSE Step(k, st[n - 1], past)
  IN  st[Len(buf) + 1]

\* What may be read behind the end of the buffer, at its extremes.
Past == IF kind = "rpc" THEN [2..4 -> {0, ByteBase - 1}] ELSE {[i \in 2..4 |-> 0]}

\* on_read_size with n bytes: process_data appends them and parses.
Receive(n) ==
  \E past \in Past :
    LET end == Loop(kind, buffer \o SubSeq(wire, 1, n), past)
    IN  /\ buffer' = end.buf /\ got' = got \o end.out
        /\ wire' = After(wire, n) /\ UNCHANGED <<kind, sending, retries, sent>>

Read == \E n \in 1..MaxRead : n <= Len(wire) /\ Receive(n)

Next == (\E m \in Messages(kind) : Send(m)) \/ Write \/ Read

Spec == Init /\ [][Next]_vars

-----------------------------------------------------------------------------
(***************************************************************************)
(* Properties.                                                             *)
(***************************************************************************)
\* What the receiver must dispatch.
Dispatches(k, m) ==
  CASE k = "rpc" -> m.type \in {Invocation, Response}
    [] k = "qemud" -> TRUE
    [] k = "at" -> m.body # <<>> /\ Head(m.body) = AT

\* For the first messages of ms: their bytes, and those of them to dispatch.
Upto(k, ms) ==
  LET upto[n \in 0..Len(ms)] ==
        IF n = 0 THEN [bytes |-> <<>>, out |-> <<>>]
        ELSE [bytes |-> upto[n - 1].bytes \o Encode(k, ms[n]),
              out |-> IF Dispatches(k, ms[n]) THEN Append(upto[n - 1].out, ms[n])
                      ELSE upto[n - 1].out]
  IN  upto

\* The size of every message sent so far is the one in its header.
SizesFit ==
  kind = "rpc" => \A i \in 1..Len(sent) : Len(sent[i].body) < ByteBase * ByteBase * ByteBase

\* However the bytes are cut into pieces, what has been dispatched is what was
\* sent up to some message, once and in order, and the bytes still under way are
\* exactly the messages after it.  Two things end this: a write that is
\* repeated after a part of the message went out (base_socket_messenger.cpp:98),
\* and an rpc message of 2^24 bytes or more, whose size the header cuts without
\* a check (channel.cpp:77, message_processor.cpp:105).
StreamStaysAligned ==
  retries = 0 /\ SizesFit =>
    LET upto == Upto(kind, sent)
    IN  \E n \in 0..Len(sent) :
          /\ got = upto[n].out
          /\ upto[Len(sent)].bytes = upto[n].bytes \o (buffer \o (wire \o sending))

StartsWith(buf, bytes) == Len(bytes) <= Len(buf) /\ SubSeq(buf, 1, Len(bytes)) = bytes

\* process_data leaves no whole message in the buffer; process_commands of
\* qemud does when what is left is as long as the last command
\* (qemud_message_processor.cpp:71), and in no other case.
NoWholeMessageWaits ==
  (\E m \in Messages(kind) : StartsWith(buffer, Encode(kind, m))) =>
    kind = "qemud" /\ got # <<>> /\ Len(buffer) = 4 + Len(got[Len(got)].body)
=============================================================================
