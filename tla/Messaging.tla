------------------------------ MODULE Messaging ------------------------------
(***************************************************************************)
(* Messages from one end to the other: the calls that publish one,         *)
(* edge_publish, edge_publishString, edge_rrpc_response, nats_publish and  *)
(* log_write, and the report of _handle_status_sync, with their buffers    *)
(* and the ways they fail; and the handlers of what the edge sends, with   *)
(* what they decode, allocate and free.                                    *)
(*                                                                         *)
(* One message is under way at a time: calls and handlers share nothing.   *)
(* The log lines the calls write on their way are modelled by what they    *)
(* do to their buffers.  Past the end of a buffer anything may happen:     *)
(* nothing is modelled after that, and the properties say when it is.      *)
(***************************************************************************)
EXTENDS Codec

CONSTANTS
  Messages,     \* what is published: sequences of bytes
  Topics,       \* topics: sequences of pieces, see PieceLen
  DeviceLists,  \* lists of connected devices: the lengths of their entries
  BufLen,       \* NATS_MSG_MAX_LEN
  TopicBufLen,  \* the length of response_topic
  EntryBufLen,  \* the length of tmp_msg
  EntryQuotes,  \* the '"' in an entry, DEVICE_LIST_INFO
  FrameLen,     \* the characters of NORMAL_MSG_FORMAT besides topic and payload
  FrameQuotes,  \* how many of them are '"'
  LogLen        \* the characters log lines put before the text they quote

ASSUME MessagingAssumption ==
  /\ \A m \in Messages : m \in Seq(Byte)
  /\ \A t \in Topics : t \in Seq(STRING)
  /\ {BufLen, TopicBufLen, EntryBufLen, EntryQuotes, FrameLen, LogLen} \subseteq Nat
  /\ \A l \in DeviceLists : l \in Seq(Nat \ 0 .. EntryQuotes)
  /\ FrameQuotes \in 1 .. FrameLen

VARIABLES
  op,       \* the message under way: who sends it, data, its topic, the one it goes to
  pc,       \* where the call is
  held,     \* the buffers it holds or has lost
  status,   \* what it returned
  bus,      \* what is on the bus: nothing, or a frame or bare text
  got       \* what a callback was given: nothing, or payload and payloadLen

vars == <<op, pc, held, status, bus, got>>

-----------------------------------------------------------------------------
(* Texts and buffers.                                                      *)

PieceLen(p) == IF p = "request" THEN 7 ELSE IF p = "response" THEN 8 ELSE 1

TextLen(topic) == FoldLeft(LAMBDA n, p : n + PieceLen(p), 0, topic)

\* The text a C function sees: up to the first NUL.
CText(s) ==
  LET nul == SelectInSeq(s, LAMBDA c : c = 0)
  IN IF nul = 0 THEN s ELSE SubSeq(s, 1, nul - 1)

\* Mutant: the buffer has the length of a subject, 1/16 of that of a message.
PayloadBufShort == BufLen \div 16

\* The length of normal_payload_base64.
PayloadBuf == BufLen

\* What base64_encode leaves in its buffer, read as a string.
Encoded(m) == CText(base64_encode(m))

\* The text a receiver finds in a frame: snprintf cuts the frame off at the end of
\* its buffer, and then it is no JSON.
Framed(topic, text) ==
  IF FrameLen + TextLen(topic) + Len(text) < BufLen THEN text ELSE NotJSON

\* What snprintf leaves of a text in a buffer.
Cut(s) == SubSeq(s, 1, IF Len(s) < BufLen THEN Len(s) ELSE BufLen - 1)

\* msg_str, cut to its buffer, with its quotes escaped in a second buffer of the
\* same length.
Escaped(line) == _replace_str(Cut(CText(line)), Quote, <<Backslash, Quote>>)

Other(n) == [i \in 1 .. n |-> 120]

\* Is the second buffer long enough for a log line that quotes the text s?
LogFits(s) == Len(Escaped(Other(LogLen) \o s)) < BufLen

\* A frame, as far as LogFits looks at it.
FrameText(topic, text) ==
  [i \in 1 .. FrameQuotes - 1 |-> Quote]
    \o Other(FrameLen - FrameQuotes + TextLen(topic) + Len(text)) \o <<Quote>>

\* The length of device_list_msg: each entry is cut to tmp_msg, and all but the
\* first follow a comma.
EntriesLen(entries) ==
  FoldLeft(LAMBDA n, e : n + (IF n = 0 THEN 0 ELSE 1)
                           + (IF e < EntryBufLen THEN e ELSE EntryBufLen - 1),
           0, entries)

\* sync_msg, as far as LogFits looks at it.
ReportText(entries) ==
  LET quotes == FrameQuotes + EntryQuotes * Len(entries)
  IN [i \in 1 .. quotes |-> Quote]
       \o Other(FrameLen + EntriesLen(entries) - quotes)

-----------------------------------------------------------------------------
NoOp == [call |-> "none", data |-> <<>>, topic |-> <<>>, to |-> <<>>, lineEnd |-> <<>>]
Calls == {"edge_publish", "edge_rrpc_response", "nats_publish", "log_write", "report"}
ReportBufs == {"device_list_msg", "tmp_msg", "sync_msg"}

\* The three buffers log_write or _handle_status_sync allocates, in this order.
Buffers(call) ==
  IF call = "log_write" THEN <<"msg_str_rep", "msg_str", "log_msg">>
  ELSE <<"device_list_msg", "tmp_msg", "sync_msg">>

\* What the edge sends with a payload, and what their handlers, _on_local_message and
\* _on_broadcast_message, hold when they have decoded it.
FromEdge == {"local", "broadcast"}
HandlerBufs == {"msg", "msg_json", "msg_base64decode"}

Results == {"OK", "INVALID_ARG", "NO_MEMORY", "PUBLISH_FAILED", "EDGE_ERR"}

TypeOK ==
  /\ op.call \in Calls \union FromEdge \union {"state_reply", "none"}
  /\ op.data \in Messages \union DeviceLists \union {<<>>} /\ op.topic \in Topics \union {<<>>}
  /\ pc \in {"idle", "payload", "frame", "publish", "alloc", "write",
             "decode", "end", "nats_end", "state", "overrun"}
  /\ held \subseteq {"payload", "frame", "msg_str_rep", "msg_str", "log_msg", "state_str"}
                     \union ReportBufs \union HandlerBufs
  /\ pc \in {"payload", "publish"} => bus = <<>>
  /\ pc = "frame" => held = {"payload"}
  /\ status \in Results \union {"none"}
  /\ Len(bus) <= 1 /\ Len(got) <= 1

Init ==
  /\ op = NoOp /\ pc = "idle" /\ held = {}
  /\ status = "none" /\ bus = <<>> /\ got = <<>>

Overrun ==
  /\ pc' = "overrun"
  /\ UNCHANGED <<held, status, bus, got>>

\* The call ends; edge_rrpc_response knows one error only.
Return(r) ==
  /\ pc' = "idle"
  /\ status' = IF op.call = "edge_rrpc_response" /\ r # "OK" THEN "EDGE_ERR" ELSE r

-----------------------------------------------------------------------------
(* Sending.                                                                *)

Begins(call, data, topic, to, lineEnd) ==
  /\ op = NoOp
  /\ op' = [call |-> call, data |-> data, topic |-> topic, to |-> to,
            lineEnd |-> lineEnd]
  /\ UNCHANGED <<held, got>>

\* edge_publish, or edge_publishString, which counts the characters.  A NULL
\* topic or message is refused.
CallPublish(data, topic) ==
  /\ Begins("edge_publish", data, topic, topic, <<>>)
  /\ \/ pc' = "payload" /\ status' = "none"
     \/ pc' = "idle" /\ status' = "INVALID_ARG"
  /\ UNCHANGED bus

\* edge_rrpc_response writes the topic of the response into response_topic, then
\* calls edge_publish, which refuses a NULL message.  (Its own log line quotes the
\* message as that of edge_publish does.)
CallResponse(data, topic) ==
  LET to == _replace_str(topic, "request", <<"response">>)
  IN /\ Begins("edge_rrpc_response", data, topic, to, <<>>)
     /\ \/ /\ pc' = IF TextLen(to) < TopicBufLen THEN "payload" ELSE "overrun"
           /\ status' = "none"
        \/ TextLen(to) < TopicBufLen /\ pc' = "idle" /\ status' = "EDGE_ERR"
     /\ UNCHANGED bus

CallNatsPublish(data) ==
  /\ Begins("nats_publish", data, <<>>, <<>>, <<>>)
  /\ pc' = "payload"
  /\ status' = "none" /\ UNCHANGED bus

\* normal_payload_base64 is allocated and filled; nats_publish then publishes it,
\* edge_publish logs the message, if there is memory for that, and goes on with a
\* second buffer.
AllocPayload ==
  /\ pc = "payload"
  /\ \/ /\ Len(base64_encode(op.data)) < PayloadBuf
        /\ held' = {"payload"}
        /\ pc' = IF op.call = "nats_publish" THEN "publish" ELSE "frame"
        /\ UNCHANGED <<status, bus, got>>
     \/ Len(base64_encode(op.data)) >= PayloadBuf /\ Overrun
     \/ op.call # "nats_publish" /\ ~ LogFits(op.data) /\ Overrun
     \/ Return("NO_MEMORY") /\ UNCHANGED <<held, bus, got>>
  /\ UNCHANGED op

\* normal_msg is allocated and filled, and logged if there is memory for that.
AllocFrame ==
  /\ pc = "frame"
  /\ \/ /\ held' = held \union {"frame"} /\ pc' = "publish"
        /\ UNCHANGED <<status, bus, got>>
     \/ ~ LogFits(FrameText(op.to, Encoded(op.data))) /\ Overrun
     \/ Return("NO_MEMORY") /\ held' = {} /\ UNCHANGED <<bus, got>>
  /\ UNCHANGED op

\* What edge_publish or nats_publish hands to _publish_string.
Outgoing ==
  IF op.call = "nats_publish"
  THEN [subject |-> "nats_publish", text |-> Encoded(op.data)]
  ELSE [subject |-> "router", topic |-> op.to, text |-> Framed(op.to, Encoded(op.data))]

Kept == IF op.call = "nats_publish" THEN held ELSE {}

\* Mutant: the status is that of the flush alone.
PublishFlushOnly ==
  /\ pc = "publish"
  /\ \E sent \in BOOLEAN, flushed \in BOOLEAN :
       /\ bus' = IF sent THEN <<Outgoing>> ELSE <<>>
       /\ Return(IF flushed THEN "OK" ELSE "PUBLISH_FAILED")
  /\ held' = Kept /\ UNCHANGED <<op, got>>

\* Mutant: after a flush that failed the message is published again.
PublishRetries ==
  /\ pc = "publish"
  /\ \E sent \in BOOLEAN, flushed \in BOOLEAN :
       /\ bus' = IF sent THEN <<Outgoing>> ELSE <<>>
       /\ IF flushed THEN Return("OK") ELSE UNCHANGED <<pc, status>>
  /\ held' = Kept /\ UNCHANGED <<op, got>>

\* _publish_string: natsConnection_PublishString, then natsConnection_Flush, both
\* of which may fail; the message may have left nevertheless.  edge_publish frees
\* its buffers, nats_publish does not.
Publish ==
  /\ pc = "publish"
  /\ \E sent \in BOOLEAN, flushed \in BOOLEAN :
       /\ bus' = IF sent THEN <<Outgoing>> ELSE <<>>
       /\ Return(IF sent /\ flushed THEN "OK" ELSE "PUBLISH_FAILED")
  /\ held' = Kept /\ UNCHANGED <<op, got>>

CallLog(line) ==
  /\ Begins("log_write", line, <<>>, <<>>, <<>>)
  /\ pc' = "alloc" /\ status' = "none" /\ UNCHANGED bus

\* The timer fires with these devices in conn_device_list.
CallReport(entries) ==
  /\ Begins("report", entries, <<>>, <<>>, <<>>)
  /\ pc' = "alloc" /\ status' = "none" /\ UNCHANGED bus

\* The i-th buffer of log_write or _handle_status_sync is allocated; without memory
\* for it the others are freed, and that is all.
AllocBuffer ==
  /\ pc = "alloc"
  /\ \E i \in 1 .. 3 :
       /\ held = {Buffers(op.call)[j] : j \in 1 .. i - 1}
       /\ \/ /\ held' = held \union {Buffers(op.call)[i]}
             /\ pc' = IF i = 3 THEN "write" ELSE "alloc"
          \/ held' = {} /\ pc' = "idle"
  /\ UNCHANGED <<op, status, bus, got>>

\* log_write publishes its line and frees its buffers.  A failure to publish goes
\* unnoticed.
WriteLog ==
  /\ pc = "write" /\ op.call = "log_write"
  /\ \/ Len(Escaped(op.data)) >= BufLen /\ Overrun
     \/ /\ Len(Escaped(op.data)) < BufLen
        /\ pc' = "idle" /\ held' = {}
        /\ bus' \in {<<>>, <<[subject |-> "log", text |-> Framed(<<>>, Escaped(op.data))]>>}
        /\ UNCHANGED <<status, got>>
  /\ UNCHANGED op

\* _handle_status_sync keeps its buffers, be it without an iterator, when it returns
\* with the list locked, or after the report was published, or could not be.  An
\* entry that was cut spoils the report.
WriteReport ==
  /\ pc = "write" /\ op.call = "report"
  /\ \/ (EntriesLen(op.data) >= BufLen \/ ~ LogFits(ReportText(op.data))) /\ Overrun
     \/ op.data # <<>> /\ pc' = "idle" /\ UNCHANGED <<held, status, bus, got>>
     \/ /\ EntriesLen(op.data) < BufLen
        /\ pc' = "idle"
        /\ bus' \in {<<>>, <<[subject |-> "state",
                             text |-> IF FrameLen + EntriesLen(op.data) < BufLen
                                         /\ \A i \in DOMAIN op.data : op.data[i] < EntryBufLen
                                      THEN op.data ELSE NotJSON]>>}
        /\ UNCHANGED <<held, status, got>>
  /\ UNCHANGED op

\* The edge sends a message for a sub-device, or to all drivers.  It may put a line
\* end after the text, as encoders do that break lines.
EdgeSends(call, data, topic, lineEnd) ==
  /\ Begins(call, data, topic, topic, lineEnd)
  /\ bus' = <<[subject |-> call, topic |-> topic, text |-> Base64Of(data) \o lineEnd]>>
  /\ status' = "none" /\ UNCHANGED pc

\* It answers a report, with or without a state.
EdgeAnswers ==
  /\ Begins("state_reply", <<>>, <<>>, <<>>, <<>>)
  /\ bus' = <<[subject |-> "state_reply"]>>
  /\ status' = "none" /\ UNCHANGED pc

-----------------------------------------------------------------------------
(* Receiving.                                                              *)

OnBus(subject) == pc = "idle" /\ bus # <<>> /\ bus[1].subject = subject

\* What a callback is given: outdata, and what base64_decode returned for it.
Decoded == [payload |-> base64_decode(bus[1].text).out,
            payloadLen |-> base64_decode(bus[1].text).ret]

\* What comes after base64_decode: the text it has written is logged, and the
\* callback, if there is one, is called with it.  (Those of broadcast messages are
\* those of Driver and SyncCall.)
Decodes(handled) ==
  \/ (Len(Decoded.payload) >= BufLen \/ ~ LogFits(Decoded.payload)) /\ Overrun
  \/ /\ Len(Decoded.payload) < BufLen
     /\ got' \in {<<>>} \union (IF op.call = "broadcast" THEN {} ELSE {<<Decoded>>})
     /\ bus' = <<>>
     /\ pc' = handled /\ held' = held \union {"msg", "msg_base64decode"}
     /\ UNCHANGED status

\* _on_local_message and _on_broadcast_message, as far as SubdevSession and SyncCall
\* do not have them.  The line that logs the message quotes all of it.  Without
\* memory for the document the message is destroyed.
OnEdgeMessage ==
  /\ OnBus("local") \/ OnBus("broadcast")
  /\ \/ ~ LogFits(FrameText(op.topic, bus[1].text)) /\ Overrun
     \/ pc' = "decode" /\ held' = {"msg", "msg_json"} /\ UNCHANGED <<status, bus, got>>
     \/ bus' = <<>> /\ UNCHANGED <<pc, held, status, got>>
  /\ UNCHANGED op

\* They decode the payload.  Without memory for that they delete the document and
\* destroy the message.
DecodePayload ==
  /\ pc = "decode"
  /\ \/ Decodes("end")
     \/ /\ pc' = "idle" /\ bus' = <<>> /\ held' = held \ {"msg_json", "msg"}
        /\ UNCHANGED <<status, got>>
  /\ UNCHANGED op

\* Mutant: the buffer is not freed where nobody is called back.
EndMessageForgets ==
  /\ pc = "end" /\ pc' = "idle"
  /\ held' = held \ (IF got = <<>> THEN {"msg_json", "msg"} ELSE HandlerBufs)
  /\ UNCHANGED <<op, status, bus, got>>

\* They end, whether or not they have called somebody back.  (The document of a reply
\* is deleted before anything can fail.)
EndMessage ==
  /\ pc = "end" /\ pc' = "idle"
  /\ held' = held \ {"msg_json", "msg_base64decode", "msg"}
  /\ UNCHANGED <<op, status, bus, got>>

\* _on_nats_message: without memory it returns at once.
OnNatsMessage ==
  /\ OnBus("nats_publish")
  /\ \/ Decodes("nats_end")
     \/ bus' = <<>> /\ held' = held \union {"msg"} /\ UNCHANGED <<pc, status, got>>
  /\ UNCHANGED op

\* It frees its buffer and never destroys msg.
EndNats ==
  /\ pc = "nats_end" /\ pc' = "idle"
  /\ held' = held \ {"msg_base64decode"}
  /\ UNCHANGED <<op, status, bus, got>>

\* _on_edge_state_message; GatewayState has what it sets.  Without memory for the
\* document the message is destroyed.
OnStateMessage ==
  /\ OnBus("state_reply") /\ bus' = <<>>
  /\ \/ pc' = "state" /\ held' = {"msg", "msg_json"}
     \/ UNCHANGED <<pc, held>>
  /\ UNCHANGED <<op, status, got>>

\* It prints the state, if there is one.  The message is destroyed, but of the
\* document at most one node is freed, and nothing of the text.
EndState ==
  /\ pc = "state" /\ pc' = "idle"
  /\ \E printed \in {{}, {"state_str"}} : held' = (held \union printed) \ {"msg"}
  /\ UNCHANGED <<op, status, bus, got>>

\* Somebody else takes the message, or nobody.
Taken ==
  /\ pc = "idle" /\ bus # <<>>
  /\ bus' = <<>> /\ UNCHANGED <<op, pc, held, status, got>>

\* Before the next message the last one is forgotten, with what was lost of it.
Forget ==
  /\ pc = "idle" /\ bus = <<>> /\ op # NoOp
  /\ op' = NoOp /\ held' = {} /\ status' = "none" /\ got' = <<>>
  /\ UNCHANGED <<pc, bus>>

Next ==
  \/ \E m \in Messages, t \in Topics :
       \/ CallPublish(m, t) \/ CallResponse(m, t)
       \/ \E call \in FromEdge, lineEnd \in {<<>>, <<10>>} : EdgeSends(call, m, t, lineEnd)
  \/ \E m \in Messages : CallNatsPublish(m) \/ CallLog(m)
  \/ \E l \in DeviceLists : CallReport(l)
  \/ AllocPayload \/ AllocFrame \/ Publish
  \/ AllocBuffer \/ WriteLog \/ WriteReport
  \/ EdgeAnswers
  \/ OnEdgeMessage \/ DecodePayload \/ EndMessage
  \/ OnNatsMessage \/ EndNats \/ OnStateMessage \/ EndState
  \/ Taken \/ Forget

Spec == Init /\ [][Next]_vars

-----------------------------------------------------------------------------
(* Properties.                                                             *)

\* Length and topic of a message leave about half of the buffers free.
ShortMessage(o) ==
  /\ 8 * TextLen(o.topic) <= 7 * (TopicBufLen - 1)
  /\ FrameLen + FrameQuotes + LogLen + TextLen(o.to) + 2 * (Len(o.data) + 2) < BufLen

\* A report names so few devices that entries of full length fit, and no entry is
\* longer.
ShortReport(o) ==
  /\ \A i \in DOMAIN o.data : o.data[i] < EntryBufLen
  /\ FrameLen + FrameQuotes + LogLen + (EntryBufLen + EntryQuotes) * Len(o.data) < BufLen

ShortEnough(o) == IF o.call = "report" THEN ShortReport(o) ELSE ShortMessage(o)

\* Short messages are safe on every way through the SDK: encoding, frame,
\* response topic, log lines, decoding and reports stay within their buffers,
\* whatever the bytes are.  (Longer ones need not: the log line that quotes a frame
\* runs over before the frame does.)
OverrunNeedsLength == pc = "overrun" => ~ ShortEnough(op)

\* The segment edge_rrpc_check looks for, and the topic a response belongs to.
Requests(topic) == {i \in 2 .. Len(topic) : topic[i] = "request" /\ topic[i - 1] = "rrpc"}
ResponseTopic(topic) ==
  [i \in DOMAIN topic |-> IF i \in Requests(topic) THEN "response" ELSE topic[i]]

\* No product or device of the topic has "request" in its name.
PlainNames(topic) == \A i \in DOMAIN topic : topic[i] = "request" => i \in Requests(topic)

\* What edge_publish, edge_rrpc_response and nats_publish put on the bus is the
\* message, in Base64, for its own topic or the one of its response; if it is not
\* short, it may also be cut and unreadable.  So may a report be, that otherwise
\* names every device.
SentIsTheMessage ==
  bus # <<>> =>
    /\ op.call \in {"edge_publish", "edge_rrpc_response", "nats_publish"}
         /\ Encodable(op.data) =>
           bus[1].text \in {Base64Of(op.data)} \union (IF ShortEnough(op) THEN {} ELSE {NotJSON})
    /\ op.call = "report" =>
         bus[1].text \in {op.data} \union (IF ShortEnough(op) THEN {} ELSE {NotJSON})
    /\ op.call = "edge_publish" => bus[1].topic = op.topic
    /\ op.call = "edge_rrpc_response" /\ PlainNames(op.topic) =>
         bus[1].topic = ResponseTopic(op.topic)

\* A call that returns EDGE_OK has published its message, and published it whole
\* if it is short.
OkMeansSent ==
  [][pc = "publish" /\ status' = "OK" =>
       bus' # <<>> /\ (ShortEnough(op) => bus'[1].text # NotJSON)]_vars

\* What a callback gets is what was sent, to the byte.  An empty message and a
\* text with a line end come with a negative length, and only these do.
GotIsSent ==
  got # <<>> /\ (op.call = "local" \/ Encodable(op.data)) =>
    IF op.data = <<>> \/ op.lineEnd # <<>>
    THEN got[1].payloadLen < 0
    ELSE got[1] = [payload |-> op.data, payloadLen |-> Len(op.data)]

\* A short log line reads back as it was written, unless it holds a backslash or
\* a control character, which log_write does not escape.
LogReadsBack ==
  bus # <<>> /\ op.call = "log_write" /\ ShortEnough(op)
    /\ (\A i \in DOMAIN op.data : op.data[i] >= 32 /\ op.data[i] # Backslash) =>
      Unescape(bus[1].text) = op.data

\* However a call or a handler ends, it has freed what it allocated, except that
\* nats_publish keeps its buffer, _on_nats_message its message, a report that got
\* its three buffers all of them, and _on_edge_state_message its document and the
\* text it printed of it.
OnlyKnownLeaks ==
  pc = "idle" =>
    held \in CASE op.call = "nats_publish" -> SUBSET {"payload", "msg"}
               [] op.call = "report" -> {{}, ReportBufs}
               [] op.call = "state_reply" -> {{}, {"msg_json"}, {"msg_json", "state_str"}}
               [] OTHER -> {{}}

\* What README.md promises of edge_publish: the message may be binary.  Only
\* short messages are meant.
BinaryArrives ==
  bus # <<>> /\ op.call = "edge_publish" /\ ShortEnough(op) =>
    bus[1].text = Base64Of(op.data)

=============================================================================
