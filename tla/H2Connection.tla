---------------------------- MODULE H2Connection ----------------------------
(* One HTTP/2 connection of moduvex-http: the connection state and its      *)
(* frame handlers (protocol/h2/connection.rs, stream.rs, flow_control.rs)   *)
(* and the loop that reads frames, spawns a task for every request and      *)
(* writes the responses (server/h2_handler.rs). Sizes are scaled down by    *)
(* the constants. The client is any peer whose header blocks are proper     *)
(* HPACK; peer holds what it knows, for the properties.                     *)
EXTENDS H2Codec

CONSTANTS
    StreamIds,      \* streams the client uses, odd numbers
    MaxConcurrent,  \* local max_concurrent_streams
    MaxFrameSize,   \* local max_frame_size
    DefaultWindow,  \* DEFAULT_WINDOW_SIZE
    MaxWindow,      \* 2^31 - 1
    HeaderTable,    \* DEFAULT_HEADER_TABLE_SIZE
    Fields,         \* fields the client sends in HEADERS
    MoreFields,     \* and in CONTINUATION
    Resizes,        \* table sizes the client may switch to before a block
    ClientSettings, \* what its SETTINGS frames say: sequences of <<identifier, value>>
    DataLens,       \* lengths of DATA payloads
    Bodies,         \* lengths of response bodies
    MaxFrames       \* bound: frames the client sends

VARIABLES
    pc,     \* where run_h2_connection is
    h2,     \* H2Connection
    tasks,  \* running dispatch tasks per stream
    rx,     \* the channel of completed responses
    frames, \* frames read
    peer    \* the client: its HPACK table, what it meant, granted and received

vars == <<pc, h2, tasks, rx, frames, peer>>

(******************************* streams **********************************)

is_open(s) == s.state \in {"Open", "HalfClosedRemote", "HalfClosedLocal"}

H2Stream(win) == [state |-> "Idle", recv_window |-> win, send_window |-> win,
                  headers |-> <<>>, body |-> 0, headers_complete |-> FALSE]

\* the state after END_STREAM from the client, or the same state for an error
recv_end_stream(state) ==
    CASE state = "Open" -> "HalfClosedRemote" [] state = "HalfClosedLocal" -> "Closed" [] OTHER -> state

send_end_stream(state) ==
    CASE state = "Open" -> "HalfClosedLocal" [] state = "HalfClosedRemote" -> "Closed" [] OTHER -> state

consume_Free(window, len) == window

consume(window, len) == window - len

add_window(window, increment) ==
    IF window + increment > MaxWindow THEN H2Error(0, "FlowControlError") ELSE [ok |-> window + increment]

\* FlowController: the windows of the connection
FlowController == [send |-> DefaultWindow, recv |-> DefaultWindow]

consume_send(flow, len) == [flow EXCEPT !.send = consume(@, len)]

consume_recv(flow, len) == [flow EXCEPT !.recv = consume(@, len)]

window_update(flow, increment) ==
    LET w == add_window(flow.send, increment) IN IF IsErr(w) THEN w ELSE [ok |-> [flow EXCEPT !.send = w.ok]]

SetStream(c, sid, s) == [c EXCEPT !.streams = (sid :> s) @@ @]
RemoveStream(c, sid) == [c EXCEPT !.streams = [i \in DOMAIN @ \ {sid} |-> @[i]]]

(************************ H2Connection and process_frame ******************)

\* H2Settings::default, as far as the peer's settings are acted on
H2Settings == [initial_window_size |-> DefaultWindow]

H2New == [streams |-> <<>>, decoder |-> DynamicTable(HeaderTable),
          remote |-> H2Settings,
          flow |-> FlowController,
          last_stream_id |-> 0, goaway_sent |-> FALSE]

active(c) == Cardinality({sid \in DOMAIN c.streams : is_open(c.streams[sid])})

\* what process_frame leaves and returns: nothing, a request or an error
None(c) == [c |-> c, request |-> 0, err |-> FALSE]
Request(c, sid) == [c |-> c, request |-> sid, err |-> FALSE]
Error(c, sid) == [c |-> c, request |-> 0, err |-> TRUE, stream |-> sid]

\* one value: two are only checked, one is acted on, the others only stored
apply_setting(r, id, val) ==
    CASE r.err -> r
      [] ~r.err /\ id = SETTINGS_ENABLE_PUSH -> IF val > 1 THEN Error(r.c, 0) ELSE r
      [] ~r.err /\ id = SETTINGS_MAX_FRAME_SIZE -> IF val \notin 16384..16777215 THEN Error(r.c, 0) ELSE r
      [] ~r.err /\ id = SETTINGS_INITIAL_WINDOW_SIZE ->
            IF val > MaxWindow THEN Error(r.c, 0) ELSE None([r.c EXCEPT !.remote.initial_window_size = val])
      [] OTHER -> r

apply_settings(c, values) == FoldLeft(LAMBDA r, v : apply_setting(r, v[1], Number(v[2])), None(c), values)

\* the pseudo-headers, by their names in the static table; the octets "?" and "/"
Authority == STATIC_TABLE[1][1]
Method    == STATIC_TABLE[2][1]
Path      == STATIC_TABLE[4][1]
Pseudo    == {STATIC_TABLE[i][1] : i \in 1..14}
Host      == STATIC_TABLE[38][1]
QuestionMark == 63
Slash == 47

\* GET and POST are values of the static table; the other six methods are numbered after it
GET     == STATIC_TABLE[2][2]
Methods == {GET, STATIC_TABLE[3][2]} \union {<<m>> : m \in 62..67}

\* str::from_utf8 of texts that have no character of several bytes
from_utf8(b) == \A i \in DOMAIN b : b[i] < 128

\* HeaderMap keeps names in lower case
to_ascii_lowercase(b) == [i \in DOMAIN b |-> IF b[i] \in 65..90 THEN b[i] + 32 ELSE b[i]]

\* one field of build_request's loop: what a later field of a name says replaces what an
\* earlier one said, but a query outlives a later path without one
build_field(req, name, value) ==
    LET full == IF from_utf8(value) THEN value ELSE <<Slash>>
        q == SelectInSeq(full, LAMBDA b : b = QuestionMark)
        key == IF from_utf8(name) THEN to_ascii_lowercase(name) ELSE <<>>
    IN  CASE name = Method -> [req EXCEPT !.method = IF value \in Methods THEN value ELSE GET]
          [] name = Path ->
               IF q = 0 THEN [req EXCEPT !.path = full]
               ELSE [req EXCEPT !.path = SubSeq(full, 1, q - 1),
                                !.query = IF q = Len(full) THEN @ ELSE <<After(full, q)>>]
          [] name = Authority -> [req EXCEPT !.headers = (Host :> value) @@ @]
          [] name \in Pseudo \ {Method, Path, Authority} -> req
          [] OTHER -> [req EXCEPT !.headers = (key :> value) @@ @]

\* the request handed to the router, "GET /" where the client named neither
build_request(s) ==
    FoldLeft(LAMBDA req, h : build_field(req, h[1], h[2]),
             [method |-> GET, path |-> <<Slash>>, query |-> <<>>, headers |-> <<>>, body |-> s.body],
             s.headers)

\* Request::uri
uri(req) == IF req.query = <<>> THEN req.path ELSE req.path \o <<QuestionMark>> \o req.query[1]

process_headers(c, sid, end_stream, end_headers, block) ==
    LET c1 == [c EXCEPT !.last_stream_id = Max({@, sid})]
        known == sid \in DOMAIN c.streams
        s == IF known THEN c.streams[sid] ELSE H2Stream(c.remote.initial_window_size)
        Opened(c2) == IF end_headers /\ end_stream THEN Request(c2, sid) ELSE None(c2)
        Decoded(d) ==
            IF IsErr(d) THEN Error(SetStream(c1, sid, [s EXCEPT !.state = "Open"]), 0)
            ELSE Opened(SetStream([c1 EXCEPT !.decoder = d.table], sid,
                          [s EXCEPT !.state = IF end_stream THEN recv_end_stream("Open") ELSE "Open",
                                    !.headers = @ \o d.ok, !.headers_complete = end_headers]))
    IN  IF (~known /\ active(c) >= MaxConcurrent) \/ (known /\ s.state # "Idle") THEN Error(c1, sid)
        ELSE Decoded(decode(c.decoder, block))

process_continuation(c, sid, end_headers, block) ==
    LET s == c.streams[sid]
        Decoded(d) ==
            IF IsErr(d) THEN Error(c, 0)
            ELSE None(SetStream([c EXCEPT !.decoder = d.table], sid,
                      [s EXCEPT !.headers = @ \o d.ok, !.headers_complete = @ \/ end_headers]))
    IN  IF sid \notin DOMAIN c.streams THEN Error(c, 0) ELSE Decoded(decode(c.decoder, block))

\* the connection window is charged first, then the stream is looked up and charged
process_data(c, sid, end_stream, len) ==
    LET c1 == [c EXCEPT !.flow = consume_recv(@, len)]
        s == c.streams[sid]
        s1 == [s EXCEPT !.recv_window = consume(@, len)]
        s2 == [s1 EXCEPT !.body = @ + len]
    IN  CASE c1.flow.recv < 0 -> Error(c1, 0)
          [] c1.flow.recv >= 0 /\ sid \notin DOMAIN c.streams -> Error(c1, sid)
          [] c1.flow.recv >= 0 /\ sid \in DOMAIN c.streams /\ s1.recv_window < 0 -> Error(SetStream(c1, sid, s1), sid)
          [] OTHER ->
                IF ~end_stream THEN None(SetStream(c1, sid, s2))
                ELSE IF recv_end_stream(s.state) = s.state THEN Error(SetStream(c1, sid, s2), sid)
                ELSE Request(SetStream(c1, sid, [s2 EXCEPT !.state = recv_end_stream(@)]), sid)

process_window_update(c, sid, increment) ==
    LET f == window_update(c.flow, increment)
        w == add_window(c.streams[sid].send_window, increment)
    IN  CASE sid = 0 -> IF IsErr(f) THEN Error(c, 0) ELSE None([c EXCEPT !.flow = f.ok])
          [] sid \in DOMAIN c.streams ->
                IF IsErr(w) THEN Error(c, sid) ELSE None([c EXCEPT !.streams[sid].send_window = w.ok])
          [] OTHER -> None(c)

process_rst_stream(c, sid) ==
    IF sid \in DOMAIN c.streams THEN None([c EXCEPT !.streams[sid].state = "Closed"]) ELSE None(c)

process_goaway_Ignored(c) == None(c)

process_goaway(c) == None([c EXCEPT !.goaway_sent = TRUE])

\* PRIORITY and acknowledgements change nothing, PING is echoed by the loop
process_frame(c, f) ==
    CASE f.type = "SETTINGS" -> IF f.ack THEN None(c) ELSE apply_settings(c, f.values)
      [] f.type = "HEADERS" -> process_headers(c, f.stream, f.end_stream, f.end_headers, f.block)
      [] f.type = "CONTINUATION" -> process_continuation(c, f.stream, f.end_headers, f.block)
      [] f.type = "DATA" -> process_data(c, f.stream, f.end_stream, Len(f.payload))
      [] f.type = "WINDOW_UPDATE" -> process_window_update(c, f.stream, f.increment)
      [] f.type = "RST_STREAM" -> process_rst_stream(c, f.stream)
      [] f.type = "GOAWAY" -> process_goaway(c)
      [] f.type = "PUSH_PROMISE" -> Error(c, f.stream)
      [] f.type \in {"PING", "PRIORITY"} -> None(c)

(****************************** responses *********************************)

\* DATA frames of at most MaxFrameSize; both windows are charged before a write
RECURSIVE send_data(_, _, _, _)
send_data(c, sid, left, sent) ==
    LET n == Min({left, MaxFrameSize})
        c1 == [c EXCEPT !.flow = consume_send(@, n)]
        c2 == IF sid \in DOMAIN c.streams
              THEN [c1 EXCEPT !.streams[sid].send_window = consume(@, n),
                              !.streams[sid].state = IF n = left THEN send_end_stream(@) ELSE @]
              ELSE c1
    IN  IF left = 0 THEN [c |-> c, sent |-> sent, err |-> FALSE]
        ELSE IF c1.flow.send < 0 THEN [c |-> c1, sent |-> sent, err |-> TRUE]
        ELSE IF sid \in DOMAIN c.streams /\ c2.streams[sid].send_window < 0
             THEN [c |-> [c2 EXCEPT !.streams[sid].state = c.streams[sid].state],
                   sent |-> sent, err |-> TRUE]
        ELSE send_data(c2, sid, left - n, sent + n)

\* the fields of a response: one in the static table, one with its name there, one not
header_pairs(r) == <<STATIC_TABLE[8], <<STATIC_TABLE[28][1], <<r.len>>>>, <<<<99>>, <<r.stream>>>>>>
headers_frame(r) == [type |-> "HEADERS", stream |-> r.stream, end_stream |-> r.len = 0, end_headers |-> TRUE,
                     block |-> encode(header_pairs(r))]

\* HEADERS, then the body; a stream that is closed by it leaves the table. With
\* ~up the first write fails, the connection being lost.
send_response(c, sid, len, up) ==
    LET c0 == IF len = 0 /\ sid \in DOMAIN c.streams
              THEN [c EXCEPT !.streams[sid].state = send_end_stream(@)] ELSE c
        r == send_data(c0, sid, len, 0)
    IN  IF ~up THEN [c |-> c, sent |-> 0, err |-> TRUE]
        ELSE IF ~r.err /\ sid \in DOMAIN r.c.streams /\ r.c.streams[sid].state = "Closed"
             THEN [r EXCEPT !.c = RemoveStream(@, sid)] ELSE r

(******************************* the client *******************************)

\* the longest part of the newest entries that fits, the reference for the table
Fitting(entries, max) ==
    LET n == Max({k \in 0..Len(entries) :
                    FoldLeft(LAMBDA sum, h : sum + entry_size(h), 0, SubSeq(entries, 1, k)) <= max})
        kept == SubSeq(entries, 1, n)
    IN  [entries |-> kept, max_size |-> max,
         current_size |-> FoldLeft(LAMBDA sum, h : sum + entry_size(h), 0, kept)]

\* a header block with one field: indexed when the table has it, else added to it
Block(table, f, Text(_)) ==
    LET at == {i \in DOMAIN table.entries : table.entries[i] = f} IN
    IF at # {} THEN [bytes |-> encode_integer(61 + Min(at), 7, 128), table |-> table]
    ELSE [bytes |-> <<64>> \o Text(f[1]) \o Text(f[2]),
          table |-> Fitting(<<f>> \o table.entries, table.max_size)]

HuffmanText(v) == LET h == huffman_encode(v) IN encode_integer(Len(h), 7, 128) \o h

\* the same after a size update of the table, with Huffman-coded strings
ResizedBlock(table, max, f) ==
    LET b == Block(Fitting(table.entries, max), f, HuffmanText)
    IN  [b EXCEPT !.bytes = encode_integer(max, 5, 32) \o @]

\* the bytes of a frame, and the same with one octet of padding
Bytes(f) == encode_frame(f)
PaddedBytes(f) ==
    LET p == <<1>> \o frame_payload(f) \o <<0>>
    IN  write_header(Len(p), f.type, frame_flags(f) + PADDED, f.stream) \o p
Settings(values) == [type |-> "SETTINGS", ack |-> FALSE,
                     values |-> [i \in DOMAIN values |-> <<values[i][1], Bytes4(values[i][2])>>]]

Blocks(f) == {Block(peer.table, f, encode_string)} \union {ResizedBlock(peer.table, max, f) : max \in Resizes \ {peer.table.max_size}}

(**************************** the frame loop ******************************)

Init ==
    /\ pc = "preface"
    /\ h2 = H2New
    /\ tasks = [sid \in StreamIds |-> 0]
    /\ rx = <<>>
    /\ frames = 0
    /\ peer = [table |-> DynamicTable(HeaderTable), skipped |-> FALSE, left |-> FALSE, rest |-> <<>>,
               meant |-> [sid \in StreamIds |-> <<>>],
               lowered |-> [sid \in StreamIds |-> 0],
               grant |-> [sid \in StreamIds \union {0} |-> IF sid = 0 THEN DefaultWindow ELSE 0],
               sent |-> [sid \in StreamIds \union {0} |-> 0]]

\* The client's magic and first SETTINGS; anything else ends the connection.
handle_preface(values) ==
    /\ pc = "preface"
    /\ LET r == apply_settings(h2, read_frame(Bytes(Settings(values))).values) IN
       /\ h2' = r.c
       /\ pc' = IF r.err THEN "closed" ELSE "loop"
    /\ UNCHANGED <<tasks, rx, frames, peer>>

preface_error ==
    /\ pc = "preface"
    /\ pc' = "closed"
    /\ UNCHANGED <<h2, tasks, rx, frames, peer>>

Received(r) == [peer EXCEPT !.sent[0] = @ + r.sent, !.sent[Head(rx).stream] = @ + r.sent]

\* A response that cannot be sent ends the connection with GOAWAY.
write_response(up) ==
    /\ pc = "loop"
    /\ rx # <<>>
    /\ LET r == send_response(h2, Head(rx).stream, Head(rx).len, up) IN
       /\ h2' = [r.c EXCEPT !.goaway_sent = @ \/ (r.err /\ up)]
       /\ pc' = IF r.err THEN "sleep" ELSE "loop"
       /\ peer' = Received(r)
    /\ rx' = Tail(rx)
    /\ UNCHANGED <<tasks, frames>>

start_read ==
    /\ pc = "loop"
    /\ rx = <<>>
    /\ pc' = "read"
    /\ UNCHANGED <<h2, tasks, rx, frames, peer>>

\* A request spawns its task, an error is answered with RST_STREAM or GOAWAY,
\* and the loop goes on unless the connection is to end.
process(r) ==
    /\ frames' = frames + 1
    /\ tasks' = [sid \in StreamIds |-> tasks[sid] + (IF sid = r.request THEN 1 ELSE 0)]
    /\ h2' = [r.c EXCEPT !.goaway_sent = @ \/ (r.err /\ r.stream = 0)]
    /\ pc' = IF h2'.goaway_sent THEN "sleep" ELSE "loop"
    /\ UNCHANGED <<rx>>

\* read_frame returns a frame: what the connection makes of its bytes
Read(bytes) == process_frame(h2, read_frame(bytes))

\* SETTINGS: to the client a new initial size adds to the grant of every stream, or takes
\* from it (RFC 9113, 6.9.2); process_frame leaves the windows of the streams as they are
recv_settings(values) ==
    \E r \in {Read(Bytes(Settings(values)))} :
        LET diff == r.c.remote.initial_window_size - h2.remote.initial_window_size
            Known(sid, n) == IF sid \in DOMAIN h2.streams THEN n ELSE 0
        IN  /\ process(r)
            /\ peer' = [peer EXCEPT !.grant = [sid \in DOMAIN @ |-> @[sid] + Known(sid, diff)],
                                    !.lowered = [sid \in StreamIds |-> @[sid] + Known(sid, Max({0, -diff}))]]

\* HEADERS with the first n bytes of a block: a block the connection refuses is not decoded,
\* which the client cannot know; a fragment is decoded on its own, wherever it ends
recv_headers(sid, end_stream, end_headers, f, b, n) ==
    \E r \in {Read(Bytes([type |-> "HEADERS", stream |-> sid, end_stream |-> end_stream, end_headers |-> end_headers,
                          block |-> SubSeq(b.bytes, 1, n)]))} :
        LET opened == sid \in DOMAIN r.c.streams /\ sid \notin DOMAIN h2.streams
            whole  == n = Len(b.bytes)
            fields == (IF opened THEN <<>> ELSE peer.meant[sid]) \o (IF whole THEN <<f>> ELSE <<>>)
            rest   == [stream |-> sid, field |-> f, bytes |-> After(b.bytes, n), table |-> b.table]
        IN  /\ end_headers => whole
            /\ process(r)
            /\ peer' = [peer EXCEPT !.table = IF whole THEN b.table ELSE @,
                                    !.rest = IF whole \/ r.err THEN <<>> ELSE <<rest>>,
                                    !.skipped = @ \/ r.err,
                                    !.meant[sid] = fields,
                                    !.sent[sid] = IF opened THEN 0 ELSE @,
                                    !.lowered[sid] = IF opened THEN 0 ELSE @,
                                    !.grant[sid] = IF opened THEN h2.remote.initial_window_size ELSE @]

\* CONTINUATION: the rest of a block, or a field more
recv_continuation(sid, end_headers, f, b) ==
    \E r \in {Read(Bytes([type |-> "CONTINUATION", stream |-> sid, end_headers |-> end_headers, block |-> b.bytes]))} :
        /\ process(r)
        /\ peer' = [peer EXCEPT !.table = b.table, !.rest = <<>>, !.skipped = @ \/ r.err, !.meant[sid] = Append(@, f)]

recv_data(sid, end_stream, len) ==
    /\ process(Read(PaddedBytes([type |-> "DATA", stream |-> sid, end_stream |-> end_stream,
                                 payload |-> [i \in 1..len |-> 0]])))
    /\ UNCHANGED peer

recv_window_update(sid) ==
    /\ process(Read(Bytes([type |-> "WINDOW_UPDATE", stream |-> sid, increment |-> 1])))
    /\ peer' = [peer EXCEPT !.grant[sid] = @ + 1]

recv_rst_stream(sid) ==
    process(Read(Bytes([type |-> "RST_STREAM", stream |-> sid, error_code |-> Bytes4(8)]))) /\ UNCHANGED peer

recv_goaway ==
    /\ process(Read(Bytes([type |-> "GOAWAY", last_stream |-> 0, error_code |-> Bytes4(0), debug |-> <<>>])))
    /\ peer' = [peer EXCEPT !.left = TRUE]

recv_other(sid) ==
    /\ \E f \in {[type |-> "PING", ack |-> FALSE, data |-> [i \in 1..8 |-> 0]],
                 [type |-> "SETTINGS", ack |-> TRUE, values |-> <<>>],
                 [type |-> "PRIORITY", stream |-> sid, exclusive |-> TRUE, dependency |-> 0, weight |-> 1],
                 [type |-> "PUSH_PROMISE", stream |-> sid, promised |-> 2, block |-> <<>>]} :
         process(Read(Bytes(f)))
    /\ UNCHANGED peer

\* read_frame fails: the client has or with up a frame is malformed
read_error(up) ==
    /\ pc = "read"
    /\ h2' = [h2 EXCEPT !.goaway_sent = up]
    /\ pc' = "sleep"
    /\ UNCHANGED <<tasks, rx, frames, peer>>

\* dispatch_request returns; after the loop has returned nobody takes the response
task_done(sid, len) ==
    /\ tasks[sid] > 0
    /\ tasks' = [tasks EXCEPT ![sid] = @ - 1]
    /\ rx' = IF pc = "closed" THEN rx ELSE Append(rx, [stream |-> sid, len |-> len])
    /\ UNCHANGED <<pc, h2, frames, peer>>

\* drain_responses: 100 ms, then what has completed by then
drain_sleep ==
    /\ pc = "sleep"
    /\ pc' = "flush"
    /\ UNCHANGED <<h2, tasks, rx, frames, peer>>

drain_response(up) ==
    /\ pc = "flush"
    /\ rx # <<>>
    /\ LET r == send_response(h2, Head(rx).stream, Head(rx).len, up) IN
       /\ h2' = r.c
       /\ peer' = Received(r)
    /\ rx' = Tail(rx)
    /\ UNCHANGED <<pc, tasks, frames>>

drain_end ==
    /\ pc = "flush"
    /\ rx = <<>>
    /\ pc' = "closed"
    /\ UNCHANGED <<h2, tasks, rx, frames, peer>>

\* the steps of the loop that do not wait for the client, and the writes, which wait until it reads
OwnStep == start_read \/ drain_sleep \/ drain_end
Write == \E up \in BOOLEAN : write_response(up) \/ drain_response(up)

TaskStep == \E sid \in StreamIds, len \in Bodies : task_done(sid, len)

\* read_frame returns a frame of the client
recv_frame ==
    /\ pc = "read"
    /\ frames < MaxFrames
    /\ \/ recv_goaway
       \/ \E values \in ClientSettings : recv_settings(values)
       \/ /\ peer.rest = <<>>
          /\ \/ \E sid \in StreamIds, f \in Fields : \E b \in Blocks(f), es, eh \in BOOLEAN :
                   \E n \in 0..Len(b.bytes) : recv_headers(sid, es, eh, f, b, n)
             \/ \E sid \in StreamIds, eh \in BOOLEAN, f \in MoreFields :
                   recv_continuation(sid, eh, f, Block(peer.table, f, encode_string))
       \/ \E i \in DOMAIN peer.rest, eh \in BOOLEAN :
             recv_continuation(peer.rest[i].stream, eh, peer.rest[i].field, peer.rest[i])
       \/ \E sid \in StreamIds, es \in BOOLEAN, len \in DataLens : recv_data(sid, es, len)
       \/ \E sid \in StreamIds \union {0} : recv_window_update(sid)
       \/ \E sid \in StreamIds : recv_rst_stream(sid) \/ recv_other(sid)

ClientStep == (\E values \in ClientSettings : handle_preface(values)) \/ preface_error \/ recv_frame \/ \E up \in BOOLEAN : read_error(up)

Next == OwnStep \/ Write \/ TaskStep \/ ClientStep

Spec == Init /\ [][Next]_vars

\* The handler runs on the executor; the client need not send nor read anything, nor a
\* request end.
FairSpec == Spec /\ WF_vars(OwnStep)

(****************************** properties ********************************)

\* the request says what every field said whose name the client used once, in one case of
\* its letters; what is not UTF-8 is lost, and so is the question mark of an empty query
Conveys(req, fields) ==
    \A h \in ToSet(fields) :
        LET key == to_ascii_lowercase(h[1])
        IN  (from_utf8(h[1]) /\ Len(SelectSeq(fields, LAMBDA g : to_ascii_lowercase(g[1]) = key)) = 1) =>
                /\ (h[1] = Path /\ from_utf8(h[2])) => h[2] \in {uri(req), Append(uri(req), QuestionMark)}
                /\ h[1] \notin Pseudo => req.headers[key] = h[2]

\* As long as no HEADERS or CONTINUATION frame was answered with an error, and no block is
\* half sent, the decoder's table is the client's and every stream holds exactly the fields
\* the client sent on it (HpackDecoder::decode; the carve-out is process_frame returning
\* before decode, and decode failing on a block cut inside a field), and
\* the request built from them says what they said (build_request). In the other
\* direction, the fields of every response are read back from its HEADERS frame
\* (HpackEncoder::encode, encode_frame).
HeadersExact ==
    /\ (~peer.skipped /\ peer.rest = <<>>) =>
         /\ h2.decoder = peer.table
         /\ \A sid \in DOMAIN h2.streams : h2.streams[sid].headers = peer.meant[sid]
         /\ \A sid \in DOMAIN h2.streams : Conveys(build_request(h2.streams[sid]), peer.meant[sid])
    /\ \A i \in DOMAIN rx :
         LET f == read_frame(encode_frame(headers_frame(rx[i])))
         IN  f = headers_frame(rx[i]) /\ decode(DynamicTable(0), f.block).ok = header_pairs(rx[i])

\* The server never sends more DATA than the client granted, on the connection and on each
\* stream, also after a response that failed half-way (send_data); on a stream that was open
\* when the client lowered its initial window size, which process_frame takes from no stream,
\* the excess is at most what was taken.
SentWithinGrant ==
    /\ peer.sent[0] <= peer.grant[0]
    /\ \A sid \in StreamIds : peer.sent[sid] <= peer.grant[sid] + peer.lowered[sid]

\* the client goes on reading: a write that can be made is made
ClientReads == WF_vars(Write)

\* After the GOAWAY of a client that goes on reading the connection comes to an end, whatever
\* the requests do that it has started (run_h2_connection, drain_responses).
GoawayEnds == ClientReads => (peer.left ~> pc = "closed")
=============================================================================
