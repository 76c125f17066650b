---------------------------- MODULE H1Connection ----------------------------
(* One HTTP/1.1 connection of moduvex-http. First its wire format: the head *)
(* parser, the chunked codec and the response encoder (protocol/h1/). Then  *)
(* the loop (server/connection.rs): read a                                  *)
(* head, read the body, dispatch, write the response, and again if the      *)
(* connection is kept alive. A connection is a record; every action is the  *)
(* code between two awaits. wire is what the client has sent and the server *)
(* not yet read, later what the client sends once it has its answers; seen  *)
(* and out are ghosts for the properties.                                   *)
EXTENDS Http

(********************************* parser *********************************)

Partial == [status |-> "Partial"]
ParseError(e) == [status |-> "Error", error |-> e]

\* the length of the head up to and with the first empty line, 0 for none
find_header_end(buf) ==
    LET ends == {i \in 1..Len(buf) - 3 : SubSeq(buf, i, i + 3) = CRLF \o CRLF}
    IN  IF ends = {} THEN 0 ELSE (CHOOSE i \in ends : \A j \in ends : i <= j) + 3

find_crlf(buf) ==
    LET at == {i \in 1..Len(buf) - 1 : SubSeq(buf, i, i + 1) = CRLF}
    IN  IF at = {} THEN 0 ELSE CHOOSE i \in at : \A j \in at : i <= j

RECURSIVE split_crlf_lines(_)
split_crlf_lines(bytes) ==
    LET end == find_crlf(bytes)
    IN  IF bytes = <<>> THEN <<>>
        ELSE IF end = 0 THEN <<bytes>>
        ELSE <<SubSeq(bytes, 1, end - 1)>> \o split_crlf_lines(SubSeq(bytes, end + 2, Len(bytes)))

Versions == "HTTP/1.1" :> "Http11" @@ "HTTP/1.0" :> "Http10"

parse_request_line(line) ==
    LET sp1 == position(line, {SP})
        rest == SubSeq(line, sp1 + 1, Len(line))
        sp2 == position(rest, {SP})
        method == from_bytes(SubSeq(line, 1, sp1 - 1))
        uri == SubSeq(rest, 1, sp2 - 1)
        q == position(uri, {"?"})
        ver == SubSeq(rest, sp2 + 1, Len(rest))
    IN  CASE sp1 = 0 -> ParseError("BadRequestLine")
          [] sp1 # 0 /\ method = <<>> -> ParseError("UnknownMethod")
          [] sp1 # 0 /\ method # <<>> /\ (sp2 = 0 \/ ~from_utf8(uri)) -> ParseError("BadRequestLine")
          [] OTHER ->
                IF Len(ver) # 1 \/ ver[1] \notin DOMAIN Versions THEN ParseError("UnsupportedVersion")
                ELSE [status |-> "Line", method |-> method[1], version |-> Versions[ver[1]],
                      path |-> IF q = 0 THEN uri ELSE SubSeq(uri, 1, q - 1),
                      query |-> IF q = 0 THEN <<>> ELSE <<SubSeq(uri, q + 1, Len(uri))>>]

parse_header_line(line) ==
    LET colon == position(line, {":"})
        name == SubSeq(line, 1, colon - 1)
    IN  IF colon = 0 \/ ~from_utf8(name) \/ ToSet(name) \cap (OWS \cup {CR, LF, NUL}) # {}
        THEN ParseError("BadHeader")
        ELSE [status |-> "Header", name |-> name, value |-> trim(SubSeq(line, colon + 1, Len(line)), OWS)]

\* a name that is no single token is none of the names the code looks for
Word(name) == IF Len(name) = 1 THEN name[1] ELSE "other"

contains_forbidden(s) == ToSet(s) \cap {NUL, CR, LF} # {}

\* what the header loop carries; once an error is met, or the empty line, it stops
Scan == [status |-> "Scan", headers |-> <<>>, host |-> FALSE, te |-> FALSE, chunked |-> FALSE,
         cl |-> <<>>, multi_cl |-> FALSE]

content_length(acc, n) ==
    IF acc.cl = <<>> THEN [acc EXCEPT !.cl = n] ELSE [acc EXCEPT !.multi_cl = @ \/ acc.cl # n]

scan_header(acc, line, limits) ==
    LET Seen(h, name) ==
            [acc EXCEPT !.headers = Append(@, [name |-> Word(h.name), value |-> h.value]),
                        !.host = @ \/ name = "host",
                        !.te = @ \/ name = "transfer-encoding",
                        !.chunked = @ \/ (name = "transfer-encoding"
                                          /\ "chunked" \in {to_lower(t) : t \in ToSet(h.value)})]
        Length(seen, n) == IF n = <<>> THEN ParseError("BadHeader") ELSE content_length(seen, n)
        Named(h, name) ==
            IF name # "content-length" THEN Seen(h, name)
            ELSE Length(Seen(h, name), IF from_utf8(h.value) THEN unsigned(trim(h.value, OWS), 10) ELSE <<>>)
        Header(h) ==
            IF h.status = "Error" THEN h
            ELSE IF contains_forbidden(h.value) THEN ParseError("HeaderInjection")
            ELSE Named(h, to_lower(Word(h.name)))
    IN  CASE acc.status # "Scan" -> acc
          [] acc.status = "Scan" /\ line = <<>> -> [acc EXCEPT !.status = "End"]
          [] OTHER ->
                IF Len(acc.headers) >= limits.max_header_count THEN ParseError("TooManyHeaders")
                ELSE IF Len(line) > limits.max_header_value THEN ParseError("HeaderValueTooLong")
                ELSE Header(parse_header_line(line))

parse_request_head(buf, limits) ==
    LET Finish(line, scan, end) ==
            IF scan.status = "Error" THEN scan
            ELSE IF line.version = "Http11" /\ ~scan.host THEN ParseError("MissingHost")
            ELSE IF scan.te /\ scan.cl # <<>> THEN ParseError("AmbiguousBody")
            ELSE IF scan.multi_cl THEN ParseError("MultipleContentLength")
            ELSE [status |-> "Complete", method |-> line.method, path |-> line.path, query |-> line.query,
                  version |-> line.version, headers |-> scan.headers, head_len |-> end,
                  has_chunked_te |-> scan.chunked, content_length |-> scan.cl]
        Headers(line, lines, end) ==
            IF line.status = "Error" THEN line
            ELSE Finish(line, FoldLeft(LAMBDA acc, l : scan_header(acc, l, limits), Scan, lines), end)
        Lines(lines, end) ==
            IF Len(lines[1]) > limits.max_request_line THEN ParseError("RequestLineTooLong")
            ELSE Headers(parse_request_line(lines[1]), Tail(lines), end)
        Block(end) ==
            IF end # 0 THEN Lines(split_crlf_lines(SubSeq(buf, 1, end)), end)
            ELSE IF Len(buf) > limits.max_header_block THEN ParseError("HeadersTooLarge") ELSE Partial
    IN  Block(find_header_end(buf))

(******************************** chunked *********************************)

ChunkedError(e) == [error |-> e]

\* the body decoded from buf on; every chunk is length, data and CRLF
RECURSIVE decode_chunked(_, _)
decode_chunked(buf, max) ==
    LET BeforeSemi(line, semi) == IF semi = 0 THEN line ELSE SubSeq(line, 1, semi - 1)
        Size(str) == IF from_utf8(str) THEN unsigned(trim(str, OWS), 16) ELSE <<>>
        Finish(chunk, rest) == IF "error" \in DOMAIN rest THEN rest ELSE [body |-> chunk \o rest.body]
        Data(n, data) ==
            IF n > max THEN ChunkedError("ChunkTooLarge")
            ELSE IF Len(data) < n + 2 THEN ChunkedError("Incomplete")
            ELSE IF SubSeq(data, n + 1, n + 2) # CRLF THEN ChunkedError("BadChunkTerminator")
            ELSE Finish(SubSeq(data, 1, n), decode_chunked(SubSeq(data, n + 3, Len(data)), max))
        Sized(size, data) ==
            CASE size = <<>> -> ChunkedError("BadChunkSize")
              [] size = <<0>> -> [body |-> <<>>]
              [] OTHER -> Data(size[1], data)
        Line(line, data) == Sized(Size(BeforeSemi(line, position(line, {";"}))), data)
        At(crlf) == IF crlf = 0 THEN ChunkedError("Incomplete")
                    ELSE Line(SubSeq(buf, 1, crlf - 1), SubSeq(buf, crlf + 2, Len(buf)))
    IN  At(find_crlf(buf))

encode_chunk(data) ==
    IF data = <<>> THEN <<>> ELSE to_base[Len(data), 16] \o CRLF \o data \o CRLF

write_final_chunk == <<"0">> \o CRLF \o CRLF

(******************************** encoder *********************************)

write_status_line(status) == <<"HTTP/1.1", SP>> \o to_base[status, 10] \o canonical_reason(status) \o CRLF
write_header(name, value) == <<name, ":", SP>> \o value \o CRLF

\* the chunks that are queued, up to the first empty one
stream_body(chunks) ==
    LET stop == SelectInSeq(chunks, LAMBDA c : c = <<>>)
        sent == IF stop = 0 THEN chunks ELSE SubSeq(chunks, 1, stop - 1)
    IN  FlattenSeq([i \in 1..Len(sent) |-> encode_chunk(sent[i])]) \o write_final_chunk

encode_response(r) ==
    LET user == SelectSeq(r.headers, LAMBDA e : e.name \notin {"content-length", "transfer-encoding"})
        framing == IF r.body.kind = "Stream" THEN write_header("Transfer-Encoding", <<"chunked">>)
                   ELSE write_header("Content-Length", to_base[body_content_length(r.body)[1], 10])
    IN  write_status_line(r.status)
        \o FlattenSeq([i \in 1..Len(user) |-> write_header(user[i].name, user[i].value)])
        \o framing \o CRLF
        \o IF r.body.kind = "Stream" THEN stream_body(r.body.chunks) ELSE into_bytes(r.body)

encode_error(status, msg) ==
    write_status_line(status) \o write_header("Content-Type", <<"text/plain">>)
    \o write_header("Content-Length", to_base[Len(msg), 10]) \o write_header("Connection", <<"close">>)
    \o CRLF \o msg

(***************************** the connection *****************************)

CONSTANTS
    Clients,
    Limits,       \* ConnConfig::parse_limits
    MaxReadBuf,   \* ConnConfig::max_read_buf
    MaxBody,      \* ConnConfig::max_body_size
    ChunkSlack,   \* max_body / 10 + 1024, the room for chunk metadata
    MaxRequests,  \* ConnConfig::max_requests
    MaxChunk,     \* MAX_CHUNK_SIZE
    ReadSize,     \* the 4096 bytes of a read
    ReadSizes,    \* how much a read may return, of 1..ReadSize
    Routes        \* paths the router knows

VARIABLE conns

(***************************** the client's side **************************)

\* what a client sends for a request
Framing(r) ==
    CASE r.framing = "none" -> <<>>
      [] r.framing = "fixed" -> <<"Content-Length", ":">> \o to_base[Len(r.body), 10] \o CRLF
      [] r.framing = "chunked" -> <<"Transfer-Encoding", ":", "chunked">> \o CRLF
Render(r) ==
    <<r.method, SP, r.path, SP, r.version>> \o CRLF \o <<"Host", ":">> \o [i \in 1..r.host |-> "h"] \o CRLF
    \o (IF r.connection = "" THEN <<>> ELSE <<"Connection", ":", SP, r.connection>> \o CRLF)
    \o Framing(r) \o CRLF
    \o (IF r.framing = "chunked" THEN encode_chunk(r.body) \o write_final_chunk ELSE r.body)

\* a client pipelines its requests, but waits for the answer to a chunked one
RECURSIVE Segments(_)
Segments(script) ==
    LET cut == SelectInSeq(script, LAMBDA r : r.framing = "chunked")
        n == IF cut = 0 THEN Len(script) ELSE cut
    IN  IF script = <<>> THEN <<>>
        ELSE <<FlattenSeq([i \in 1..n |-> Render(script[i])])>> \o Segments(SubSeq(script, n + 1, Len(script)))

(***************************** the connection *****************************)

NewConn(script, segs) ==
    [pc |-> "new", buf |-> <<>>, wire |-> segs[1], later |-> Tail(segs), script |-> script, end |-> "open",
     served |-> 0, req |-> <<>>, need |-> 0, resp |-> <<>>, guarded |-> FALSE, seen |-> <<>>, out |-> <<>>]

\* breaking out of the loop drops the stream
close(k) == [k EXCEPT !.pc = "closed", !.buf = <<>>, !.wire = <<>>, !.later = <<>>]

\* send_error, then Err(()): guarded when the idle timeout still runs over it
send_error(k, status, guarded) ==
    [k EXCEPT !.pc = "error", !.guarded = guarded, !.resp = new_response(status), !.buf = <<>>]

parse_error_to_status(e) ==
    CASE e \in {"RequestLineTooLong", "HeadersTooLarge", "TooManyHeaders", "HeaderValueTooLong"} -> 431
      [] e = "UnsupportedVersion" -> 505
      [] OTHER -> 400

dispatch(k, body) ==
    LET r == [k.req EXCEPT !.body = body]
    IN  [k EXCEPT !.pc = "handler", !.req = r, !.seen = Append(@, r)]

\* variant: the body is all that was read
fixed_loop_TakesAll(k) ==
    IF Len(k.buf) < k.need THEN [k EXCEPT !.pc = "fixed"]
    ELSE dispatch([k EXCEPT !.buf = SubSeq(@, k.need + 1, Len(@))], Fixed(k.buf))

\* read_fixed_body
fixed_loop(k) ==
    IF Len(k.buf) < k.need THEN [k EXCEPT !.pc = "fixed"]
    ELSE dispatch([k EXCEPT !.buf = SubSeq(@, k.need + 1, Len(@))], Fixed(SubSeq(k.buf, 1, k.need)))

has_chunked_terminator(buf) ==
    \E i \in 1..Len(buf) - 4 : SubSeq(buf, i, i + 4) = write_final_chunk

\* read_chunked_body: what follows the body in the buffer is cleared with it
chunked_loop(k) ==
    LET Decoded(d) == IF "error" \in DOMAIN d THEN send_error(k, 400, FALSE)
                      ELSE IF Len(d.body) > MaxBody THEN send_error(k, 413, FALSE)
                      ELSE dispatch([k EXCEPT !.buf = <<>>], Fixed(d.body))
    IN  IF has_chunked_terminator(k.buf) THEN Decoded(decode_chunked(k.buf, MaxChunk))
        ELSE IF Len(k.buf) > MaxBody + ChunkSlack THEN send_error(k, 413, FALSE)
        ELSE [k EXCEPT !.pc = "chunked"]

\* the head is parsed: drain it and turn to the body
read_body(k, head) ==
    LET r == [method |-> head.method, path |-> head.path, query |-> head.query, version |-> head.version,
              headers |-> head.headers, body |-> Empty]
        k1 == [k EXCEPT !.buf = SubSeq(@, head.head_len + 1, Len(@)), !.req = r]
    IN  IF head.has_chunked_te THEN chunked_loop(k1)
        ELSE IF head.content_length = <<>> THEN dispatch(k1, Empty)
        ELSE IF head.content_length[1] > MaxBody THEN send_error(k1, 413, FALSE)
        ELSE fixed_loop([k1 EXCEPT !.need = head.content_length[1]])

\* read_head up to its next read
head_loop(k) ==
    LET Parsed(head) ==
            CASE head.status = "Complete" -> read_body(k, head)
              [] head.status = "Error" -> send_error(k, parse_error_to_status(head.error), TRUE)
              [] head.status = "Partial" ->
                    IF Len(k.buf) >= MaxReadBuf THEN send_error(k, 431, TRUE) ELSE [k EXCEPT !.pc = "head"]
    IN  Parsed(parse_request_head(k.buf, Limits))

Resume(k) ==
    CASE k.pc = "head" -> head_loop(k) [] k.pc = "fixed" -> fixed_loop(k) [] k.pc = "chunked" -> chunked_loop(k)

Reading(k) == k.pc \in {"head", "fixed", "chunked"}
Set(c, k) == conns' = [conns EXCEPT ![c] = k]

\* a read returns some of what the client sent
read_some(c) ==
    LET k == conns[c]
    IN  /\ Reading(k)
        /\ \E n \in ReadSizes \cup {Len(k.wire)} :
             /\ n \in 1..Len(k.wire) /\ n <= ReadSize
             /\ Set(c, Resume([k EXCEPT !.buf = @ \o SubSeq(k.wire, 1, n), !.wire = SubSeq(@, n + 1, Len(@))]))

\* the client closed its side: a read returns 0
read_eof(c) ==
    LET k == conns[c]
    IN  /\ Reading(k) /\ k.end = "eof" /\ k.wire = <<>>
        /\ Set(c, IF k.pc = "head" /\ k.buf = <<>> THEN close(k) ELSE send_error(k, 400, k.pc = "head"))

\* a read fails
read_error(c) == Reading(conns[c]) /\ conns[c].end = "reset" /\ Set(c, close(conns[c]))

\* idle_timeout runs over read_head, and over the error response it sends
idle_timeout(c) ==
    LET k == conns[c]
    IN  /\ k.pc = "head" \/ (k.pc = "error" /\ k.guarded)
        /\ Set(c, close(k))

\* what a client makes of the bytes of an answer
Understood(bytes) ==
    LET end == CHOOSE i \in 1..Len(bytes) : /\ SubSeq(bytes, i, i + 3) = CRLF \o CRLF
                                            /\ \A j \in 1..(i - 1) : SubSeq(bytes, j, j + 3) # CRLF \o CRLF
        names == {i \in 1..end : bytes[i + 1] = ":"}
        Value(i) == SubSeq(bytes, i + 3, CHOOSE j \in i..end : bytes[j + 1] = CR /\ \A m \in i..j : bytes[m] # CR)
        Field(n) == LET at == {i \in names : to_lower(bytes[i]) = n}
                    IN  IF Cardinality(at) = 1 THEN Value(CHOOSE i \in at : TRUE) ELSE <<>>
        Body(rest) == IF Field("transfer-encoding") = <<"chunked">> THEN decode_chunked(rest, MaxChunk).body
                      ELSE IF unsigned(Field("content-length"), 10) = <<Len(rest)>> THEN rest ELSE <<"misframed">>
    IN  [status |-> unsigned(SubSeq(bytes, 3, 5), 10)[1], close |-> Field("connection") = <<"close">>,
         body |-> Body(SubSeq(bytes, end + 4, Len(bytes)))]

\* a write that ended reached the client, unless the client has reset the connection
Told(k, bytes) == IF k.end = "reset" THEN k.out ELSE Append(k.out, Understood(bytes))

error_written(c) ==
    LET k == conns[c]
    IN  /\ k.pc = "error"
        /\ Set(c, close([k EXCEPT !.out = Told(k, encode_error(k.resp.status, <<"message">>))]))

keep_alive_Lenient(k) == is_keep_alive(k.req.version, k.req.headers) /\ k.served + 1 <= MaxRequests

keep_alive(k) ==
    /\ is_keep_alive(k.req.version, k.req.headers)
    /\ k.req.version = "Http11"
    /\ k.served + 1 < MaxRequests

\* a response whose body is a channel: one chunk, then closed
streamed == [new_response(200) EXCEPT !.body = body_close(body_send(body_channel, <<"x">>))]

\* the response of on_upgrade: the callback travels in its extensions
on_upgrade ==
    LET named == insert(insert(<<>>, "upgrade", <<"websocket">>), "connection", <<"Upgrade">>)
    IN  [new_response(101) EXCEPT !.upgrade = TRUE, !.headers = insert(named, "sec-websocket-accept", <<"key">>)]

\* the handler's response, without its body for HEAD; a known route may answer 101 with a callback
handler_done(c) ==
    LET k == conns[c]
    IN  /\ k.pc = "handler"
        /\ \E r \in IF k.req.path[1] \in Routes
                    THEN {text(<<"x">>), streamed, on_upgrade} ELSE {not_found} :
             LET resp == IF k.req.method = "HEAD" THEN [new_response(r.status) EXCEPT !.headers = r.headers] ELSE r
                 keep == IF keep_alive(k) THEN "keep-alive" ELSE "close"
             IN  IF resp.status = 101 THEN Set(c, [k EXCEPT !.pc = "upgrade", !.resp = resp])
                 ELSE Set(c, [k EXCEPT !.pc = "write", !.served = @ + 1,
                                       !.resp = [resp EXCEPT !.headers = insert(@, "connection", <<keep>>)]])

\* write_all ended, well or with an I/O error that the loop does not look at
response_written(c) ==
    LET k == conns[c]
        again == [k EXCEPT !.req = <<>>, !.need = 0, !.resp = <<>>, !.out = Told(k, encode_response(k.resp))]
    IN  /\ k.pc = "write"
        /\ Set(c, IF get(k.resp.headers, "connection") = <<<<"close">>>> THEN close(again) ELSE head_loop(again))

\* the 101 is out: the callback gets the stream, with what is left in the buffer
upgrade_written(c) ==
    LET k == conns[c]
        told == [k EXCEPT !.out = Told(k, encode_response(k.resp))]
    IN  /\ k.pc = "upgrade"
        /\ Set(c, IF k.resp.upgrade THEN [told EXCEPT !.pc = "ws"] ELSE close(told))

write_timeout(c) == conns[c].pc \in {"write", "upgrade"} /\ Set(c, close(conns[c]))

\* the callback returns and drops the stream
ws_done(c) == conns[c].pc = "ws" /\ Set(c, close(conns[c]))

\* the client goes on once it has the answers it waits for, or goes away
client_next(c) ==
    LET k == conns[c]
    IN  /\ k.pc = "head" /\ k.wire = <<>> /\ k.buf = <<>> /\ k.later # <<>> /\ k.end = "open"
        /\ Set(c, [k EXCEPT !.wire = Head(k.later), !.later = Tail(@)])

client_leaves(c) ==
    LET k == conns[c]
    IN  /\ k.pc \notin {"new", "closed"} /\ k.end = "open"
        /\ \/ Set(c, [k EXCEPT !.end = "eof", !.later = <<>>])
           \/ Set(c, [k EXCEPT !.end = "reset", !.wire = <<>>, !.later = <<>>])

(* what the server does by itself: no step of the client is needed *)
ServerStep(c) ==
    read_some(c) \/ read_eof(c) \/ read_error(c) \/ idle_timeout(c) \/ error_written(c) \/ handler_done(c)
    \/ response_written(c) \/ upgrade_written(c) \/ write_timeout(c) \/ ws_done(c)
ClientStep(c) == client_next(c) \/ client_leaves(c)

(******************************* properties *******************************)

\* what a correct server dispatches for the client's i-th request
Meant(r) == [method |-> r.method, path |-> <<r.path>>,
             version |-> Versions[r.version], body |-> IF r.framing = "none" THEN <<>> ELSE r.body]
Got(q) == [method |-> q.method, path |-> q.path, version |-> q.version, body |-> into_bytes(q.body)]

(* Every request the connection dispatches is the client's next request,    *)
(* with its own body: however the bytes are cut into reads and requests     *)
(* pipelined, no head starts inside a body and none is skipped or repeated  *)
(* (read_head, read_fixed_body and read_chunked_body drain what they use).  *)
RequestsExact ==
    \A c \in Clients : \A i \in 1..Len(conns[c].seen) :
        /\ i <= Len(conns[c].script)
        /\ Got(conns[c].seen[i]) = Meant(conns[c].script[i])

(* Answers come in the order of the requests; an error answer is only given *)
(* for a request that is malformed, too large or cut short; after an answer *)
(* that says close no request is dispatched, and one that is not last of    *)
(* MaxRequests says keep-alive exactly when the client asked for it. The     *)
(* client finds the handler's body between the bytes of one answer and the  *)
(* next, however it was framed (encode_response, encode_error).             *)
AnswersExact ==
    \A c \in Clients : LET k == conns[c] IN
        /\ Len(k.out) <= Len(k.seen) + 1
        /\ \A i \in 1..Len(k.out) :
             IF i > Len(k.seen) THEN k.out[i].close /\ (k.end = "eof" \/ (i <= Len(k.script) /\ k.script[i].bad))
             ELSE LET r == k.script[i] IN
                  /\ k.out[i].status \in (IF r.path \in Routes THEN {200, 101} ELSE {404})
                  /\ k.out[i].body = IF r.method = "HEAD" \/ k.out[i].status = 101 THEN <<>>
                                     ELSE IF r.path \in Routes THEN <<"x">> ELSE <<"404 Not Found">>
                  /\ k.out[i].status # 101 =>
                       (k.out[i].close <=> r.version = "HTTP/1.0" \/ r.connection = "close" \/ i = MaxRequests)
                  /\ k.out[i].close => Len(k.seen) = i
=============================================================================
