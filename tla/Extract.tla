------------------------------ MODULE Extract ------------------------------
(* The extractors that turn a request into a handler's arguments            *)
(* (moduvex-http extract/). into_box_handler runs from_request of every     *)
(* argument type in order, on one mutable request, and calls the handler    *)
(* only when all of them succeed. The text decoders are modelled byte by    *)
(* byte (a byte is a token); the client that rendered the request is not in *)
(* the repository and gives the reference the decoders are held against.    *)
EXTENDS Http

CONSTANTS Clients,     \* what the client sends: records [ct, pairs, fields, url, state, params,
                       \* head, asks]: asks when head is a WebSocket upgrade
          Signatures   \* the argument types of the handlers

VARIABLES exSent,      \* the client's data
          exReq,       \* the request the extractors share
          exTodo,      \* the argument types still to be extracted
          exGot,       \* the arguments extracted so far, [kind, val]
          exReply      \* "pending", "called" (the handler ran) or the rejection's status

exVars == <<exSent, exReq, exTodo, exGot, exReply>>

(************************** WebSocket handshake ***************************)

\* the base64 digits of data, -1 for the padding sign
base64_encode(data) ==
    LET Triple(i) == LET B(k) == IF 3 * i + k <= Len(data) THEN data[3 * i + k] ELSE 0
                     IN  B(1) * 65536 + B(2) * 256 + B(3)
        Digit(i, k) == (Triple(i) \div (64^(4 - k))) % 64
        Chunk(i) == [k \in 1..4 |-> IF k > 2 /\ 3 * i + k - 1 > Len(data) THEN -1 ELSE Digit(i, k)]
    IN  FlattenSeq([i \in 1..((Len(data) + 2) \div 3) |-> Chunk(i - 1)])

\* the hash itself is not modelled: twenty octets that depend on the key
sha1(key) == [i \in 1..20 |-> (37 * i + Len(key)) % 256]
compute_accept_key(key) == base64_encode(sha1(key))

\* the sections of s between the bytes c
split(s, c) ==
    LET cut == {0, Len(s) + 1} \cup {i \in 1..Len(s) : s[i] = c}
        at == SetToSortSeq(cut, <)
    IN  [k \in 1..(Len(at) - 1) |-> SubSeq(s, at[k] + 1, at[k + 1] - 1)]

validate_upgrade(req) ==
    LET Str(n) == IF get_str(req.headers, n) = <<>> THEN <<>> ELSE get_str(req.headers, n)[1]
        Lower(v) == [i \in DOMAIN v |-> to_lower(v[i])]
        listed == split(Str("connection"), ",")
    IN  IF req.method # "GET" THEN [error |-> "method"]
        ELSE IF Lower(Str("upgrade")) # <<"websocket">> THEN [error |-> "upgrade"]
        ELSE IF ~\E i \in DOMAIN listed : Lower(trim(listed[i], OWS)) = <<"upgrade">> THEN [error |-> "connection"]
        ELSE IF trim(Str("sec-websocket-version"), OWS) # <<"13">> THEN [error |-> "version"]
        ELSE IF get_str(req.headers, "sec-websocket-key") = <<>> THEN [error |-> "key"]
        ELSE [accept_key |-> compute_accept_key(trim(Str("sec-websocket-key"), OWS))]

(************************* percent-encoded text ***************************)

Hex == ToSet(Digits) \cup {"A", "B", "C", "D", "E", "F"}
ByteCode == "&" :> <<"2", "6">> @@ "=" :> <<"3", "D">> @@ "+" :> <<"2", "B">> @@ "%" :> <<"2", "5">>
            @@ " " :> <<"2", "0">> @@ "\"" :> <<"2", "2">> @@ "\\" :> <<"5", "C">> @@ LF :> <<"0", "A">>
            @@ NotUtf8 :> <<"f", "f">>
\* the byte of two hex digits; bytes no code here tells apart are one token
byte(hi, lo) == IF \E c \in DOMAIN ByteCode : ByteCode[c] = <<hi, lo>>
                THEN CHOOSE c \in DOMAIN ByteCode : ByteCode[c] = <<hi, lo>> ELSE "other"

\* form.rs: both characters must be hex digits
decode_hex_byte(hi, lo) == IF {hi, lo} \subseteq Hex THEN <<byte(hi, lo)>> ELSE <<>>
\* query.rs: u8::from_str_radix also takes a plus sign in front of one digit
from_str_radix(hi, lo) == IF hi = "+" /\ lo \in Hex THEN <<byte("0", lo)>> ELSE decode_hex_byte(hi, lo)

hex_pair(hi, lo, radix) == IF radix THEN from_str_radix(hi, lo) ELSE decode_hex_byte(hi, lo)

\* a percent sign in the last two bytes, or before anything but two digits, stands for itself
RECURSIVE percent_decode_NoPlus(_, _), percent_decode(_, _)
percent_decode_NoPlus(s, radix) ==
    LET b == IF Len(s) >= 3 /\ s[1] = "%" THEN hex_pair(s[2], s[3], radix) ELSE <<>>
    IN  IF s = <<>> THEN <<>>
        ELSE IF b # <<>> THEN b \o percent_decode_NoPlus(SubSeq(s, 4, Len(s)), radix)
        ELSE <<s[1]>> \o percent_decode_NoPlus(Tail(s), radix)

percent_decode(s, radix) ==
    LET b == IF Len(s) >= 3 /\ s[1] = "%" THEN hex_pair(s[2], s[3], radix) ELSE <<>>
    IN  IF s = <<>> THEN <<>>
        ELSE IF s[1] = "+" THEN <<" ">> \o percent_decode(Tail(s), radix)
        ELSE IF b # <<>> THEN b \o percent_decode(SubSeq(s, 4, Len(s)), radix)
        ELSE <<s[1]>> \o percent_decode(Tail(s), radix)

\* the text before and after the first equals sign
key_raw(p) == IF position(p, {"="}) = 0 THEN p ELSE SubSeq(p, 1, position(p, {"="}) - 1)
val_raw(p) == IF position(p, {"="}) = 0 THEN <<>> ELSE SubSeq(p, position(p, {"="}) + 1, Len(p))

lossy(s) == [i \in 1..Len(s) |-> IF s[i] = NotUtf8 THEN "U+FFFD" ELSE s[i]]
parse_urlencoded(body) ==
    LET Text(s) == lossy(percent_decode(s, FALSE))
        pairs == [k \in DOMAIN split(body, "&") |->
                    [key |-> Text(key_raw(split(body, "&")[k])), val |-> Text(val_raw(split(body, "&")[k]))]]
    IN  SelectSeq(pairs, LAMBDA p : p.key # <<>>)

\* the last value of a key wins, in a HashMap and in serde_json's map alike
to_map(pairs) ==
    [k \in {pairs[i].key : i \in DOMAIN pairs} |->
        pairs[CHOOSE i \in DOMAIN pairs : pairs[i].key = k /\ \A j \in DOMAIN pairs : j > i => pairs[j].key # k].val]

parse_query_string(q) ==
    LET Text(s) == LET d == percent_decode(s, TRUE) IN IF from_utf8(d) THEN d ELSE <<>>
        raw == SelectSeq(split(q, "&"), LAMBDA p : p # <<>>)
    IN  to_map([k \in DOMAIN raw |-> [key |-> Text(key_raw(raw[k])), val |-> Text(val_raw(raw[k]))]])

(************************* the JSON bridge of Form ************************)

json_escape_into(s) ==
    FlattenSeq([i \in 1..Len(s) |->
        CASE s[i] \in {"\"", "\\"} -> <<"\\", s[i]>>
          [] s[i] = LF -> <<"\\", "n">>
          [] OTHER -> <<s[i]>>])
pairs_to_json(pairs) ==
    LET Str(s) == <<"\"">> \o json_escape_into(s) \o <<"\"">>
    IN  <<"{">> \o FlattenSeq([i \in 1..Len(pairs) |->
            (IF i > 1 THEN <<",">> ELSE <<>>) \o Str(pairs[i].key) \o <<":">> \o Str(pairs[i].val)]) \o <<"}">>

\* serde_json reading the string that starts at s[i]: its text and the place after it
RECURSIVE json_string(_, _, _)
json_string(s, i, acc) ==
    IF i > Len(s) \/ s[i] = LF THEN [ok |-> FALSE, text |-> acc, at |-> i]
    ELSE IF s[i] = "\"" THEN [ok |-> TRUE, text |-> acc, at |-> i + 1]
    ELSE IF s[i] = "\\" THEN json_string(s, i + 2, Append(acc, IF s[i + 1] = "n" THEN LF ELSE s[i + 1]))
    ELSE json_string(s, i + 1, Append(acc, s[i]))
RECURSIVE json_members(_, _, _)
json_members(s, i, acc) ==
    LET k == json_string(s, i + 1, <<>>)
        v == json_string(s, k.at + 2, <<>>)
    IN  IF s[i] # "\"" THEN [ok |-> s[i] = "}", pairs |-> acc]
        ELSE IF ~k.ok \/ k.at + 1 > Len(s) \/ s[k.at] # ":" \/ s[k.at + 1] # "\"" \/ ~v.ok \/ v.at > Len(s)
        THEN [ok |-> FALSE, pairs |-> acc]
        ELSE IF s[v.at] = "," THEN json_members(s, v.at + 1, Append(acc, [key |-> k.text, val |-> v.text]))
        ELSE [ok |-> s[v.at] = "}", pairs |-> Append(acc, [key |-> k.text, val |-> v.text])]
from_json(s) == json_members(s, 2, <<>>)

(******************************* multipart ********************************)

\* a Content-Type value: its media type and its parameters in order
extract_boundary(ct) ==
    LET b == SelectSeq(ct.params, LAMBDA p : p.name \in {"boundary", "Boundary", "BOUNDARY"} /\ p.value # <<>>)
    IN  IF ct.media = "multipart/form-data" /\ b # <<>> THEN <<b[1].value>> ELSE <<>>

\* what follows prefix in the last of the texts that start with it: <<>> or <<text>>
last_with(texts, prefixes) ==
    LET hits == SelectSeq(texts, LAMBDA l : l # <<>> /\ l[1] \in prefixes)
    IN  IF hits = <<>> THEN <<>> ELSE <<trim(Tail(Last(hits)), {SP})>>

\* split at every semicolon, those between quotes too
parse_content_disposition(value) ==
    LET parts == [k \in DOMAIN split(value, ";") |-> trim(split(value, ";")[k], {SP})]
        Of(p) == LET v == last_with(parts, {p}) IN IF v = <<>> THEN <<>> ELSE <<trim(v[1], {"\""})>>
    IN  [name |-> Of("name="), file_name |-> Of("filename=")]

\* the place of the first occurrence of needle in s from place i on, 0 for none
find_bytes(s, i, needle) ==
    LET at == {k \in i..(Len(s) - Len(needle) + 1) : SubSeq(s, k, k + Len(needle) - 1) = needle}
    IN  IF at = {} THEN 0 ELSE CHOOSE k \in at : \A j \in at : k <= j
find_double_crlf(s, i) ==
    LET crlf == find_bytes(s, i, CRLF \o CRLF)
        lf == find_bytes(s, i, <<LF, LF>>)
    IN  IF crlf # 0 THEN <<crlf, 4>> ELSE IF lf # 0 THEN <<lf, 2>> ELSE <<>>

\* two ways to write each of the two header names are known
part_headers(bytes) ==
    LET text_of == IF from_utf8(bytes) THEN bytes ELSE <<>>
        lines == [k \in DOMAIN split(text_of, LF) |-> trim(split(text_of, LF)[k], {SP, CR})]
    IN  [disposition |-> last_with(lines, {"Content-Disposition:", "content-disposition:"}),
         content_type |-> last_with(lines, {"Content-Type:", "content-type:"})]

strip_suffix(s) == IF Len(s) >= 2 /\ SubSeq(s, Len(s) - 1, Len(s)) = CRLF THEN SubSeq(s, 1, Len(s) - 2) ELSE s

Field(head, bytes) ==
    LET h == part_headers(head)
        d == IF h.disposition = <<>> THEN [name |-> <<>>, file_name |-> <<>>] ELSE parse_content_disposition(h.disposition[1])
    IN  [name |-> d.name, file_name |-> d.file_name, content_type |-> h.content_type, data |-> bytes]

\* the fields from place pos, just after a delimiter, to the end
RECURSIVE parse_parts(_, _, _)
parse_parts(s, pos, boundary) ==
    LET start == pos + 2
        sep == find_double_crlf(s, start)
        data == sep[1] + sep[2]
        inner == CRLF \o <<"-", "-">> \o boundary
        end == find_bytes(s, data, inner)
        head == SubSeq(s, start, sep[1] - 1)
    IN  IF pos + 1 > Len(s) \/ SubSeq(s, pos, pos + 1) # CRLF \/ sep = <<>> THEN <<>>
        ELSE IF end = 0 THEN <<Field(head, strip_suffix(SubSeq(s, data, Len(s))))>>
        ELSE <<Field(head, SubSeq(s, data, end - 1))>> \o parse_parts(s, end + Len(inner), boundary)

parse_multipart(s, boundary) ==
    LET delim == <<"-", "-">> \o boundary
        first == find_bytes(s, 1, delim)
    IN  IF first = 0 THEN <<>> ELSE parse_parts(s, first + Len(delim), boundary)

(******************* the client's renderings (reference) ******************)

\* one way to write a text: reserved bytes as %XX, a space as a plus sign
url_encode(s) == FlattenSeq([i \in 1..Len(s) |->
    IF s[i] = " " THEN <<"+">> ELSE IF s[i] \in DOMAIN ByteCode THEN <<"%">> \o ByteCode[s[i]] ELSE <<s[i]>>])
form_encode(pairs) == FlattenSeq([i \in 1..Len(pairs) |->
    (IF i > 1 THEN <<"&">> ELSE <<>>) \o url_encode(pairs[i].key) \o <<"=">> \o url_encode(pairs[i].val)])
\* a part: its name, file name and type (<<>> for none), and how the client writes the header's name
part_head(f) ==
    LET Quoted(p, v) == <<";", SP, p, "\"">> \o v \o <<"\"">>
    IN  <<f.header, SP, "form-data">> \o Quoted("name=", f.name)
        \o (IF f.file_name = <<>> THEN <<>> ELSE Quoted("filename=", f.file_name[1])) \o CRLF
        \o (IF f.content_type = <<>> THEN <<>> ELSE <<"Content-Type:", SP>> \o f.content_type[1] \o CRLF)
multipart_encode(fields, boundary) == FlattenSeq([i \in 1..Len(fields) |->
    <<"-", "-">> \o boundary \o CRLF \o part_head(fields[i]) \o CRLF \o fields[i].data \o CRLF])
    \o <<"-", "-">> \o boundary \o <<"-", "-">> \o CRLF
body_of(c) ==
    CASE c.ct.media = "application/x-www-form-urlencoded" -> form_encode(c.pairs)
      [] c.ct.media = "multipart/form-data" -> multipart_encode(c.fields, c.ct.params[1].value)
      [] c.ct.media = "application/json" -> pairs_to_json(c.pairs)
      [] OTHER -> <<>>

(**************************** from_request ********************************)

\* Extensions: one value for each type
Extensions == <<>>
ext_insert(ext, type, val) == (type :> val) @@ ext
ext_get(ext, type) == IF type \in DOMAIN ext THEN <<ext[type]>> ELSE <<>>
ext_remove(ext, type) == [t \in DOMAIN ext \ {type} |-> ext[t]]

DummyRequest == [ct |-> [media |-> "", params |-> <<>>], query |-> <<>>, body |-> <<>>, extensions |-> Extensions,
                 head |-> [method |-> "GET", headers |-> <<>>]]

take(k, v, req) == /\ exGot' = Append(exGot, [kind |-> k, val |-> v])
                   /\ exTodo' = Tail(exTodo)
                   /\ exReq' = req
                   /\ UNCHANGED <<exSent, exReply>>
reject(status) == exReply' = status /\ exTodo' = <<>> /\ UNCHANGED <<exSent, exReq, exGot>>

state_from_request ==
    LET found == ext_get(exReq.extensions, "AppState")
    IN  IF found = <<>> THEN reject("500") ELSE take("State", found[1], exReq)
path_from_request ==
    LET found == ext_get(exReq.extensions, "Params")
    IN  take("Path", IF found = <<>> THEN <<>> ELSE found[1], [exReq EXCEPT !.extensions = ext_remove(@, "Params")])
query_from_request == take("Query", parse_query_string(exReq.query), exReq)
form_from_request ==
    LET doc == from_json(pairs_to_json(parse_urlencoded(exReq.body)))
    IN  IF exReq.ct.media \notin {"", "application/x-www-form-urlencoded"} \/ ~doc.ok THEN reject("422")
        ELSE take("Form", to_map(doc.pairs), [exReq EXCEPT !.body = <<>>])
json_from_request ==
    LET doc == from_json(exReq.body)
    IN  IF exReq.ct.media # "application/json" THEN reject("415")
        ELSE IF exReq.body = <<>> \/ ~doc.ok THEN reject("400")
        ELSE take("Json", to_map(doc.pairs), [exReq EXCEPT !.body = <<>>])
multipart_from_request ==
    LET boundary == extract_boundary(exReq.ct)
    IN  IF boundary = <<>> THEN reject("400")
        ELSE take("Multipart", parse_multipart(exReq.body, boundary[1]), [exReq EXCEPT !.body = <<>>])
request_from_request == take("Request", exReq, DummyRequest)
upgrade_from_request ==
    LET accept == validate_upgrade(exReq.head)
    IN  IF "error" \in DOMAIN accept THEN reject("400") ELSE take("Upgrade", accept.accept_key, exReq)

\* the server's state injector, when the builder was given a state
inject(ext, state) == IF state = <<>> THEN ext ELSE ext_insert(ext, "AppState", state[1])

ExInit ==
    /\ exSent \in Clients
    /\ exTodo \in Signatures
    /\ exReq = [ct |-> exSent.ct, query |-> form_encode(exSent.url), body |-> body_of(exSent),
                extensions |-> ext_insert(inject(Extensions, exSent.state), "Params", exSent.params), head |-> exSent.head]
    /\ exGot = <<>>
    /\ exReply = "pending"

\* one argument of into_box_handler's closure, and the call once all are there
FromRequest(k) ==
    /\ exTodo # <<>> /\ exTodo[1] = k
    /\ \/ k = "State" /\ state_from_request
       \/ k = "Path" /\ path_from_request
       \/ k = "Query" /\ query_from_request
       \/ k = "Form" /\ form_from_request
       \/ k = "Json" /\ json_from_request
       \/ k = "Multipart" /\ multipart_from_request
       \/ k = "Request" /\ request_from_request
       \/ k = "Upgrade" /\ upgrade_from_request
into_box_handler ==
    /\ exTodo = <<>> /\ exReply = "pending"
    /\ exReply' = "called"
    /\ UNCHANGED <<exSent, exReq, exTodo, exGot>>
ExNext == into_box_handler \/ \E k \in {"State", "Path", "Query", "Form", "Json", "Multipart", "Request", "Upgrade"} :
                                 FromRequest(k)

\* the octets whose bits base64 digits spell, the padding aside
Octets(digits) ==
    LET kept == SelectSeq(digits, LAMBDA d : d # -1)
        Bit(i) == (kept[(i \div 6) + 1] \div (2^(5 - (i % 6)))) % 2
    IN  [o \in 1..((6 * Len(kept)) \div 8) |-> FoldLeft(LAMBDA n, b : 2 * n + Bit(8 * (o - 1) + b), 0, <<0, 1, 2, 3, 4, 5, 6, 7>>)]

\* the header is written in one of the ways the code knows, and no semicolon is between quotes
Readable(f) ==
    /\ f.header \in {"Content-Disposition:", "content-disposition:"}
    /\ \A t \in {f.name} \cup ToSet(f.file_name) : ";" \notin ToSet(t)

\* Every argument a handler is called with is what the client sent, provided no
\* earlier argument took it out of the request: the form's and the query's pairs
\* after encoding, decoding and the JSON bridge, the parts of a multipart body
\* whatever their bytes (short of the delimiter) with their names, when these can be
\* read (Readable), the router's parameters and the application's state. An upgrade is accepted only for a client that asked for it, with
\* the hash of its key.
ExtractsExact ==
    \A i \in DOMAIN exGot :
        LET Before(K) == \E j \in 1..(i - 1) : exGot[j].kind \in K
            v == exGot[i].val
        IN  ~Before({"Request"}) =>
            CASE exGot[i].kind = "Query" -> v = to_map(exSent.url)
              [] exGot[i].kind = "Path" -> (~Before({"Path"}) => v = exSent.params)
              [] exGot[i].kind = "State" -> <<v>> = exSent.state
              [] exGot[i].kind \in {"Form", "Json"} ->
                     (~Before({"Form", "Json", "Multipart"}) =>
                        v = to_map(IF exSent.ct.media = "" THEN <<>> ELSE exSent.pairs))
              [] exGot[i].kind = "Multipart" ->
                     (~Before({"Form", "Json", "Multipart"}) =>
                        /\ DOMAIN v = DOMAIN exSent.fields
                        /\ \A n \in DOMAIN v :
                             LET f == exSent.fields[n] IN
                             /\ v[n].data = f.data /\ v[n].content_type = f.content_type
                             /\ Readable(f) => v[n].name = <<f.name>> /\ v[n].file_name = f.file_name)
              [] exGot[i].kind = "Upgrade" ->
                     exSent.asks /\ Octets(v) = sha1(get(exSent.head.headers, "sec-websocket-key")[1])
              [] OTHER -> TRUE
=============================================================================
