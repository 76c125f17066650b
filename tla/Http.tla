-------------------------------- MODULE Http --------------------------------
(* The HTTP data types of moduvex-http: tokens, methods, status codes,      *)
(* header map, body, request and response (routing/method.rs, status.rs,    *)
(* header.rs, body.rs, request.rs, response.rs). A byte string is a         *)
(* sequence of tokens: a delimiter byte, a digit, or a word that no code    *)
(* here looks into.                                                         *)
EXTENDS Integers, Sequences, SequencesExt, FiniteSets, TLC

CR == "\r"
LF == "\n"
SP == " "
TAB == "\t"
NUL == "NUL"
CRLF == <<CR, LF>>
OWS == {SP, TAB}
\* a byte that no UTF-8 string contains
NotUtf8 == "0xff"
from_utf8(s) == NotUtf8 \notin ToSet(s)

Digits == <<"0", "1", "2", "3", "4", "5", "6", "7", "8", "9", "a", "b", "c", "d", "e", "f">>
to_base[n \in Nat, b \in {10, 16}] ==
    IF n < b THEN <<Digits[n + 1]>> ELSE Append(to_base[n \div b, b], Digits[(n % b) + 1])
\* Rust's unsigned parse: an optional plus sign, then at least one digit
unsigned(s, b) ==
    LET d == IF s # <<>> /\ s[1] = "+" THEN Tail(s) ELSE s
        Digit(t) == (CHOOSE i \in 1..b : Digits[i] = t) - 1
    IN  IF d # <<>> /\ ToSet(d) \subseteq {Digits[i] : i \in 1..b}
        THEN <<FoldLeft(LAMBDA acc, t : acc * b + Digit(t), 0, d)>> ELSE <<>>

\* drop the tokens of set W at both ends
trim(s, W) ==
    LET keep == {i \in 1..Len(s) : s[i] \notin W}
    IN  IF keep = {} THEN <<>>
        ELSE SubSeq(s, CHOOSE i \in keep : \A j \in keep : i <= j, CHOOSE i \in keep : \A j \in keep : j <= i)
\* the first position of a token of W, 0 for none
position(s, W) == SelectInSeq(s, LAMBDA t : t \in W)

\* names differing only in case denote the same header
LowerCase == "Host" :> "host" @@ "Content-Length" :> "content-length" @@ "Transfer-Encoding" :> "transfer-encoding"
             @@ "Connection" :> "connection" @@ "CHUNKED" :> "chunked" @@ "Close" :> "close"
             @@ "Upgrade" :> "upgrade" @@ "WebSocket" :> "websocket"
to_lower(t) == IF t \in DOMAIN LowerCase THEN LowerCase[t] ELSE t

(********************************* method *********************************)

Methods == {"GET", "POST", "PUT", "DELETE", "PATCH", "HEAD", "OPTIONS", "TRACE"}
from_bytes(b) == IF Len(b) = 1 /\ b[1] \in Methods THEN <<b[1]>> ELSE <<>>
(********************************* status *********************************)

StatusCodes == (100..103) \cup (200..208) \cup {226} \cup ((300..308) \ {306}) \cup (400..418)
               \cup (421..426) \cup {428, 429, 431, 451} \cup ((500..511) \ {509})
canonical_reason(code) == IF code \in StatusCodes THEN <<SP, "reason">> ELSE <<>>

(********************************* headers ********************************)

\* a HeaderMap is the sequence of its [name, value] entries, names in lower case
get_all(h, n) == SelectSeq(h, LAMBDA e : e.name = to_lower(n))
get(h, n) == IF get_all(h, n) = <<>> THEN <<>> ELSE <<get_all(h, n)[1].value>>
get_str(h, n) == IF get(h, n) # <<>> /\ from_utf8(get(h, n)[1]) THEN get(h, n) ELSE <<>>
contains(h, n) == get_all(h, n) # <<>>
remove(h, n) == SelectSeq(h, LAMBDA e : e.name # to_lower(n))
append(h, n, v) == Append(h, [name |-> to_lower(n), value |-> v])

\* the first occurrence is replaced in place, the others are removed
insert(h, n, v) ==
    LET first == position([i \in 1..Len(h) |-> h[i].name], {to_lower(n)})
    IN  IF first = 0 THEN append(h, n, v)
        ELSE Append(SubSeq(h, 1, first - 1), [h[first] EXCEPT !.value = v])
             \o remove(SubSeq(h, first + 1, Len(h)), n)

(********************************** body **********************************)

Empty == [kind |-> "Empty"]
Fixed(v) == [kind |-> "Fixed", bytes |-> v]
Stream(chunks, closed) == [kind |-> "Stream", chunks |-> chunks, closed |-> closed]
body_from_bytes(v) == IF v = <<>> THEN Empty ELSE Fixed(v)
body_channel == Stream(<<>>, FALSE)
body_send(b, chunk) == IF b.closed THEN b ELSE [b EXCEPT !.chunks = Append(@, chunk)]
body_close(b) == [b EXCEPT !.closed = TRUE]
into_bytes(b) ==
    CASE b.kind = "Empty" -> <<>> [] b.kind = "Fixed" -> b.bytes [] b.kind = "Stream" -> FlattenSeq(b.chunks)
body_content_length(b) ==
    CASE b.kind = "Empty" -> <<0>> [] b.kind = "Fixed" -> <<Len(b.bytes)>> [] b.kind = "Stream" -> <<>>

(************************** request and response **************************)

\* the first Connection header that says close or keep-alive, else the version's default
is_keep_alive(version, headers) ==
    LET Says(e, w) == w \in {to_lower(e.value[i]) : i \in 1..Len(e.value)}
        said == SelectSeq(headers, LAMBDA e : to_lower(e.name) = "connection" /\ from_utf8(e.value)
                                              /\ (Says(e, "close") \/ Says(e, "keep-alive")))
    IN  IF said = <<>> THEN version = "Http11" ELSE ~Says(said[1], "close")

new_response(status) == [status |-> status, headers |-> <<>>, body |-> Empty, upgrade |-> FALSE]
with_body(status, bytes) == [new_response(status) EXCEPT !.body = body_from_bytes(bytes)]
content_type(r, ct) == [r EXCEPT !.headers = insert(@, "content-type", <<ct>>)]
text(bytes) == content_type(with_body(200, bytes), "text/plain")
not_found == content_type(with_body(404, <<"404 Not Found">>), "text/plain")
=============================================================================
