------------------------------- MODULE H2Codec -------------------------------
(* The HTTP/2 wire format of moduvex-http: the frame codec and its error    *)
(* values (protocol/h2/frame.rs, error.rs), on sequences of bytes, in which *)
(* a 32-bit field that is only carried stays a tuple of four bytes; and     *)
(* HPACK (protocol/h2/hpack/): Huffman coding, integer and string           *)
(* representations, the dynamic table, the stateless encoder and the        *)
(* decoder. A header is a pair of byte sequences.                           *)
EXTENDS Integers, Sequences, FiniteSetsExt, SequencesExt

(***************************** the frames *********************************)

\* H2Error: a connection error has stream 0
H2Error(stream, code) == [err |-> code, stream |-> stream]

IsErr(r) == "err" \in DOMAIN r

SETTINGS_ENABLE_PUSH == 2
SETTINGS_INITIAL_WINDOW_SIZE == 4
SETTINGS_MAX_FRAME_SIZE == 5

FrameTypes == <<"DATA", "HEADERS", "PRIORITY", "RST_STREAM", "SETTINGS", "PUSH_PROMISE",
                "PING", "GOAWAY", "WINDOW_UPDATE", "CONTINUATION">>

TypeByte(type) == CHOOSE i \in 0..9 : FrameTypes[i + 1] = type

\* flag bits: END_STREAM and ACK share the lowest one
END_STREAM == 1
ACK == 1
END_HEADERS == 4
PADDED == 8
PRIORITY_FLAG == 32

HasFlag(fl, bit) == (fl \div bit) % 2 = 1
FlagIf(cond, bit) == IF cond THEN bit ELSE 0

Mask31(b) == <<b[1] % 128, b[2], b[3], b[4]>>
Number(b) == ((b[1] * 256 + b[2]) * 256 + b[3]) * 256 + b[4]
Bytes4(n) == <<n \div 16777216, (n \div 65536) % 256, (n \div 256) % 256, n % 256>>
Part(p, from, n) == SubSeq(p, from, from + n - 1)
After(p, n) == SubSeq(p, n + 1, Len(p))

write_header(length, type, fl, stream) ==
    <<(length \div 65536) % 256, (length \div 256) % 256, length % 256, TypeByte(type), fl>>
        \o Mask31(Bytes4(stream))

parse_frame_header(buf) ==
    IF Len(buf) < 9 THEN H2Error(0, "InternalError") ELSE
    [length |-> (buf[1] * 256 + buf[2]) * 256 + buf[3], frame_type |-> buf[4],
     flags |-> buf[5], stream |-> Number(Mask31(Part(buf, 6, 4)))]

\* the payload without its padding, or an error
strip_padding(fl, p) ==
    IF ~HasFlag(fl, PADDED) THEN [ok |-> p]
    ELSE IF p = <<>> \/ 1 + p[1] > Len(p) THEN H2Error(0, "ProtocolError")
    ELSE [ok |-> SubSeq(p, 2, Len(p) - p[1])]

parse_data(sid, fl, p) ==
    LET body == strip_padding(fl, p) IN
    IF sid = 0 THEN H2Error(0, "ProtocolError")
    ELSE IF IsErr(body) THEN body
    ELSE [type |-> "DATA", stream |-> sid, end_stream |-> HasFlag(fl, END_STREAM),
          payload |-> body.ok]

parse_headers(sid, fl, p) ==
    LET data == strip_padding(fl, p)
        skip == IF HasFlag(fl, PRIORITY_FLAG) THEN 5 ELSE 0
    IN  IF sid = 0 THEN H2Error(0, "ProtocolError")
        ELSE IF IsErr(data) THEN data
        ELSE IF Len(data.ok) < skip THEN H2Error(0, "FrameSizeError")
        ELSE [type |-> "HEADERS", stream |-> sid, end_stream |-> HasFlag(fl, END_STREAM),
              end_headers |-> HasFlag(fl, END_HEADERS), block |-> After(data.ok, skip)]

parse_priority(sid, p) ==
    IF Len(p) # 5 THEN H2Error(sid, "FrameSizeError")
    ELSE [type |-> "PRIORITY", stream |-> sid, exclusive |-> p[1] >= 128,
          dependency |-> Number(Mask31(p)), weight |-> p[5]]

parse_rst_stream(sid, p) ==
    IF Len(p) # 4 THEN H2Error(0, "FrameSizeError")
    ELSE [type |-> "RST_STREAM", stream |-> sid, error_code |-> p]

parse_settings(fl, p) ==
    IF (HasFlag(fl, ACK) /\ p # <<>>) \/ Len(p) % 6 # 0 THEN H2Error(0, "FrameSizeError")
    ELSE [type |-> "SETTINGS", ack |-> HasFlag(fl, ACK),
          values |-> [i \in 1..Len(p) \div 6 |->
                        <<p[6 * i - 5] * 256 + p[6 * i - 4], Part(p, 6 * i - 3, 4)>>]]

parse_push_promise(sid, fl, p) ==
    LET data == strip_padding(fl, p) IN
    IF sid = 0 THEN H2Error(0, "ProtocolError")
    ELSE IF IsErr(data) THEN data
    ELSE IF Len(data.ok) < 4 THEN H2Error(0, "FrameSizeError")
    ELSE [type |-> "PUSH_PROMISE", stream |-> sid,
          promised |-> Number(Mask31(data.ok)), block |-> After(data.ok, 4)]

parse_ping(fl, p) ==
    IF Len(p) # 8 THEN H2Error(0, "FrameSizeError")
    ELSE [type |-> "PING", ack |-> HasFlag(fl, ACK), data |-> p]

parse_goaway(sid, p) ==
    IF sid # 0 THEN H2Error(0, "ProtocolError")
    ELSE IF Len(p) < 8 THEN H2Error(0, "FrameSizeError")
    ELSE [type |-> "GOAWAY", last_stream |-> Number(Mask31(p)),
          error_code |-> Part(p, 5, 4), debug |-> After(p, 8)]

parse_window_update(sid, p) ==
    IF Len(p) # 4 THEN H2Error(0, "FrameSizeError")
    ELSE IF Number(Mask31(p)) = 0 THEN H2Error(sid, "ProtocolError")
    ELSE [type |-> "WINDOW_UPDATE", stream |-> sid, increment |-> Number(Mask31(p))]

parse_continuation(sid, fl, p) ==
    IF sid = 0 THEN H2Error(0, "ProtocolError")
    ELSE [type |-> "CONTINUATION", stream |-> sid,
          end_headers |-> HasFlag(fl, END_HEADERS), block |-> p]

\* a frame of an unknown type is read as DATA that does not end the stream
parse_frame(h, p) ==
    CASE h.frame_type = 0 -> parse_data(h.stream, h.flags, p)
      [] h.frame_type = 1 -> parse_headers(h.stream, h.flags, p)
      [] h.frame_type = 2 -> parse_priority(h.stream, p)
      [] h.frame_type = 3 -> parse_rst_stream(h.stream, p)
      [] h.frame_type = 4 -> parse_settings(h.flags, p)
      [] h.frame_type = 5 -> parse_push_promise(h.stream, h.flags, p)
      [] h.frame_type = 6 -> parse_ping(h.flags, p)
      [] h.frame_type = 7 -> parse_goaway(h.stream, p)
      [] h.frame_type = 8 -> parse_window_update(h.stream, p)
      [] h.frame_type = 9 -> parse_continuation(h.stream, h.flags, p)
      [] OTHER -> [type |-> "DATA", stream |-> h.stream, end_stream |-> FALSE, payload |-> p]

\* the flags, the stream and the payload encode_frame gives each variant
frame_flags(f) ==
    CASE f.type = "DATA" -> FlagIf(f.end_stream, END_STREAM)
      [] f.type = "HEADERS" -> FlagIf(f.end_stream, END_STREAM) + FlagIf(f.end_headers, END_HEADERS)
      [] f.type \in {"SETTINGS", "PING"} -> FlagIf(f.ack, ACK)
      [] f.type = "PUSH_PROMISE" -> END_HEADERS
      [] f.type = "CONTINUATION" -> FlagIf(f.end_headers, END_HEADERS)
      [] OTHER -> 0

frame_stream(f) == IF f.type \in {"SETTINGS", "PING", "GOAWAY"} THEN 0 ELSE f.stream

settings_payload(values) ==
    [i \in 1..6 * Len(values) |->
        LET v == values[(i + 5) \div 6]
            k == (i - 1) % 6
        IN  CASE k = 0 -> v[1] \div 256 [] k = 1 -> v[1] % 256 [] OTHER -> v[2][k - 1]]

frame_payload(f) ==
    CASE f.type = "DATA" -> f.payload
      [] f.type \in {"HEADERS", "CONTINUATION"} -> f.block
      [] f.type = "PRIORITY" ->
            LET d == Bytes4(f.dependency)
            IN  [d EXCEPT ![1] = @ + FlagIf(f.exclusive, 128)] \o <<f.weight>>
      [] f.type = "RST_STREAM" -> f.error_code
      [] f.type = "SETTINGS" -> settings_payload(f.values)
      [] f.type = "PUSH_PROMISE" -> Mask31(Bytes4(f.promised)) \o f.block
      [] f.type = "PING" -> f.data
      [] f.type = "GOAWAY" -> Mask31(Bytes4(f.last_stream)) \o f.error_code \o f.debug
      [] f.type = "WINDOW_UPDATE" -> Mask31(Bytes4(f.increment))

encode_frame(f) ==
    LET p == frame_payload(f)
    IN  write_header(Len(p), f.type, frame_flags(f), frame_stream(f)) \o p

\* connection_io::read_frame: nine bytes of header, then as many as it announces
read_frame(wire) ==
    LET h == parse_frame_header(wire) IN
    IF IsErr(h) THEN h
    ELSE IF Len(wire) < 9 + h.length THEN H2Error(0, "InternalError")
    ELSE parse_frame(h, Part(wire, 10, h.length))

(***************************** the tables *********************************)

\* the code lengths of HUFFMAN_TABLE, symbols 0 to 255 and EOS
HUFFMAN_LEN == <<
13, 23, 28, 28, 28, 28, 28, 28, 28, 24, 30, 28, 28, 30, 28, 28, 28, 28, 28, 28, 28, 28, 30, 28,
28, 28, 28, 28, 28, 28, 28, 28, 6, 10, 10, 12, 13, 6, 8, 11, 10, 10, 8, 11, 8, 6, 6, 6, 5, 5, 5,
6, 6, 6, 6, 6, 6, 6, 7, 8, 15, 6, 12, 10, 13, 6, 7, 7, 7, 7, 7, 7, 7, 7, 7, 7, 7, 7, 7, 7, 7, 7,
7, 7, 7, 7, 7, 7, 8, 7, 8, 13, 19, 13, 14, 6, 15, 5, 6, 5, 6, 5, 6, 6, 6, 5, 7, 7, 6, 6, 6, 5,
6, 7, 6, 5, 5, 6, 7, 7, 7, 7, 7, 15, 11, 14, 13, 28, 20, 22, 20, 20, 22, 22, 22, 23, 22, 23, 23,
23, 23, 23, 24, 23, 24, 24, 22, 23, 24, 23, 23, 23, 23, 21, 22, 23, 22, 23, 23, 24, 22, 21, 20,
22, 22, 23, 23, 21, 23, 22, 22, 24, 21, 22, 23, 23, 21, 21, 22, 21, 23, 22, 23, 23, 20, 22, 22,
22, 23, 22, 22, 23, 26, 26, 20, 19, 22, 23, 22, 25, 26, 26, 26, 27, 27, 26, 24, 25, 19, 21, 26,
27, 27, 26, 27, 24, 21, 21, 26, 26, 28, 27, 27, 27, 20, 24, 20, 21, 22, 21, 21, 23, 22, 22, 25,
25, 24, 24, 26, 23, 26, 27, 26, 26, 27, 27, 27, 27, 27, 28, 27, 27, 27, 27, 27, 26, 30>>

HuffLen(s) == HUFFMAN_LEN[s + 1]

Bits(n, w) == [i \in 1..w |-> (n \div 2^(w - i)) % 2]

\* The codes of the table are canonical: the codes of one length count up in the
\* order of the symbols, from twice the end of the next shorter length.
FirstCode[l \in 1..30] ==
    IF l = 1 THEN 0 ELSE 2 * (FirstCode[l - 1] + Cardinality({s \in 0..256 : HuffLen(s) = l - 1}))

HuffmanCode ==
    [s \in 0..256 |->
        Bits(FirstCode[HuffLen(s)] + Cardinality({t \in 0..s - 1 : HuffLen(t) = HuffLen(s)}), HuffLen(s))]

\* Indices 1 to 61, by the structure a lookup sees: which entries share a name
\* and which have a value.
StaticName(i) == CASE i = 1 -> 1 [] i \in 2..3 -> 2 [] i \in 4..5 -> 3 [] i \in 6..7 -> 4
                   [] i \in 8..14 -> 5 [] OTHER -> i - 9
STATIC_TABLE == [i \in 1..61 |-> <<<<StaticName(i)>>, IF i \in (2..14) \union {16} THEN <<i>> ELSE <<>>>>]

(******************************** Huffman *********************************)

ToByte(b) == FoldLeft(LAMBDA n, bit : 2 * n + bit, 0, b)

huffman_encode(input) ==
    LET bits == FlattenSeq([i \in DOMAIN input |-> HuffmanCode[input[i]]])
        pad == (8 - (Len(bits) % 8)) % 8
        all == bits \o [i \in 1..pad |-> 1]
    IN  [i \in 1..Len(all) \div 8 |-> ToByte(Part(all, 8 * i - 7, 8))]

\* the symbols read off the front of the bits, and the bits that match none
RECURSIVE huffman_take(_, _)
huffman_take(bits, out) ==
    LET match == {s \in 0..255 : IsPrefix(HuffmanCode[s], bits)} IN
    IF match = {} THEN [out |-> out, rest |-> bits]
    ELSE LET s == Min(match) IN huffman_take(After(bits, HuffLen(s)), Append(out, s))

huffman_decode(input) ==
    LET Finish(r) == IF Len(r.rest) > 7 \/ \E i \in DOMAIN r.rest : r.rest[i] = 0
                     THEN H2Error(0, "CompressionError") ELSE [ok |-> r.out]
    IN  Finish(huffman_take(FlattenSeq([i \in DOMAIN input |-> Bits(input[i], 8)]), <<>>))

(************************* integers and strings ***************************)

RECURSIVE continuation_bytes(_)
continuation_bytes(n) ==
    IF n < 128 THEN <<n>> ELSE <<128 + (n % 128)>> \o continuation_bytes(n \div 128)

encode_integer(value, prefix_bits, first_byte_flags) ==
    LET max == 2^prefix_bits - 1 IN
    IF value < max THEN <<first_byte_flags + value>>
    ELSE <<first_byte_flags + max>> \o continuation_bytes(value - max)

RECURSIVE continue_integer(_, _, _, _)
continue_integer(buf, pos, value, shift) ==
    IF pos > Len(buf) THEN H2Error(0, "CompressionError")
    ELSE LET low == buf[pos] % 128
             v == value + (IF low = 0 THEN 0 ELSE low * 2^shift)
         IN  IF buf[pos] < 128 THEN [ok |-> v, used |-> pos]
             ELSE IF shift + 7 > 63 THEN H2Error(0, "CompressionError")
             ELSE continue_integer(buf, pos + 1, v, shift + 7)

decode_integer(buf, prefix_bits) ==
    IF buf = <<>> THEN H2Error(0, "CompressionError")
    ELSE LET mask == 2^prefix_bits - 1
             v == buf[1] % (mask + 1)
         IN  IF v < mask THEN [ok |-> v, used |-> 1] ELSE continue_integer(buf, 2, v, 0)

encode_string(value) == encode_integer(Len(value), 7, 0) \o value

decode_string(buf) ==
    LET Text(raw) == IF buf[1] >= 128 THEN huffman_decode(raw) ELSE [ok |-> raw]
        Finish(text, used) == IF IsErr(text) THEN text ELSE [ok |-> text.ok, used |-> used]
        Sized(n) == IF IsErr(n) THEN n
                    ELSE IF n.used + n.ok > Len(buf) THEN H2Error(0, "CompressionError")
                    ELSE Finish(Text(Part(buf, n.used + 1, n.ok)), n.used + n.ok)
    IN  Sized(decode_integer(buf, 7))

(*************************** the dynamic table ****************************)

DynamicTable(max) == [entries |-> <<>>, current_size |-> 0, max_size |-> max]

entry_size(h) == Len(h[1]) + Len(h[2]) + 32

RECURSIVE evict_Full(_), evict(_)
evict_Full(t) ==
    IF t.current_size < t.max_size \/ t.entries = <<>> THEN t
    ELSE evict_Full([t EXCEPT !.entries = Front(@), !.current_size = @ - entry_size(Last(t.entries))])

evict(t) ==
    IF t.current_size <= t.max_size \/ t.entries = <<>> THEN t
    ELSE evict([t EXCEPT !.entries = Front(@), !.current_size = @ - entry_size(Last(t.entries))])

insert(t, h) ==
    IF entry_size(h) > t.max_size THEN [t EXCEPT !.entries = <<>>, !.current_size = 0]
    ELSE evict([t EXCEPT !.entries = <<h>> \o @, !.current_size = @ + entry_size(h)])

resize(t, max) == evict([t EXCEPT !.max_size = max])

lookup(t, i) == IF i + 1 \in DOMAIN t.entries THEN [ok |-> t.entries[i + 1]] ELSE H2Error(0, "CompressionError")

get(t, i) ==
    CASE i = 0 -> H2Error(0, "CompressionError")
      [] i \in 1..61 -> [ok |-> STATIC_TABLE[i]]
      [] OTHER -> lookup(t, i - 62)

(************************* encoder and decoder ****************************)

static_lookup(h) ==
    LET name == {i \in 1..61 : STATIC_TABLE[i][1] = h[1]}
        full == {i \in name : STATIC_TABLE[i][2] = h[2]}
    IN  CASE full # {} -> [match |-> "Full", idx |-> Min(full)]
          [] full = {} /\ name # {} -> [match |-> "NameOnly", idx |-> Min(name)]
          [] OTHER -> [match |-> "None"]

encode_indexed(i) == encode_integer(i, 7, 128)
encode_literal_indexed_name(i, value) == encode_integer(i, 4, 0) \o encode_string(value)
encode_literal_new_name(h) == <<0>> \o encode_string(h[1]) \o encode_string(h[2])

encode_header(h) ==
    LET m == static_lookup(h) IN
    CASE m.match = "Full" -> encode_indexed(m.idx)
      [] m.match = "NameOnly" -> encode_literal_indexed_name(m.idx, h[2])
      [] m.match = "None" -> encode_literal_new_name(h)

encode(headers) == FlattenSeq([i \in DOMAIN headers |-> encode_header(headers[i])])

decode_literal(t, buf, prefix_bits) ==
    LET NameOf(g) == IF IsErr(g) THEN g ELSE [ok |-> g.ok[1], used |-> 0]
        Name(n) == IF n.ok = 0 THEN decode_string(After(buf, n.used)) ELSE NameOf(get(t, n.ok))
        Finish(name, value, used) ==
            IF IsErr(value) THEN value ELSE [ok |-> <<name, value.ok>>, used |-> used + value.used]
        Named(name, used) ==
            IF IsErr(name) THEN name
            ELSE Finish(name.ok, decode_string(After(buf, used + name.used)), used + name.used)
        Indexed(n) == IF IsErr(n) THEN n ELSE Named(Name(n), n.used)
    IN  Indexed(decode_integer(buf, prefix_bits))

\* the headers of a block and the table after it, or an error
RECURSIVE decode_from(_, _, _)
decode_from(t, buf, headers) ==
    IF buf = <<>> THEN [ok |-> headers, table |-> t]
    ELSE LET first == buf[1]
             Found(g, used) == IF IsErr(g) THEN g ELSE decode_from(t, After(buf, used), Append(headers, g.ok))
             Indexed(n) == IF IsErr(n) THEN n ELSE Found(get(t, n.ok), n.used)
             Resized(n) == IF IsErr(n) THEN n ELSE decode_from(resize(t, n.ok), After(buf, n.used), headers)
             Literal(lit) ==
                 IF IsErr(lit) THEN lit
                 ELSE decode_from(IF first >= 64 THEN insert(t, lit.ok) ELSE t,
                                  After(buf, lit.used), Append(headers, lit.ok))
         IN  CASE first >= 128 -> Indexed(decode_integer(buf, 7))
               [] first \in 32..63 -> Resized(decode_integer(buf, 5))
               [] OTHER -> Literal(decode_literal(t, buf, IF first >= 64 THEN 6 ELSE 4))

decode(t, block) == decode_from(t, block, <<>>)
=============================================================================
