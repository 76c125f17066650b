------------------------------- MODULE PgCodec -------------------------------
(***************************************************************************)
(* The PostgreSQL wire format: frames, the payloads of the frontend messages *)
(* and the decoders of the backend ones.  A payload is a sequence of items,  *)
(*     S(s)  a C-string      N(w, n)  an integer of w bytes                  *)
(*     V(v)  the bytes of a value, after their length                        *)
(* so that a payload that stops early is a prefix, and a decoder fails where *)
(* the code finds too few bytes.                                             *)
(***************************************************************************)
EXTENDS Integers, Sequences, SequencesExt, TLC

S(s)    == [k |-> "str", v |-> s]
N(w, n) == [k |-> w, v |-> n]
V(v)    == [k |-> "bytes", v |-> v]

\* `as i16`
I16(n) == ((n + 32768) % 65536) - 32768

-----------------------------------------------------------------------------
(* Frames.                                                                    *)

SizeOf(item) == CASE item.k = "str"   -> 2  \* one character and the NUL
                  [] item.k = "bytes" -> 1
                  [] item.k = "i8"    -> 1
                  [] item.k = "i16"   -> 2
                  [] item.k = "i32"   -> 4

ByteLen(payload) == FoldSeq(LAMBDA item, n : n + SizeOf(item), 0, payload)

\* the length counts itself and not the type byte
write_frontend_message(type, payload) ==
    [t |-> type, len |-> 4 + ByteLen(payload), p |-> payload]

write_startup_message(payload) == [t |-> "startup", len |-> 4 + ByteLen(payload), p |-> payload]

ProtocolError == [m |-> "protocol_error"]

\* the string at position i, if it is there and terminated
read_cstring(payload, i) == i \in DOMAIN payload /\ payload[i].k = "str"

write_cstring(s) == <<S(s)>>

-----------------------------------------------------------------------------
(* Frontend payloads.                                                         *)

encode_parse(name, query, oids) ==
    write_cstring(name) \o write_cstring(query) \o <<N("i16", I16(Len(oids)))>>
        \o [i \in DOMAIN oids |-> N("i32", oids[i])]

NULL == "null"

\* no format codes, then each value with its length, or -1, then no result codes
encode_bind(portal, stmt, params) ==
    write_cstring(portal) \o write_cstring(stmt) \o <<N("i16", 0), N("i16", I16(Len(params)))>>
        \o FlattenSeq([i \in DOMAIN params |->
               IF params[i] = NULL THEN <<N("i32", -1)>> ELSE <<N("i32", 1), V(params[i])>>])
        \o <<N("i16", 0)>>

encode_execute(portal, max_rows) == write_cstring(portal) \o <<N("i32", max_rows)>>
encode_describe(target, name)    == <<N("i8", target)>> \o write_cstring(name)
encode_sync                      == <<>>
encode_close(target, name)       == <<N("i8", target)>> \o write_cstring(name)

encode_startup(user, database) ==
    <<N("i32", 196608)>> \o write_cstring("user") \o write_cstring(user)
        \o write_cstring("database") \o write_cstring(database) \o <<N("i8", "0")>>

encode_query(sql)         == write_cstring(sql)
encode_password(password) == write_cstring(password)

-----------------------------------------------------------------------------
(* Backend messages.                                                          *)

OID_BOOL == 16
OID_INT4 == 23
OID_INT8 == 20
OID_TEXT == 25

\* an OID that is not known keeps its number
from_oid(oid) ==
    CASE oid = OID_BOOL -> "Bool" [] oid = OID_INT4 -> "Int4"
      [] oid = OID_INT8 -> "Int8" [] oid = OID_TEXT -> "Text" [] OTHER -> "Unknown"

decode_auth(p) ==
    IF p = <<>> THEN ProtocolError
    ELSE CASE p[1].v = 0 -> [m |-> "AuthOk"]
           [] p[1].v = 5 -> IF Len(p) < 2 THEN ProtocolError
                            ELSE [m |-> "AuthMd5", salt |-> p[2].v]
           [] OTHER -> [m |-> "unsupported_auth"]

decode_param_status(p) ==
    IF read_cstring(p, 1) /\ read_cstring(p, 2)
    THEN [m |-> "ParameterStatus", name |-> p[1].v, value |-> p[2].v] ELSE ProtocolError

decode_ready_for_query(p) ==
    IF p = <<>> THEN ProtocolError ELSE [m |-> "ReadyForQuery", status |-> p[1].v]

\* each column: its name, and 18 bytes of which the type OID is kept
decode_row_description(p) ==
    IF p = <<>> \/ Len(p) < 1 + 2 * p[1].v THEN ProtocolError
    ELSE [m |-> "RowDescription",
          cols |-> [i \in 1..p[1].v |-> [name |-> p[2 * i].v, oid |-> p[2 * i + 1].v]]]

\* where field i starts: a NULL takes one item, a value two
RECURSIVE field_at(_, _)
field_at(p, i) ==
    IF i = 1 THEN 2
    ELSE LET f == field_at(p, i - 1) IN
         IF f \notin DOMAIN p THEN f ELSE IF p[f].v = -1 THEN f + 1 ELSE f + 2

decode_data_row(p) ==
    IF p = <<>> \/ field_at(p, p[1].v + 1) # Len(p) + 1 THEN ProtocolError
    ELSE [m |-> "DataRow",
          fields |-> [i \in 1..p[1].v |->
              LET f == field_at(p, i) IN IF p[f].v = -1 THEN NULL ELSE p[f + 1].v]]

decode_command_complete(p) ==
    IF read_cstring(p, 1) THEN [m |-> "CommandComplete", tag |-> p[1].v] ELSE ProtocolError

decode_parameter_description(p) ==
    IF p = <<>> \/ Len(p) < 1 + p[1].v THEN ProtocolError
    ELSE [m |-> "ParameterDescription", oids |-> [i \in 1..p[1].v |-> p[i + 1].v]]

\* fields of a type byte and a string each, up to a zero byte; the last C counts
decode_error_response(p) ==
    LET stop  == {i \in DOMAIN p : i % 2 = 1 /\ p[i].v = "0"}
        last  == IF stop = {} THEN Len(p) ELSE CHOOSE i \in stop : \A j \in stop : i <= j
        codes == {i \in 1..last : i % 2 = 1 /\ p[i].v = "C"}
    IN IF \E i \in 1..(last - 1) : i % 2 = 1 /\ ~read_cstring(p, i + 1) THEN ProtocolError
       ELSE [m |-> "ErrorResponse",
             code |-> IF codes = {} THEN "" ELSE p[1 + CHOOSE i \in codes : \A j \in codes : j <= i].v]

decode_backend(type, p) ==
    CASE type = "R" -> decode_auth(p)
      [] type = "S" -> decode_param_status(p)
      [] type = "Z" -> decode_ready_for_query(p)
      [] type = "T" -> decode_row_description(p)
      [] type = "D" -> decode_data_row(p)
      [] type = "C" -> decode_command_complete(p)
      [] type = "E" -> decode_error_response(p)
      [] type = "N" -> [m |-> "NoticeResponse"]
      [] type = "1" -> [m |-> "ParseComplete"]
      [] type = "2" -> [m |-> "BindComplete"]
      [] type = "n" -> [m |-> "NoData"]
      [] type = "t" -> decode_parameter_description(p)
      [] OTHER -> ProtocolError

\* read_exact of the header and of the payload, then decode_backend
read_backend_message(f) ==
    IF f.len < 4 THEN ProtocolError ELSE decode_backend(f.t, f.p)

-----------------------------------------------------------------------------
(* ScramClient.  The cryptography is symbolic: a hash of a term is that term *)
(* under a tag, so that two are equal when their inputs are.  XOR of digests *)
(* is the symmetric difference of sets of them.  A SCRAM message is the      *)
(* sequence of its attributes.                                               *)

Atom(x) == <<"atom", x>>

hmac_sha256(key, data) == <<"hmac", key, data>>
sha256(data)           == <<"sha", data>>
Xor(a, b)              == (a \ b) \cup (b \ a)

\* one block; the iterations are part of the term
pbkdf2_hmac_sha256(password, salt, iterations) ==
    hmac_sha256(Atom(password), <<"salted", salt, iterations>>)

Attr(key, val) == [key |-> key, val |-> val]

Absent == <<"absent">>

\* the first attribute of that name
extract_attr(msg, key) ==
    LET at == {i \in DOMAIN msg : msg[i].key = key} IN
    IF at = {} THEN Absent ELSE msg[CHOOSE i \in at : \A j \in at : i <= j].val

client_first_bare(user, nonce) == <<Attr("n", Atom(user)), Attr("r", <<"nonce", nonce, "">>)>>

\* a combined nonce is the client's with the server's part after it
starts_with(combined, nonce) == combined[1] = "nonce" /\ combined[2] = nonce

client_final_no_proof(combined) == <<Attr("c", Atom("n,,")), Attr("r", combined)>>

auth_message(user, nonce, server_first) ==
    <<"auth", client_first_bare(user, nonce), server_first,
      client_final_no_proof(extract_attr(server_first, "r"))>>

SaltedPassword(password, server_first) ==
    pbkdf2_hmac_sha256(password, extract_attr(server_first, "s"), extract_attr(server_first, "i"))

ClientKey(password, server_first) ==
    hmac_sha256(SaltedPassword(password, server_first), Atom("Client Key"))

ServerSignature(password, am, server_first) ==
    hmac_sha256(hmac_sha256(SaltedPassword(password, server_first), Atom("Server Key")), am)

ScramError == [ok |-> FALSE]

\* the client-final-message and the signature expected of the server
process_server_first(user, password, nonce, server_first) ==
    LET combined == extract_attr(server_first, "r")
        am       == auth_message(user, nonce, server_first)
        key      == ClientKey(password, server_first)
        proof    == Xor({key}, {hmac_sha256(sha256(key), am)})
    IN IF \/ \E a \in {"r", "s", "i"} : extract_attr(server_first, a) = Absent
          \/ ~starts_with(combined, nonce)
          \/ extract_attr(server_first, "i") = Atom("0")
       THEN ScramError
       ELSE [ok |-> TRUE,
             final |-> Append(client_final_no_proof(combined), Attr("p", proof)),
             sig |-> ServerSignature(password, am, server_first)]

verify_server_final(server_final, expected) ==
    LET v == extract_attr(server_final, "v") IN v # Absent /\ v = expected
=============================================================================
