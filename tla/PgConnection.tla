---------------------------- MODULE PgConnection ----------------------------
(***************************************************************************)
(* PgConnection (startup and authentication, the simple and the extended     *)
(* query protocols) and Transaction on top of it, talking to a server's      *)
(* session.  A step of the client reads one backend message.                 *)
(*                                                                           *)
(* A call whose future is dropped while it waits, or that finds the stream   *)
(* at its end, leaves the connection usable and the rest of its response, if  *)
(* any, in the stream.  So does every close_prepared: decode_backend does    *)
(* not know CloseComplete.  desync remembers that one of these happened.     *)
(***************************************************************************)
EXTENDS PgCodec, FiniteSets

CONSTANTS Servers,     \* <<the pool's configuration, authentication method, the user's
                       \* password on the server, its nonce, whether it sends BackendKeyData>>
          Noise,       \* types of message the server may send on its own
          MaxPgCalls,  \* bound: calls on the connection, by its authentication method
          MaxNoise     \* bound: unsolicited messages, cancellations and failures

VARIABLES cfg,         \* the database_url, with the user and the password it is meant to name
          sess,        \* the server's session
          to_server, to_client,
          conn,        \* the PgConnection and the call it is in
          txn,         \* Transaction: none, or Active
          called,      \* calls made so far
          answered,    \* what the server did for each of them
          last,        \* the last call that returned: its number and its result
          desync, noise

pgVars == <<cfg, sess, to_server, to_client, conn, txn, called, answered, last, desync, noise>>

-----------------------------------------------------------------------------
(* The PostgreSQL backend as the driver sees it (external).  A session is a  *)
(* record; serve handles one frontend message and returns the session after  *)
(* it and the messages it sends.                                             *)

Text == <<"0", "1", "2", "3", "4">>

NoSession == [alive |-> FALSE]

\* method: trust, md5, scram; pw: the password the server has for the user.  One that has the
\* password <<"lax">> accepts any proof.
new_session(method, user, pw, snonce, keydata) ==
    [alive |-> TRUE, method |-> method, user |-> user, pw |-> pw, snonce |-> snonce, keydata |-> keydata,
     stage |-> "startup", first |-> <<>>, tx |-> "I", n |-> 0, pend |-> 0, stmts |-> <<>>, portal |-> "", skip |-> FALSE]

B(t, p) == [t |-> t, len |-> 4 + ByteLen(p), p |-> p]

Ready(s)  == B("Z", <<N("i8", s.tx)>>)
Desc      == B("T", <<N("i16", 1), S("n"), N("i32", OID_INT8)>>)
Failed(c) == B("E", <<N("i8", "S"), S("ERROR"), N("i8", "C"), S(c), N("i8", "0")>>)
Tag(w)    == B("C", <<S(w)>>)

-----------------------------------------------------------------------------
\* what a statement does: the session, whether it succeeded, its rows and tag
Done(s, rows, tag) == [s |-> s, ok |-> TRUE, rows |-> rows, tag |-> tag]
Bad(s)             == [s |-> [s EXCEPT !.tx = IF @ = "T" THEN "E" ELSE @],
                       ok |-> FALSE, rows |-> <<>>, tag |-> <<>>]

run_sql(s, sql) ==
    CASE s.tx = "E" /\ sql \notin {"COMMIT", "ROLLBACK"} -> Bad(s)
      [] sql = "bad"      -> Bad(s)
      [] sql = "sel"      -> Done(s, <<Text[s.n + s.pend + 1]>>, <<"SELECT", "1">>)
      [] sql = "ins"      -> Done(IF s.tx = "T" THEN [s EXCEPT !.pend = @ + 1] ELSE [s EXCEPT !.n = @ + 1],
                                  <<>>, <<"INSERT", "0", "1">>)
      [] sql = "BEGIN"    -> Done([s EXCEPT !.tx = "T"], <<>>, <<"BEGIN">>)
      [] sql = "COMMIT"   -> Done([s EXCEPT !.tx = "I", !.n = IF s.tx = "E" THEN @ ELSE @ + s.pend, !.pend = 0],
                                  <<>>, IF s.tx = "E" THEN <<"ROLLBACK">> ELSE <<"COMMIT">>)
      [] sql = "ROLLBACK" -> Done([s EXCEPT !.tx = "I", !.pend = 0], <<>>, <<"ROLLBACK">>)

Rows(rows) == [i \in DOMAIN rows |-> B("D", <<N("i16", 1), N("i32", 1), V(rows[i])>>)]

\* out: the messages; ans: what the command did, once it is complete
Reply(s, out)       == [s |-> s, out |-> out, ans |-> <<>>]
ReplyAns(s, out, a) == [s |-> s, out |-> out, ans |-> <<a>>]

Answer(ok, rows, tag) == [ok |-> ok, rows |-> rows, tag |-> tag]

serve_query(s, sql) ==
    LET r == run_sql(s, sql) IN
    ReplyAns(r.s,
             (IF ~r.ok THEN <<Failed("42601")>>
              ELSE (IF sql = "sel" THEN <<Desc>> \o Rows(r.rows) ELSE <<>>) \o <<Tag(r.tag)>>)
                 \o <<Ready(r.s)>>,
             Answer(r.ok, r.rows, r.tag))

\* an error of the extended protocol: the rest up to Sync is skipped
Skip(s) == ReplyAns([Bad(s).s EXCEPT !.skip = TRUE], <<Failed("42601")>>, Answer(FALSE, <<>>, <<>>))

serve_extended(s, f) ==
    CASE f.t = "S" -> Reply([s EXCEPT !.skip = FALSE], <<Ready(s)>>)
      [] s.skip    -> Reply(s, <<>>)
      [] f.t = "P" -> IF f.p[2].v = "bad" \/ (f.p[1].v # "" /\ f.p[1].v \in DOMAIN s.stmts) \/ s.tx = "E"
                      THEN Skip(s)
                      ELSE Reply([s EXCEPT !.stmts = (f.p[1].v :> f.p[2].v) @@ @], <<B("1", <<>>)>>)
      [] f.t = "D" -> ReplyAns(s, <<B("t", <<N("i16", 0)>>),
                                    IF s.stmts[f.p[2].v] = "sel" THEN Desc ELSE B("n", <<>>)>>,
                               Answer(TRUE, <<>>, <<>>))
      [] f.t = "B" -> IF f.p[2].v \notin DOMAIN s.stmts \/ f.p[4].v # 0 \/ s.tx = "E" THEN Skip(s)
                      ELSE Reply([s EXCEPT !.portal = f.p[2].v], <<B("2", <<>>)>>)
      [] f.t = "E" -> LET r == run_sql(s, s.stmts[s.portal]) IN
                      ReplyAns(r.s, Rows(r.rows) \o <<Tag(r.tag)>>, Answer(TRUE, r.rows, r.tag))
      [] f.t = "C" -> ReplyAns([s EXCEPT !.stmts = [x \in DOMAIN @ \ {f.p[2].v} |-> @[x]]],
                               <<B("3", <<>>)>>, Answer(TRUE, <<>>, <<>>))

-----------------------------------------------------------------------------
(* Authentication.                                                            *)

Auth(sub, rest) == B("R", <<N("i32", sub)>> \o rest)

\* AuthenticationOk, a parameter, the key for cancel requests (PostgreSQL sends it, some
\* proxies do not), and the session is ready
Welcome(s) == Reply([s EXCEPT !.stage = "ready"],
                    <<Auth(0, <<>>), B("S", <<S("server_version"), S("16")>>)>>
                        \o (IF s.keydata THEN <<B("K", <<N("i32", 1), N("i32", 2)>>)>> ELSE <<>>)
                        \o <<Ready(s)>>)

Refuse(s) == Reply([s EXCEPT !.alive = FALSE, !.stage = "refused"], <<Failed("28P01")>>)

ServerFirst(s, nonce) ==
    <<Attr("r", <<"nonce", IF s.snonce = "" THEN "bad" ELSE nonce, s.snonce>>),
      Attr("s", Atom("salt")), Attr("i", Atom("4096"))>>

serve_auth(s, f) ==
    CASE s.stage = "startup" /\ s.method = "trust" -> Welcome(s)
      [] s.stage = "startup" /\ s.method = "md5" ->
           Reply([s EXCEPT !.stage = "md5"], <<Auth(5, <<V("salt")>>)>>)
      [] s.stage = "startup" /\ s.method = "scram" ->
           Reply([s EXCEPT !.stage = "first"], <<Auth(10, <<S("SCRAM-SHA-256"), S("")>>)>>)
      [] s.stage = "startup" -> Reply(s, <<Auth(10, <<S("OTHER"), S("")>>)>>)
      [] s.stage = "md5" -> IF f.p[1].v = <<"md5", s.pw, s.user, "salt">> THEN Welcome(s) ELSE Refuse(s)
      [] s.stage = "first" ->  \* SASLInitialResponse: mechanism, length, client-first
           LET first == ServerFirst(s, extract_attr(f.p[3].v, "r")[2]) IN
           Reply([s EXCEPT !.stage = "final", !.first = <<f.p[3].v, first>>], <<Auth(11, <<V(first)>>)>>)
      [] s.stage = "final" ->  \* SASLResponse: client-final
           LET am  == <<"auth", Tail(s.first[1]), s.first[2], SubSeq(f.p[1].v, 1, 2)>>
               key == ClientKey(s.pw, s.first[2])
               sig == hmac_sha256(sha256(key), am)
           IN IF s.pw # <<"lax">> /\ Xor(extract_attr(f.p[1].v, "p"), {sig}) # {key} THEN Refuse(s)
              ELSE Reply([s EXCEPT !.stage = "ready"],
                         <<Auth(12, <<V(<<Attr("v", ServerSignature(s.pw, am, s.first[2]))>>)>>)>>
                             \o Welcome(s).out)

serve(s, f) ==
    IF s.stage = "startup" /\ f.p[3].v # s.user THEN Refuse(s)
    ELSE IF s.stage # "ready" THEN serve_auth(s, f)
    ELSE IF f.t = "Q" THEN serve_query(s, f.p[1].v)
    ELSE IF f.t = "X" THEN Reply([s EXCEPT !.alive = FALSE], <<>>)
    ELSE serve_extended(s, f)

-----------------------------------------------------------------------------
(* The connection string: parse_url and percent_decode of pool/mod.rs.  A    *)
(* string is the sequence of its bytes in UTF-8: an ASCII character is itself, *)
(* a byte above 7F its two hex digits.                                         *)

Schemes == {"postgres://", "postgresql://"}

Hex   == <<"0", "1", "2", "3", "4", "5", "6", "7", "8", "9", "A", "B", "C", "D", "E", "F">>
Marks == [n \in {37, 47, 58, 64} |-> IF n = 37 THEN "%" ELSE IF n = 47 THEN "/" ELSE IF n = 58 THEN ":" ELSE "@"]

\* the byte n, of the characters that a URL of the instance has encoded
byte(n) == IF n \in DOMAIN Marks THEN Marks[n] ELSE Hex[(n \div 16) + 1] \o Hex[(n % 16) + 1]

\* the value of a hex digit, -1 if it is none
Nibble(c) == SelectInSeq(Hex, LAMBDA h : h = c) - 1

\* u8::from_str_radix(_, 16) of two characters, which may begin with a plus sign; -1 for an Err
from_str_radix(a, b) ==
    IF Nibble(b) < 0 \/ (Nibble(a) < 0 /\ a # "+") THEN -1
    ELSE (IF a = "+" THEN 0 ELSE 16 * Nibble(a)) + Nibble(b)

\* `byte as char`: above 127 a character of two bytes
as_char(n) == IF n < 128 THEN <<byte(n)>> ELSE <<byte(192 + (n \div 64)), byte(128 + (n % 64))>>

HighBytes == {byte(n) : n \in 128..255}

RECURSIVE percent_decode(_)
percent_decode(s) ==
    IF s = <<>> THEN <<>>
    ELSE IF s[1] = "%" /\ Len(s) > 2 /\ from_str_radix(s[2], s[3]) >= 0
    THEN as_char(from_str_radix(s[2], s[3])) \o percent_decode(SubSeq(s, 4, Len(s)))
    ELSE (IF s[1] \in HighBytes THEN as_char(CHOOSE n \in 128..255 : byte(n) = s[1]) ELSE <<s[1]>>)
             \o percent_decode(Tail(s))

\* the slice of two bytes after a percent sign ends inside a character: it panics
Splits(s) == \E i \in DOMAIN s : s[i] = "%" /\ i + 3 <= Len(s) /\ s[i + 3] \in {byte(n) : n \in 128..191}

\* str::split_once: what is before the first c and what is after it
split_once(s, c) ==
    LET i == SelectInSeq(s, LAMBDA x : x = c)
    IN  IF i = 0 THEN <<>> ELSE <<SubSeq(s, 1, i - 1), SubSeq(s, i + 1, Len(s))>>

\* an Err, or the panic of Splits: nothing is opened
UrlError == [ok |-> FALSE]

parse_url(url) ==
    LET rest     == split_once(Tail(url), "@")
        userinfo == rest[1]
        pair     == split_once(userinfo, ":")
        hostpath == split_once(rest[2], "/")
    IN  IF url = <<>> \/ url[1] \notin Schemes \/ rest = <<>> \/ hostpath = <<>> \/ Splits(userinfo) THEN UrlError
        ELSE [ok |-> TRUE,
              user |-> percent_decode(IF pair = <<>> THEN userinfo ELSE pair[1]),
              password |-> IF pair = <<>> THEN <<>> ELSE percent_decode(pair[2]),
              host_port |-> hostpath[1], database |-> hostpath[2]]

-----------------------------------------------------------------------------
(* The connection.                                                           *)

NoCall == [k |-> "none", sql |-> "", name |-> ""]
Idle   == [at |-> "idle", call |-> NoCall, cols |-> <<>>, rows |-> <<>>, n |-> 0, err |-> ""]
Closed == [Idle EXCEPT !.at = "closed"]

NoResult == [id |-> 0, k |-> "none", ok |-> FALSE, rows |-> <<>>, n |-> 0, why |-> ""]

PgInit ==
    /\ cfg \in {srv[1] : srv \in Servers}
    /\ sess = NoSession /\ to_server = <<>> /\ to_client = <<>>
    /\ conn = Closed /\ txn = "none"
    /\ called = 0 /\ answered = <<>> /\ last = NoResult
    /\ desync = FALSE /\ noise = 0

-----------------------------------------------------------------------------
(* connect and the authentication exchange.                                   *)

\* (user, password, host_port, database) of the URL
url == parse_url(cfg.url)

\* Pool::open_connection: an error of the URL opens nothing
connect(method, pw, snonce, keydata) ==
    /\ conn = Closed /\ called = 0 /\ sess = NoSession
    /\ url.ok
    /\ sess' = new_session(method, cfg.user, pw, snonce, keydata)
    /\ to_server' = <<write_startup_message(encode_startup(url.user, url.database))>>
    /\ to_client' = <<>>
    /\ conn' = [Idle EXCEPT !.at = "starting"]
    /\ UNCHANGED <<txn, called, answered, last, desync, noise>>

NONCE == "cnonce"

md5_password(user, password, salt) == <<"md5", password, user, salt>>

is_sasl_auth(f) == f.t = "R" /\ f.p # <<>> /\ f.p[1].v \in {10, 11, 12}

\* strings after the sub-type up to an empty one
decode_sasl_mechanisms(p) ==
    LET stop == {i \in 2..Len(p) : p[i].v = ""} IN
    {p[i].v : i \in {i \in 2..Len(p) : \A j \in stop : i < j}}

decode_sasl_data(p) == p[2].v

client_first_message == <<Attr("gs2", Atom("n,,"))>> \o client_first_bare(url.user, NONCE)

encode_sasl_initial_response(mechanism, client_first) ==
    write_cstring(mechanism) \o <<N("i32", 1), V(client_first)>>
encode_sasl_response(client_final) == <<V(client_final)>>

send(type, payload) == to_server' = Append(to_server, write_frontend_message(type, payload))

\* connect returns an error and drops the stream
give_up == conn' = Closed /\ to_server' = <<>>

\* perform_scram_auth, steps 1 and 2
perform_scram_auth(f) ==
    IF f.p[1].v = 10 /\ "SCRAM-SHA-256" \in decode_sasl_mechanisms(f.p)
    THEN /\ send("p", encode_sasl_initial_response("SCRAM-SHA-256", client_first_message))
         /\ conn' = [conn EXCEPT !.at = "sasl_continue"]
    ELSE give_up

\* the loop of connect
on_startup(f) ==
    LET m == read_backend_message(f) IN
    CASE is_sasl_auth(f) -> perform_scram_auth(f)
      [] ~is_sasl_auth(f) /\ m.m = "AuthMd5" ->
           send("p", encode_password(md5_password(url.user, url.password, m.salt))) /\ UNCHANGED conn
      [] ~is_sasl_auth(f) /\ m.m \in {"AuthOk", "ParameterStatus", "NoticeResponse"} ->
           UNCHANGED <<conn, to_server>>
      [] m.m = "ReadyForQuery" -> conn' = Idle /\ UNCHANGED to_server
      [] OTHER -> give_up

\* perform_scram_auth, steps 3 to 5
on_sasl_continue(f) ==
    IF ~(f.t = "R" /\ f.p[1].v = 11) THEN give_up
    ELSE LET r == process_server_first(url.user, url.password, NONCE, decode_sasl_data(f.p)) IN
         IF ~r.ok THEN give_up
         ELSE /\ send("p", encode_sasl_response(r.final))
              /\ conn' = [conn EXCEPT !.at = "sasl_final", !.err = r.sig]

\* variant: the server's signature is not checked
on_sasl_final_NoVerify(f) ==
    IF f.t = "R" /\ f.p[1].v = 12
    THEN conn' = [conn EXCEPT !.at = "sasl_ok", !.err = ""] /\ UNCHANGED to_server
    ELSE give_up

\* step 6
on_sasl_final(f) ==
    IF f.t = "R" /\ f.p[1].v = 12 /\ verify_server_final(decode_sasl_data(f.p), conn.err)
    THEN conn' = [conn EXCEPT !.at = "sasl_ok", !.err = ""] /\ UNCHANGED to_server
    ELSE give_up

\* step 7
on_sasl_ok(f) ==
    IF read_backend_message(f).m = "AuthOk"
    THEN conn' = [conn EXCEPT !.at = "starting"] /\ UNCHANGED to_server
    ELSE give_up

connect_step ==
    /\ conn.at \in {"starting", "sasl_continue", "sasl_final", "sasl_ok"}
    /\ \/ /\ to_client # <<>>
          /\ LET f == Head(to_client) IN
             CASE conn.at = "starting"      -> on_startup(f)
               [] conn.at = "sasl_continue" -> on_sasl_continue(f)
               [] conn.at = "sasl_final"    -> on_sasl_final(f)
               [] conn.at = "sasl_ok"       -> on_sasl_ok(f)
          /\ to_client' = Tail(to_client)
       \/ to_client = <<>> /\ ~sess.alive /\ give_up /\ UNCHANGED to_client
    /\ UNCHANGED <<sess, txn, called, answered, last, desync, noise>>

-----------------------------------------------------------------------------
(* Calls.  Each handler takes the connection and a message and says what the  *)
(* call does: goes on, returns a result, or drains first.                     *)

More(c)       == [end |-> "more", c |-> c, why |-> ""]
Return(c)     == [end |-> "ok", c |-> c, why |-> ""]
Drain(c)      == [end |-> "more", c |-> [c EXCEPT !.at = "draining"], why |-> ""]
Fail(c, why)  == [end |-> "err", c |-> c, why |-> why]

Unsolicited == {"ParameterStatus", "NoticeResponse"}

Columns(cols) == [i \in DOMAIN cols |-> <<cols[i].name, from_oid(cols[i].oid)>>]

\* variant: the error is returned at once
query_on_NoDrain(c, m) ==
    CASE m.m = "RowDescription"  -> More([c EXCEPT !.cols = Columns(m.cols)])
      [] m.m = "DataRow"         -> More([c EXCEPT !.rows = Append(@, m.fields)])
      [] m.m = "CommandComplete" -> More(c)
      [] m.m = "ReadyForQuery"   -> Return(c)
      [] m.m = "ErrorResponse"   -> Fail(c, "server")
      [] m.m \in Unsolicited     -> More(c)
      [] OTHER                   -> Fail(c, "protocol")

query_on(c, m) ==
    CASE m.m = "RowDescription"  -> More([c EXCEPT !.cols = Columns(m.cols)])
      [] m.m = "DataRow"         -> More([c EXCEPT !.rows = Append(@, m.fields)])
      [] m.m = "CommandComplete" -> More(c)
      [] m.m = "ReadyForQuery"   -> IF m.status = "E" THEN Fail(c, "protocol") ELSE Return(c)
      [] m.m = "ErrorResponse"   -> Drain(c)
      [] m.m \in Unsolicited     -> More(c)
      [] OTHER                   -> Fail(c, "protocol")

\* the last word of the tag, if it is a number
parse_affected_rows(tag) ==
    LET w == tag[Len(tag)] IN
    IF \E i \in DOMAIN Text : Text[i] = w THEN (CHOOSE i \in DOMAIN Text : Text[i] = w) - 1 ELSE 0

execute_on(c, m) ==
    CASE m.m = "CommandComplete" -> More([c EXCEPT !.n = parse_affected_rows(m.tag)])
      [] m.m = "ReadyForQuery"   -> Return(c)
      [] m.m = "ErrorResponse"   -> Drain(c)
      [] m.m \in {"RowDescription", "DataRow"} \cup Unsolicited -> More(c)
      [] OTHER                   -> Fail(c, "protocol")

prepare_on(c, m) ==
    CASE m.m = "RowDescription" -> More([c EXCEPT !.cols = Columns(m.cols)])
      [] m.m = "ReadyForQuery"  -> IF m.status = "E" THEN Fail(c, "protocol") ELSE Return(c)
      [] m.m = "ErrorResponse"  -> Drain(c)
      [] m.m \in {"ParseComplete", "ParameterDescription", "NoData"} \cup Unsolicited -> More(c)
      [] OTHER                  -> Fail(c, "protocol")

execute_prepared_on(c, m) ==
    CASE m.m = "DataRow"       -> More([c EXCEPT !.rows = Append(@, m.fields)])
      [] m.m = "ReadyForQuery" -> IF m.status = "E" THEN Fail(c, "protocol") ELSE Return(c)
      [] m.m = "ErrorResponse" -> Drain(c)
      [] m.m \in {"BindComplete", "CommandComplete"} \cup Unsolicited -> More(c)
      [] OTHER                 -> Fail(c, "protocol")

\* CloseComplete is not a message that decode_backend knows
close_statement_on(c, m) ==
    CASE m.m = "ReadyForQuery"  -> Return(c)
      [] m.m = "ErrorResponse"  -> Drain(c)
      [] m.m \in {"protocol_error", "unsupported_auth"} -> Fail(c, "protocol")
      [] OTHER                  -> More(c)

drain_until_ready(c, m) ==
    CASE m.m = "ReadyForQuery" -> Fail(c, "server")
      [] m.m \in {"protocol_error", "unsupported_auth"} -> Fail(c, "protocol")
      [] OTHER -> More(c)

Handle(c, m) ==
    CASE c.at = "draining" -> drain_until_ready(c, m)
      [] c.call.k = "query" -> query_on(c, m)
      [] c.call.k \in {"execute", "tx.begin", "tx.commit", "tx.rollback"} -> execute_on(c, m)
      [] c.call.k = "prepare" -> prepare_on(c, m)
      [] c.call.k = "execute_prepared" -> execute_prepared_on(c, m)
      [] c.call.k = "close_prepared" -> close_statement_on(c, m)

-----------------------------------------------------------------------------
(* The calls' frames.                                                         *)

Frame(type, payload) == write_frontend_message(type, payload)

request(call) ==
    CASE call.k \in {"query", "execute", "tx.begin", "tx.commit", "tx.rollback"} ->
           <<Frame("Q", encode_query(call.sql))>>
      [] call.k = "prepare" ->
           <<Frame("P", encode_parse(call.name, call.sql, <<>>)),
             Frame("D", encode_describe("S", call.name)), Frame("S", encode_sync)>>
      [] call.k = "execute_prepared" ->
           <<Frame("B", encode_bind("", call.name, <<>>)),
             Frame("E", encode_execute("", 0)), Frame("S", encode_sync)>>
      [] call.k = "close_prepared" ->
           <<Frame("C", encode_close("S", call.name)), Frame("S", encode_sync)>>

Issue(call) ==
    /\ conn.at = "idle" /\ called < MaxPgCalls[sess.method]
    /\ called' = called + 1
    /\ to_server' = to_server \o request(call)
    /\ conn' = [Idle EXCEPT !.at = "reading", !.call = call]
    /\ UNCHANGED <<sess, to_client, answered, last, desync, noise>>

Call(k, sql, name) == [k |-> k, sql |-> sql, name |-> name]

query(sql)             == Issue(Call("query", sql, "")) /\ UNCHANGED txn
execute(sql)           == Issue(Call("execute", sql, "")) /\ UNCHANGED txn
prepare(name, sql)     == txn = "none" /\ Issue(Call("prepare", sql, name)) /\ UNCHANGED txn
execute_prepared(name) == txn = "none" /\ Issue(Call("execute_prepared", "", name)) /\ UNCHANGED txn
close_prepared(name)   == txn = "none" /\ Issue(Call("close_prepared", "", name)) /\ UNCHANGED txn

\* Transaction: begin takes the connection, commit and rollback give it back
begin    == txn = "none" /\ Issue(Call("tx.begin", "BEGIN", "")) /\ txn' = "Active"
commit   == txn = "Active" /\ Issue(Call("tx.commit", "COMMIT", "")) /\ UNCHANGED txn
rollback == txn = "Active" /\ Issue(Call("tx.rollback", "ROLLBACK", "")) /\ UNCHANGED txn

\* the socket closes, and the server rolls back and ends the session
Disconnect ==
    /\ conn' = Closed /\ txn' = "none"
    /\ sess' = [sess EXCEPT !.alive = FALSE, !.pend = 0, !.tx = "I"]
    /\ to_server' = <<>> /\ to_client' = <<>>

\* Drop of an Active transaction
drop_transaction ==
    /\ txn = "Active" /\ conn.at = "idle"
    /\ Disconnect
    /\ UNCHANGED <<called, answered, last, desync, noise>>

terminate ==
    /\ txn = "none" /\ conn.at = "idle"
    /\ send("X", <<>>) /\ conn' = Closed
    /\ UNCHANGED <<sess, to_client, txn, called, answered, last, desync, noise>>

\* the call returns; begin, commit and rollback own the transaction, and drop it
\* when they fail
Returned(c, ok, why) ==
    /\ last' = [id |-> called, k |-> c.call.k, ok |-> ok, rows |-> c.rows, n |-> c.n, why |-> why]
    /\ desync' = (desync \/ to_client = <<>> \/ (c.call.k = "close_prepared" /\ why = "protocol"))
    /\ LET owns == c.call.k \in {"tx.begin", "tx.commit", "tx.rollback"} IN
       IF owns /\ ~ok THEN Disconnect
       ELSE /\ conn' = Idle
            /\ txn' = IF c.call.k \in {"tx.commit", "tx.rollback"} THEN "none" ELSE txn
            /\ to_client' = IF to_client = <<>> THEN <<>> ELSE Tail(to_client)
            /\ UNCHANGED <<sess, to_server>>

call_step ==
    /\ conn.at \in {"reading", "draining"}
    /\ \/ /\ to_client # <<>>
          /\ LET h == Handle(conn, read_backend_message(Head(to_client))) IN
             IF h.end = "more"
             THEN /\ conn' = h.c /\ to_client' = Tail(to_client)
                  /\ UNCHANGED <<sess, to_server, txn, last, desync>>
             ELSE Returned(h.c, h.end = "ok", h.why)
       \/ /\ to_client = <<>> /\ ~sess.alive  \* end of file
          /\ Returned(conn, FALSE, "protocol")
    /\ UNCHANGED <<called, answered, noise>>

\* the call's future is dropped while it waits
cancel ==
    /\ conn.at \in {"reading", "draining"} /\ noise < MaxNoise
    /\ noise' = noise + 1 /\ desync' = TRUE
    /\ IF conn.call.k \in {"tx.begin", "tx.commit", "tx.rollback"} THEN Disconnect
       ELSE conn' = Idle /\ UNCHANGED <<sess, to_server, to_client, txn>>
    /\ UNCHANGED <<called, answered, last>>

-----------------------------------------------------------------------------
(* The server.                                                                *)

server_step ==
    /\ to_server # <<>> /\ sess.alive
    /\ LET r == serve(sess, Head(to_server)) IN
       /\ sess' = r.s
       /\ to_client' = to_client \o r.out
       /\ answered' = IF r.ans = <<>> THEN answered ELSE (called :> r.ans[1]) @@ answered
    /\ to_server' = Tail(to_server)
    /\ UNCHANGED <<conn, txn, called, last, desync, noise>>

server_notice(t) ==
    /\ sess.alive /\ conn.at # "closed" /\ noise < MaxNoise
    /\ noise' = noise + 1
    /\ to_client' = Append(to_client, B(t, <<S("a"), S("b")>>))
    /\ UNCHANGED <<sess, to_server, conn, txn, called, answered, last, desync>>

server_dies ==
    /\ sess.alive /\ noise < MaxNoise
    /\ noise' = noise + 1
    /\ sess' = [sess EXCEPT !.alive = FALSE, !.pend = 0, !.tx = "I"]
    /\ UNCHANGED <<to_server, to_client, conn, txn, called, answered, last, desync>>

Steps ==
    \/ \E srv \in Servers : srv[1] = cfg /\ connect(srv[2], srv[3], srv[4], srv[5])
    \/ connect_step \/ call_step \/ cancel \/ server_step \/ server_dies
    \/ \E t \in Noise : server_notice(t)
    \/ \E sql \in {"sel", "ins", "bad"} : query(sql) \/ execute(sql) \/ prepare("", sql)
    \/ prepare("s", "sel")
    \/ \E name \in {"", "s"} : execute_prepared(name)
    \/ close_prepared("s")
    \/ begin \/ commit \/ rollback \/ drop_transaction \/ terminate

PgNext == Steps /\ UNCHANGED cfg

-----------------------------------------------------------------------------
(* Properties.                                                                *)

Ascii(s) == \A i \in DOMAIN s : s[i] \notin HighBytes

\* A connection is established only if the server showed it has the password that the URL
\* names, when it asked for SCRAM (perform_scram_auth, verify_server_final); and a server that
\* has this password for the user does not refuse the client, whatever characters of the two
\* are percent-encoded in the URL (parse_url, percent_decode), as long as they are ASCII:
\* percent_decode makes a character of every byte.
MutualAuth ==
    \/ /\ (conn.at = "idle" /\ sess.method = "scram") => sess.pw = cfg.password /\ sess.snonce # ""
       /\ (sess # NoSession /\ sess.stage = "refused") => sess.pw # cfg.password
    \/ ~(Ascii(cfg.user) /\ Ascii(cfg.password))

\* r is what a call of r.k returns when the server did a for it
Agrees(r, a) ==
    /\ r.ok = a.ok
    /\ (a.ok /\ r.k \in {"query", "execute_prepared"}) => r.rows = [i \in DOMAIN a.rows |-> <<a.rows[i]>>]
    /\ (a.ok /\ r.k = "execute") => r.n = 1  \* each statement here returns or changes one row

\* As long as no call was cut short, and close_prepared was not called, a call returns the
\* rows, the count or the error that the server answered to that very call, never a protocol
\* error of the client's own, and leaves nothing of the response behind, errors included
\* (query, execute, prepare, execute_prepared, drain_until_ready); and a connection that is not inside a Transaction is not inside
\* one on the server either, however its transactions ended (commit, rollback, Drop).
ResultsExact ==
    ~desync =>
        /\ conn.at = "idle" => \A i \in DOMAIN to_client : to_client[i].t \in Noise
        /\ last.id \in DOMAIN answered => Agrees(last, answered[last.id])
        /\ (txn = "none" /\ conn.at = "idle") => sess.tx = "I"

\* commit returns a connection only if the server committed (Transaction::commit).
CommitCommits ==
    (last.k = "tx.commit" /\ last.ok /\ ~desync) => answered[last.id].tag = <<"COMMIT">>
=============================================================================
