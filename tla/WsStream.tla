------------------------------ MODULE WsStream ------------------------------
(* A WebSocket connection after the upgrade (websocket/stream.rs): the       *)
(* user's callback calls recv and send in any order, one at a time; recv     *)
(* reassembles fragments and answers Ping and Close. The client sends masked *)
(* frames, cut into reads anywhere; what the HTTP loop had already read is   *)
(* in the read buffer first. script, got and out are ghosts.                 *)
EXTENDS Integers, Sequences, SequencesExt, FiniteSets, Bitwise, TLC

CONSTANTS
    LenBytes,     \* bytes of the long length field and of a usize (8 in the code)
    WsScripts,    \* sequences of frames the client sends
    MaskKey,      \* the client's masking key
    MaxFragment,  \* MAX_FRAGMENT_SIZE
    MaxSends      \* bound: messages the callback sends

(* The frame codec (websocket/frame.rs). Bytes are numbers 0..255.           *)

Opcodes == "Continuation" :> 0 @@ "Text" :> 1 @@ "Binary" :> 2 @@ "Close" :> 8 @@ "Ping" :> 9 @@ "Pong" :> 10
KnownOpcode(v) == \E op \in DOMAIN Opcodes : Opcodes[op] = v % 16
opcode_from_u8(v) == CHOOSE op \in DOMAIN Opcodes : Opcodes[op] = v % 16
is_control(op) == op \in {"Close", "Ping", "Pong"}

Frame(fin, op, payload) == [fin |-> fin, opcode |-> op, payload |-> payload]
close_frame(code, reason) == Frame(TRUE, "Close", <<code \div 256, code % 256>> \o reason)

\* the w bytes of n, most significant first
be_bytes(n, w) == [i \in 1..w |-> (n \div (256^(w - i))) % 256]
from_be_bytes(s) == FoldLeft(LAMBDA acc, b : acc * 256 + b, 0, s)

Length(n) == CASE n < 126 -> <<n>> [] n >= 126 /\ n < 65536 -> <<126>> \o be_bytes(n, 2) [] OTHER -> <<127>> \o be_bytes(n, LenBytes)

encode_frame(f) == <<(IF f.fin THEN 128 ELSE 0) + Opcodes[f.opcode]>> \o Length(Len(f.payload)) \o f.payload

Incomplete == [error |-> "Incomplete"]
Invalid == [error |-> "Invalid"]
\* offset + payload_len overflows a usize: a debug build panics there, a release build at the slice
Overflow == [error |-> "panic"]

unmask(payload, key) == [i \in 1..Len(payload) |-> payload[i] ^^ key[((i - 1) % 4) + 1]]

decode_frame(buf) ==
    LET field == buf[2] % 128
        ext == CASE field = 126 -> 2 [] field = 127 -> LenBytes [] OTHER -> 0
        masked == buf[2] >= 128
        mask == IF masked THEN 4 ELSE 0
        len == IF ext = 0 THEN field ELSE from_be_bytes(SubSeq(buf, 3, 2 + ext))
        start == 2 + ext + mask
        op == opcode_from_u8(buf[1])
        payload == SubSeq(buf, start + 1, start + len)
    IN  CASE Len(buf) < 2 -> Incomplete
          [] Len(buf) >= 2 /\ ~KnownOpcode(buf[1]) -> Invalid
          [] OTHER ->
                IF Len(buf) < 2 + ext THEN Incomplete
                ELSE IF is_control(op) /\ len > 125 THEN Invalid
                ELSE IF Len(buf) < start THEN Incomplete
                ELSE IF start + len >= 256^LenBytes THEN Overflow
                ELSE IF Len(buf) < start + len THEN Incomplete
                ELSE [frame |-> Frame(buf[1] >= 128, op,
                                      IF masked THEN unmask(payload, SubSeq(buf, start - 3, start)) ELSE payload),
                      consumed |-> start + len]

-----------------------------------------------------------------------------
(* The stream.                                                               *)

VARIABLES ws, script, wire, got, out

wsVars == <<ws, script, wire, got, out>>

\* a frame with claims announces that many bytes; the connection ends before they are sent
ClientFrame(f) ==
    LET head == encode_frame([f EXCEPT !.payload = <<>>])[1]
        len == Length(IF "claims" \in DOMAIN f THEN f.claims ELSE Len(f.payload))
    IN  <<head, len[1] + 128>> \o Tail(len) \o MaskKey \o unmask(f.payload, MaskKey)

\* new, then prepend_read_buf with what the HTTP loop left
WsInit ==
    \E s \in WsScripts : \E early \in BOOLEAN :
        LET bytes == FlattenSeq([i \in 1..Len(s) |-> ClientFrame(s[i])])
            n == IF early THEN Len(ClientFrame(s[1])) - 1 ELSE 0
        IN  /\ script = s /\ got = <<>> /\ out = <<>>
            /\ wire = SubSeq(bytes, n + 1, Len(bytes))
            /\ ws = [pc |-> "idle", read_buf |-> SubSeq(bytes, 1, n), closed |-> FALSE,
                     fragment_opcode |-> "none", fragment_buf |-> <<>>, reply |-> <<>>, result |-> <<>>, sends |-> 0]

\* recv or send returns to the callback
Returns(w, r) == [w EXCEPT !.pc = "idle", !.result = r, !.reply = <<>>]
Message(kind, payload) == [kind |-> kind, payload |-> payload]
WsError(e) == [kind |-> "error", payload |-> e]
Utf8(payload) == \A i \in 1..Len(payload) : payload[i] < 128

finish_data_frame(w, op, payload) ==
    IF op = "Text" /\ ~Utf8(payload) THEN Returns(w, WsError("utf8")) ELSE Returns(w, Message(op, payload))

\* a control frame is answered first; the message is returned when the write ended
handle_control(w, f) ==
    CASE f.opcode = "Pong" -> Returns(w, Message("Pong", f.payload))
      [] f.opcode = "Ping" -> [w EXCEPT !.pc = "reply", !.reply = Frame(TRUE, "Pong", f.payload), !.result = Message("Ping", f.payload)]
      [] f.opcode = "Close" ->
            IF w.closed THEN Returns(w, Message("Close", <<>>))
            ELSE [w EXCEPT !.pc = "reply", !.closed = TRUE, !.reply = close_frame(1000, <<>>), !.result = Message("Close", <<>>)]

Fragment(w, buf) ==
    IF Len(buf) > MaxFragment THEN Returns([w EXCEPT !.fragment_buf = buf], WsError("size"))
    ELSE [w EXCEPT !.fragment_buf = buf]

handle_frame_Interleaves(w, f) ==
    LET buf == w.fragment_buf \o f.payload
        k == [w EXCEPT !.fragment_opcode = "none", !.fragment_buf = <<>>]
    IN  CASE is_control(f.opcode) -> handle_control([w EXCEPT !.fragment_buf = <<>>], f)
          [] f.opcode \in {"Text", "Binary"} /\ f.fin -> finish_data_frame(w, f.opcode, f.payload)
          [] f.opcode \in {"Text", "Binary"} /\ ~f.fin -> Fragment([w EXCEPT !.fragment_opcode = f.opcode], f.payload)
          [] OTHER -> IF f.fin THEN finish_data_frame(k, w.fragment_opcode, buf) ELSE Fragment(w, buf)

handle_frame(w, f) ==
    LET idle == w.fragment_opcode = "none"
        data == f.opcode \in {"Text", "Binary"}
        buf == w.fragment_buf \o f.payload
    IN  CASE is_control(f.opcode) -> handle_control(w, f)
          [] data /\ ~idle -> Returns(w, WsError("data"))
          [] data /\ idle /\ f.fin -> finish_data_frame(w, f.opcode, f.payload)
          [] data /\ idle /\ ~f.fin -> Fragment([w EXCEPT !.fragment_opcode = f.opcode], f.payload)
          [] f.opcode = "Continuation" /\ idle -> Returns(w, WsError("continuation"))
          [] f.opcode = "Continuation" /\ ~idle ->
                IF f.fin /\ Len(buf) <= MaxFragment
                THEN finish_data_frame([w EXCEPT !.fragment_opcode = "none", !.fragment_buf = <<>>], w.fragment_opcode, buf)
                ELSE Fragment(w, buf)

\* the loop of recv up to its next await
RECURSIVE recv_loop(_)
recv_loop(w) ==
    LET d == decode_frame(w.read_buf)
        w1 == handle_frame([w EXCEPT !.read_buf = SubSeq(@, d.consumed + 1, Len(@))], d.frame)
    IN  IF "frame" \in DOMAIN d THEN IF w1.pc = "recv" THEN recv_loop(w1) ELSE w1
        ELSE IF d.error = "Invalid" THEN Returns(w, WsError("frame"))
        ELSE IF d.error = "panic" THEN [w EXCEPT !.pc = "panicked"]
        ELSE [w EXCEPT !.pc = "recv"]

Deliver(w) == /\ ws' = w
              /\ got' = IF w.pc = "idle" /\ w.result # <<>> THEN Append(got, w.result) ELSE got

\* the callback stops receiving after an error or a Close, as the module's example does
recv ==
    /\ ws.pc = "idle"
    /\ \A i \in 1..Len(got) : got[i].kind \notin {"error", "Close"}
    /\ Deliver(recv_loop([ws EXCEPT !.pc = "recv", !.result = <<>>]))
    /\ UNCHANGED <<script, wire, out>>

ws_read_some ==
    /\ ws.pc = "recv"
    /\ \E n \in {1, Len(wire)} \cap 1..Len(wire) :
         /\ Deliver(recv_loop([ws EXCEPT !.read_buf = @ \o SubSeq(wire, 1, n)]))
         /\ wire' = SubSeq(wire, n + 1, Len(wire))
    /\ UNCHANGED <<script, out>>

\* end of file or a read error, after the last byte
ws_read_end ==
    /\ ws.pc = "recv" /\ wire = <<>>
    /\ Deliver(Returns(ws, WsError("closed")))
    /\ UNCHANGED <<script, wire, out>>

\* the reply's write_all ended; its error is ignored
reply_written ==
    /\ ws.pc = "reply"
    /\ Deliver(Returns(ws, ws.result))
    /\ out' \in {Append(out, ws.reply), out}
    /\ UNCHANGED <<script, wire>>

send ==
    /\ ws.pc = "idle" /\ ws.sends < MaxSends
    /\ \E f \in {Frame(TRUE, "Text", <<1>>), close_frame(1000, <<>>)} :
         ws' = IF ws.closed THEN [ws EXCEPT !.sends = @ + 1]
               ELSE [ws EXCEPT !.pc = "send", !.sends = @ + 1, !.reply = f, !.closed = f.opcode = "Close"]
    /\ UNCHANGED <<script, wire, got, out>>

send_written ==
    /\ ws.pc = "send"
    /\ ws' = [ws EXCEPT !.pc = "idle", !.reply = <<>>]
    /\ out' \in {Append(out, ws.reply), out}
    /\ UNCHANGED <<script, wire, got>>

WsNext == recv \/ ws_read_some \/ ws_read_end \/ reply_written \/ send \/ send_written

(******************************* properties *******************************)

\* the messages of a sequence of frames, up to the first one that is not allowed
RECURSIVE MessagesOf(_, _, _)
MessagesOf(frames, op, parts) ==
    LET f == frames[1]
        rest == Tail(frames)
        whole == parts \o f.payload
        o == IF f.opcode = "Continuation" THEN op ELSE f.opcode
    IN  CASE frames = <<>> -> <<>>
          [] frames # <<>> /\ f.opcode = "Close" -> <<Message("Close", <<>>)>>
          [] frames # <<>> /\ f.opcode \in {"Ping", "Pong"} -> <<Message(f.opcode, f.payload)>> \o MessagesOf(rest, op, parts)
          [] OTHER ->
                IF "claims" \in DOMAIN f \/ (f.opcode = "Continuation") = (op = "none") \/ (Len(whole) > MaxFragment /\ ~(f.fin /\ op = "none"))
                   \/ (f.fin /\ o = "Text" /\ ~Utf8(whole)) THEN <<>>
                ELSE IF f.fin THEN <<Message(o, whole)>> \o MessagesOf(rest, "none", <<>>)
                ELSE MessagesOf(rest, o, whole)

(* recv returns exactly the client's messages, in order, each one whole:     *)
(* fragments are joined, control frames between them do not disturb them,    *)
(* and the first frame that is not allowed ends with an error (handle_frame, *)
(* handle_control). Reads may cut the frames anywhere, and the connection    *)
(* may end inside a frame.                                                   *)
MessagesExact ==
    LET data == SelectSeq(got, LAMBDA m : m.kind # "error")
        meant == MessagesOf(script, "none", <<>>)
    IN  /\ IsPrefix(data, meant)
        /\ got # <<>> /\ Last(got).kind = "error" => data = meant
=============================================================================
