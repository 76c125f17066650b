----------------------------- MODULE HttpServer -----------------------------
(* HttpServer::serve (server/mod.rs): the accept loop, one task per         *)
(* connection (TLS handshake, HTTP/2 detection, then the HTTP/1.1 loop of   *)
(* H1Connection or the HTTP/2 loop, which H2Connection models and is one    *)
(* step here), graceful shutdown and the drain phase. serve returns from    *)
(* block_on_with_spawn, which waits for every task (Executor.check_exit).   *)
EXTENDS H1Connection

CONSTANTS
    Scripts,   \* what each client may send, without and with TLS: sequences of requests
    MaxConns,  \* max_connections, 0 for no limit
    Peek       \* H2_PREFACE_LEN

VARIABLES
    srv,           \* where the root future is, or "returned" once serve has
    active_conns,
    shutdown,      \* ShutdownHandle::is_requested
    tls            \* whether a TLS acceptor is configured

vars == <<conns, srv, active_conns, shutdown, tls>>

H2Preface == <<"P", "R", "I", SP>>
FirstSegments(script) == IF script = <<>> THEN <<H2Preface>> ELSE Segments(script)

Init ==
    /\ tls \in BOOLEAN
    /\ \E s \in [Clients -> UNION {Scripts[tls][c] : c \in Clients}] :
         /\ \A c \in Clients : s[c] \in Scripts[tls][c]
         /\ conns = [c \in Clients |-> NewConn(s[c], FirstSegments(s[c]))]
    /\ srv = "loop" /\ active_conns = 0 /\ shutdown = FALSE

(******************************* environment ******************************)

connect(c) ==
    /\ conns[c].pc = "new"
    /\ Set(c, [conns[c] EXCEPT !.pc = "backlog"])
    /\ UNCHANGED <<srv, active_conns, shutdown, tls>>

request_shutdown ==
    /\ ~shutdown /\ shutdown' = TRUE
    /\ UNCHANGED <<conns, srv, active_conns, tls>>

(******************************* accept loop ******************************)

\* the top of the loop: shutdown, then the limit, then accept
accept_loop ==
    /\ srv = "loop"
    /\ IF shutdown THEN srv' = "drain"
       ELSE /\ ~(MaxConns > 0 /\ active_conns >= MaxConns)
            /\ srv' = "accept"
    /\ UNCHANGED <<conns, active_conns, shutdown, tls>>

accept_ok(c) ==
    /\ srv = "accept" /\ conns[c].pc = "backlog"
    /\ active_conns' = active_conns + 1
    /\ Set(c, [conns[c] EXCEPT !.pc = IF tls THEN "tls" ELSE "peek"])
    /\ srv' = "loop"
    /\ UNCHANGED <<shutdown, tls>>

is_transient(kind) == kind \in {"WouldBlock", "ConnectionReset", "ConnectionAborted", "Interrupted"}

\* accept fails: Listener::accept tries again, or the loop starts over
accept_err ==
    /\ srv = "accept"
    /\ \E kind \in {"ConnectionAborted", "Other"} :
         srv' = IF is_transient(kind) THEN "accept" ELSE "loop"
    /\ UNCHANGED <<conns, active_conns, shutdown, tls>>

accept_none_Never == FALSE /\ UNCHANGED vars

\* ACCEPT_POLL_INTERVAL elapsed
accept_none ==
    /\ srv = "accept" /\ srv' = "loop"
    /\ UNCHANGED <<conns, active_conns, shutdown, tls>>

(**************************** a connection's task **************************)

\* what is peeked seeds the read buffer of the HTTP/1.1 loop
detected(k) ==
    IF Len(k.buf) >= 3 /\ SubSeq(k.buf, 1, 3) = SubSeq(H2Preface, 1, 3)
    THEN [k EXCEPT !.pc = "h2", !.buf = <<>>] ELSE head_loop(k)

\* detect_h2c_preface
peek_read(c) ==
    LET k == conns[c]
    IN  /\ k.pc = "peek"
        /\ \E n \in ReadSizes \cap 1..Len(k.wire) :
             LET k1 == [k EXCEPT !.buf = @ \o SubSeq(k.wire, 1, n), !.wire = SubSeq(@, n + 1, Len(@))]
             IN  /\ Len(k1.buf) <= Peek
                 /\ Set(c, IF Len(k1.buf) = Peek THEN detected(k1) ELSE k1)

\* end of file, a read error or H2C_PEEK_TIMEOUT: go on with what was read
peek_end(c) == conns[c].pc = "peek" /\ Set(c, detected(conns[c]))

tls_accepted(c) ==
    /\ conns[c].pc = "tls"
    /\ \E alpn \in {"h2", "http/1.1", "none"} :
         Set(c, IF alpn = "h2" THEN [conns[c] EXCEPT !.pc = "h2"] ELSE head_loop(conns[c]))

\* the handshake fails or TLS_HANDSHAKE_TIMEOUT elapses
tls_failed(c) == conns[c].pc = "tls" /\ Set(c, close(conns[c]))

h2_done(c) == conns[c].pc = "h2" /\ Set(c, close(conns[c]))

\* the counter goes down on every path out of the task
finish(c) == active_conns' = IF conns'[c].pc = "closed" THEN active_conns - 1 ELSE active_conns

\* steps a stalled client cannot hold up, and the ones it can
OwnStep(c) == peek_read(c) \/ peek_end(c) \/ tls_accepted(c) \/ tls_failed(c) \/ ServerStep(c)
task(c) ==
    /\ OwnStep(c) \/ h2_done(c)
    /\ finish(c)
    /\ UNCHANGED <<srv, shutdown, tls>>

client(c) == ClientStep(c) /\ UNCHANGED <<srv, active_conns, shutdown, tls>>

(********************************* drain **********************************)

drain ==
    /\ srv = "drain" /\ active_conns = 0 /\ srv' = "done"
    /\ UNCHANGED <<conns, active_conns, shutdown, tls>>

drain_timeout ==
    /\ srv = "drain" /\ srv' = "done"
    /\ UNCHANGED <<conns, active_conns, shutdown, tls>>

Alive(c) == conns[c].pc \notin {"new", "backlog", "closed"}

\* block_on returns once the root is done and no task is left
block_on_returns ==
    /\ srv = "done" /\ \A c \in Clients : ~Alive(c)
    /\ srv' = "returned"
    /\ UNCHANGED <<conns, active_conns, shutdown, tls>>

\* the root's own steps; a connection or an error to accept comes from outside
RootStep == accept_loop \/ accept_none \/ drain \/ drain_timeout \/ block_on_returns
Root == RootStep \/ (\E c \in Clients : accept_ok(c)) \/ accept_err
Returned == srv = "returned" /\ UNCHANGED vars

Next == Root \/ request_shutdown \/ Returned
        \/ \E c \in Clients : connect(c) \/ task(c) \/ client(c)

Spec == Init /\ [][Next]_vars

(* The executor runs the root and every task; timers elapse and handlers    *)
(* end. A WebSocket callback, an HTTP/2 connection and the client may go on *)
(* for ever, and no timer runs over the error answer to a body, which waits *)
(* for the client to read. The fairness of a task is weak fairness of its   *)
(* own steps, with the states in which it has none written out; each of     *)
(* these steps changes pc or buf, and after the accept no other step does.  *)
TimedStep(c) ==
    /\ conns[c].pc \notin {"new", "backlog", "ws", "h2"}
    /\ <<conns'[c].pc, conns'[c].buf>> # <<conns[c].pc, conns[c].buf>>
NoTimedStep(c) ==
    LET k == conns[c]
    IN  \/ k.pc \in {"new", "backlog", "closed", "ws", "h2"}
        \/ k.pc \in {"fixed", "chunked"} /\ k.wire = <<>> /\ k.end = "open"
        \/ k.pc = "error" /\ ~k.guarded
FairTask(c) == []<>NoTimedStep(c) \/ []<><<TimedStep(c)>>_vars
FairSpec == Spec /\ WF_vars(RootStep) /\ \A c \in Clients : FairTask(c)

(******************************* properties *******************************)

\* what nothing bounds: the reading of a body, the answer that refuses one, a WebSocket
\* and HTTP/2
Held(k) == k.pc \in {"fixed", "chunked", "ws", "h2"} \/ (k.pc = "error" /\ ~k.guarded)

(* After a shutdown request serve returns, unless some client holds its     *)
(* connection where the code has no timeout (HttpServer::serve, run).       *)
ShutdownEnds == shutdown ~> (srv = "returned" \/ \E c \in Clients : Held(conns[c]))
=============================================================================
