------------------------------- MODULE MCHttp -------------------------------
(***************************************************************************)
(* Small instances, for TLC, of the HTTP crate: the server with its HTTP/1  *)
(* connections, an HTTP/2 connection, a WebSocket, the extractors, the      *)
(* middleware chain and the router.  A behaviour runs one of them, part.    *)
(***************************************************************************)
EXTENDS HttpServer

CONSTANTS StreamIds, MaxConcurrent, MaxFrameSize, DefaultWindow, MaxWindow, HeaderTable, Fields, MoreFields,
          Resizes, ClientSettings, DataLens, Bodies, MaxFrames,
          LenBytes, WsScripts, MaskKey, MaxFragment, MaxSends, ExClients, Signatures,
          ra, rb, MwRequests, Chains, Inputs, SeqWidth, Patterns, NestPrefixes, UrlPaths, MaxRoutes

VARIABLES part,
          pc, h2, tasks, rx, frames, peer,
          ws, script, wire, got, out,
          exSent, exReq, exTodo, exGot, exReply,
          mwChain, mwAt, mwDir, mwReq, mwKept, mwResp, mwFrom, mwSaw, mwCounter,
          router, sub, routes, subRoutes

H2     == INSTANCE H2Connection
Socket == INSTANCE WsStream
Args   == INSTANCE Extract WITH Clients <- ExClients
Layers == INSTANCE Middleware
Tree   == INSTANCE Routing

h2Vars  == <<pc, h2, tasks, rx, frames, peer>>
wsVars  == <<ws, script, wire, got, out>>
exVars  == <<exSent, exReq, exTodo, exGot, exReply>>
mwVars  == <<mwChain, mwAt, mwDir, mwReq, mwKept, mwResp, mwFrom, mwSaw, mwCounter>>
treeVars == <<router, sub, routes, subRoutes>>

-----------------------------------------------------------------------------
(* HTTP/1: one client with every kind of request, another that wants the slot *)

R(m, p, v, conn, fr, body, host, bad) ==
    [method |-> m, path |-> p, version |-> v, connection |-> conn, framing |-> fr, body |-> body,
     host |-> host, bad |-> bad]
Plain          == R("GET", "/a", "HTTP/1.1", "", "none", <<>>, 1, FALSE)
HeadClose      == R("HEAD", "/a", "HTTP/1.1", "close", "none", <<>>, 1, FALSE)
Old            == R("GET", "/b", "HTTP/1.0", "keep-alive", "none", <<>>, 1, FALSE)
Post           == R("POST", "/b", "HTTP/1.1", "", "fixed", <<"GET", SP>>, 1, FALSE)
Chunks         == R("POST", "/a", "HTTP/1.1", "", "chunked", <<"0", CR>>, 1, FALSE)
NewVersion     == R("GET", "/a", "HTTP/9", "", "none", <<>>, 1, TRUE)
TooLarge       == R("POST", "/a", "HTTP/1.1", "", "fixed", <<"x", "x", "x">>, 1, TRUE)
ChunksTooLarge == R("POST", "/a", "HTTP/1.1", "", "chunked", <<"x", "x", "x">>, 1, TRUE)
LongHead       == R("GET", "/a", "HTTP/1.1", "", "none", <<>>, 40, TRUE)

MCScripts ==
    [t \in BOOLEAN |->
        [c1 |-> IF t THEN {<<Plain, HeadClose>>}
                ELSE {<<Post, Chunks>>, <<Chunks, Old>>, <<Plain, Plain, Plain>>,
                      <<TooLarge>>, <<ChunksTooLarge>>, <<LongHead>>, <<NewVersion>>},
         c2 |-> {<<>>}]]
MCLimits == [max_request_line |-> 8, max_header_value |-> 50, max_header_block |-> 60,
             max_header_count |-> 3]

\* HTTP/2: ":path" (3, the name of the static entries 4 and 5) with the value "/?c", then a
\* field whose new name has a capital, or another path, which is not UTF-8
PathField == {<<<<3>>, <<47, 63, 99>>>>}
NewField == {<<<<67>>, <<1>>>>, <<<<3>>, <<200>>>>}

\* initial window sizes that go up and down; values that are refused, after one that is not
MCSettings == {<<<<4, 1>>>>, <<<<4, 2>>>>, <<<<4, 4>>>>, <<<<4, 1>>, <<2, 2>>>>, <<<<5, 16383>>>>}

\* WebSocket: scripts of three frames; the key flips bits of every octet
Sent(f, op, data) == [fin |-> f, opcode |-> op, payload |-> data]
Kinds == {Sent(TRUE, "Text", <<65>>), Sent(FALSE, "Text", <<66>>), Sent(FALSE, "Binary", <<200>>),
          Sent(FALSE, "Continuation", <<67>>), Sent(TRUE, "Continuation", <<200, 201>>),
          Sent(TRUE, "Ping", <<1>>), Sent(TRUE, "Pong", <<>>), Sent(TRUE, "Close", <<>>)}
\* cut short: announces four octets, or as many as the length field can say
Cut(n) == [fin |-> TRUE, opcode |-> "Binary", payload |-> <<200>>, claims |-> n]
MCWsScripts == [1..3 -> Kinds] \cup {<<k, Cut(n)>> : k \in Kinds, n \in {4, 256^LenBytes - 1}}
MCKey == <<1, 2, 3, 255>>

\* extractors: keys, values and parts made of the characters the formats give a meaning
Words == {<<"k">>, <<" ", "&">>, <<"%", "2", "5">>, <<"\"", "=", "\\">>, <<"+", LF>>,
          <<"k", "=", "v", "%">>}
Pair(k, v) == [key |-> k, val |-> v]
PairLists == {<<>>} \cup {<<Pair(k, v)>> : k \in Words, v \in Words \cup {<<>>}}
             \cup {<<Pair(k, v), Pair(<<"k">>, <<"&">>)>> : k \in Words, v \in Words}
PartFields ==
    LET F(h, n, file, ct, data) == [header |-> h, name |-> n, file_name |-> file, content_type |-> ct, data |-> data]
        Contents == {<<>>, <<"x">>, CRLF, <<"-", "-", "B">>, <<CR, LF, "-", "-">>, <<LF, LF>>, CRLF \o CRLF, <<"x", CR>>}
    IN  {F("Content-Disposition:", <<"f">>, <<>>, <<>>, d) : d \in Contents}
        \cup {F("content-disposition:", <<SP, "g">>, <<<<"t", ".", "txt">>>>, <<<<"png">>>>, d) : d \in Contents}
        \cup {F("Content-Disposition:", <<"f">>, <<<<"t", ";", "u">>>>, <<<<"png">>>>, <<"x">>),
              F("CONTENT-DISPOSITION:", <<"f">>, <<>>, <<>>, <<"x">>)}
Bare(media) == [media |-> media, params |-> <<>>]
Multipart == [media |-> "multipart/form-data",
              params |-> <<[name |-> "boundary", value |-> <<"B">>]>>]
Named(n, v) == [name |-> n, value |-> v]
UpgradeHead(conn, version) ==
    [method |-> "GET", headers |-> <<Named("upgrade", <<"WebSocket">>), Named("connection", conn),
                                     Named("sec-websocket-version", version), Named("sec-websocket-key", <<"k">>)>>]
MCExClients ==
    [ct : {Bare("application/x-www-form-urlencoded"), Bare("application/json"), Bare("")},
     pairs : PairLists, fields : {<<>>}, url : {<<>>, <<Pair(<<" ", "&">>, <<"%">>)>>},
     state : {<<"s">>}, params : {<<"id", "7">>}, head : {[method |-> "POST", headers |-> <<>>]}, asks : {FALSE}]
    \cup [ct : {Multipart}, pairs : {<<>>}, url : {<<>>}, state : {<<>>}, params : {<<"id", "7">>},
          head : {[method |-> "GET", headers |-> <<Named("connection", <<"Upgrade">>)>>]}, asks : {FALSE},
          fields : {<<f>> : f \in PartFields} \cup {<<f, g>> : f \in PartFields, g \in PartFields}]
    \cup UNION {[ct : {Bare("")}, pairs : {<<>>}, url : {<<>>}, state : {<<"s">>}, params : {<<>>}, fields : {<<>>},
                 head : {UpgradeHead(conn, version) : conn \in IF asks THEN {<<"Upgrade">>, <<"close", ",", SP, "upgrade">>}
                                                               ELSE {<<"upgrades">>, <<"Upgrade", SP, "close">>},
                                                      version \in {<<"13">>, <<SP, "13">>}},
                 asks : {asks}] : asks \in BOOLEAN}
MCSignatures == {<<"State", "Query", "Form">>, <<"Path", "Json", "Path">>, <<"Form", "Form">>,
                 <<"Multipart", "Request", "Query">>, <<"Path", "Multipart", "Multipart">>,
                 <<"Upgrade", "State">>}

\* middleware: chains with each layer, some of them twice
Piece(l, v) == [len |-> l, val |-> v]
Arriving(m, p, i, t) == [method |-> m, path |-> p, id |-> i, traceparent |-> t]
TraceParents == {<<Piece(2, "00"), Piece(32, "t"), Piece(16, "+p"), Piece(2, "00")>>,
                 <<Piece(2, "00"), Piece(32, "0"), Piece(16, "p"), Piece(2, "01")>>,
                 <<Piece(2, "01"), Piece(32, "t"), Piece(16, "p"), Piece(2, "00")>>,
                 <<Piece(2, "00"), Piece(32, "cut"), Piece(16, "+p"), Piece(2, "00")>>}
MCInputs ==
    {Arriving("GET", p, <<SP>>, <<>>) : p \in {"/assets/none", "/assets/style.css"}}
    \cup {Arriving("GET", "/other", <<"mine">>, t) : t \in TraceParents}
    \cup {Arriving("OPTIONS", "/other", <<>>, <<>>)}
MCChains == {<<>>, <<"RequestId", "Tracing", "Timeout", "Cors">>,
             <<"Cors", "RequestId", "Timeout", "Tracing", "Fn">>,
             <<"Timeout", "RequestId", "StaticFiles", "Timeout", "RequestId">>}

\* router: literals, params and wildcards that overlap
Lit(n) == [k |-> "static", name |-> n]
Hole(n) == [k |-> "param", name |-> n]
Rest == [k |-> "wildcard", name |-> "r"]
MCPatterns ==
    {<<"GET", p>> : p \in {<<Lit("a")>>, <<Hole("x")>>, <<Rest>>, <<Lit("a"), Lit("b")>>,
                           <<Lit("a"), Hole("y")>>, <<Hole("z"), Lit("b")>>}}
    \cup {<<"HEAD", <<Lit(""), Lit("a"), Lit("")>>>>}
MCPrefixes == {<<Lit("a"), Lit("")>>, <<Hole("x")>>, <<Lit("")>>}
MCPaths == {<<>>, <<"a">>, <<"b">>, <<"a", "">>, <<"a", "b">>, <<"a", "a">>, <<"b", "b">>,
            <<"b", "a">>, <<"a", "a", "b">>, <<"b", "a", "c">>}

-----------------------------------------------------------------------------

MCInit ==
    /\ part \in {"server", "h2", "ws", "extract", "middleware", "router"}
    /\ IF part = "server" THEN Init
       ELSE conns = [c \in Clients |-> NewConn(<<>>, <<<<>>>>)] /\ srv = "loop"
            /\ active_conns = 0 /\ shutdown = FALSE /\ tls = FALSE
    /\ H2!Init
    /\ IF part = "ws" THEN Socket!WsInit
       ELSE ws = <<>> /\ script = <<>> /\ wire = <<>> /\ got = <<>> /\ out = <<>>
    /\ IF part = "extract" THEN Args!ExInit
       ELSE exSent = <<>> /\ exReq = <<>> /\ exTodo = <<>> /\ exGot = <<>> /\ exReply = ""
    /\ IF part = "middleware" THEN Layers!MwInit
       ELSE /\ mwChain = <<>> /\ mwAt = <<>> /\ mwDir = <<>> /\ mwReq = <<>> /\ mwKept = <<>>
            /\ mwResp = <<>> /\ mwFrom = <<>> /\ mwSaw = <<>> /\ mwCounter = <<>>
    /\ Tree!RInit

MCNext ==
    \/ part = "server" /\ Next /\ UNCHANGED <<part, h2Vars, wsVars, exVars, mwVars, treeVars>>
    \/ part = "h2" /\ H2!Next /\ UNCHANGED <<part, vars, wsVars, exVars, mwVars, treeVars>>
    \/ part = "ws" /\ Socket!WsNext /\ UNCHANGED <<part, vars, h2Vars, exVars, mwVars, treeVars>>
    \/ part = "extract" /\ Args!ExNext /\ UNCHANGED <<part, vars, h2Vars, wsVars, mwVars, treeVars>>
    \/ part = "middleware" /\ Layers!MwNext /\ UNCHANGED <<part, vars, h2Vars, wsVars, exVars, treeVars>>
    \/ part = "router" /\ Tree!RNext /\ UNCHANGED <<part, vars, h2Vars, wsVars, exVars, mwVars>>

\* with the fairness of HttpServer's and H2Connection's FairSpec in behaviours of those parts
MCSpec ==
    /\ MCInit /\ [][MCNext]_<<part, vars, h2Vars, wsVars, exVars, mwVars, treeVars>>
    /\ WF_vars(part = "server" /\ RootStep) /\ \A c \in Clients : FairTask(c)
    /\ WF_h2Vars(part = "h2" /\ H2!OwnStep)

-----------------------------------------------------------------------------
(* The properties of the other parts.                                        *)

\* The HPACK decoder's table is the client's and streams hold what it sent (decode).
HeadersExact == part = "h2" => H2!HeadersExact

\* No more DATA is sent than the client granted (send_data, FlowController).
SentWithinGrant == part = "h2" => H2!SentWithinGrant

\* A client's GOAWAY ends the connection (run_h2_connection).
GoawayEnds == H2!GoawayEnds

\* The callback receives the messages the client sent (WsStream::recv, handle_frame).
MessagesExact == part = "ws" => Socket!MessagesExact

\* Extractors hand the handler what the client encoded, or reject (FromRequest).
ExtractsExact == part = "extract" => Args!ExtractsExact

\* Every layer that a request passed on the way in acts on its response (Next::run).
LayersApplied == part = "middleware" => Layers!LayersApplied

\* A lookup finds the route that a search of all of them would prefer (Node::lookup).
RouteBest == part = "router" => Tree!RouteBest
=============================================================================
