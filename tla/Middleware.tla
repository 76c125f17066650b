---------------------------- MODULE Middleware ----------------------------
(* The middleware chain of moduvex-http (middleware/mod.rs), its built-in   *)
(* layers (middleware/builtin/: Cors, RequestId, Timeout, StaticFiles), the *)
(* TracingMiddleware of moduvex-starter-web and layers wrapped from a       *)
(* function. Requests run the chain concurrently; a request is at one frame *)
(* of the chain, on its way down to the handler or back up.                 *)
EXTENDS Http

CONSTANTS MwRequests,  \* the requests in flight
          Chains,      \* the chains a server may be configured with
          Inputs,      \* what may arrive: [method, path, id, traceparent]
          SeqWidth     \* bits of REQUEST_COUNTER (32 in the code)

VARIABLES mwChain,     \* the configured layers
          mwAt,        \* each request's frame: 0 before, Len+1 the handler
          mwDir,       \* "new", "down", "pending" (in the handler), "up", "done", "panicked"
          mwReq,       \* its input, with the extensions and the span context the layers set
          mwKept,      \* what each layer's future keeps for the way up
          mwResp,
          mwFrom,      \* the frame whose response this is
          mwSaw,       \* what the handler saw: <<>> or <<[id, span]>>
          mwCounter    \* REQUEST_COUNTER and the counter behind SpanId::generate

mwVars == <<mwChain, mwAt, mwDir, mwReq, mwKept, mwResp, mwFrom, mwSaw, mwCounter>>

Depth == Len(mwChain)
NoResponse == new_response(0)

MwInit ==
    /\ mwChain \in Chains
    /\ mwAt = [r \in MwRequests |-> 0]
    /\ mwDir = [r \in MwRequests |-> "new"]
    /\ mwReq \in [MwRequests -> {[input |-> i, ext |-> <<>>, ctx |-> <<>>] : i \in Inputs}]
    /\ mwKept = [r \in MwRequests |-> <<>>]
    /\ mwResp = [r \in MwRequests |-> NoResponse]
    /\ mwFrom = [r \in MwRequests |-> 0]
    /\ mwSaw = [r \in MwRequests |-> <<>>]
    /\ mwCounter = [id |-> 0, span |-> 1]

(*************************** the layers' helpers **************************)

\* hexadecimal timestamp and counter; the counter alone tells two ids apart
generate_id(seq) == <<"generated", seq>>
own_id(h) == IF h = <<>> \/ trim(h, {SP}) = <<>> THEN <<>> ELSE <<h>>

\* the number a part's text stands for: a plus sign may come first
Signed == "+t" :> "t" @@ "+p" :> "p"
from_str_radix(val) == IF val = "bad" THEN <<>> ELSE IF val \in DOMAIN Signed THEN <<Signed[val]>> ELSE <<val>>

\* a header of parts [len, val]: val 0 for all zeros, "bad" for what is not hexadecimal and
\* "cut" for 32 bytes with a character across the middle, where the slice panics
Sliced == <<[panic |-> TRUE]>>
parse_traceparent(parts) ==
    LET Is(i, n) == parts[i].len = n /\ from_str_radix(parts[i].val) # <<>>
        N(i) == from_str_radix(parts[i].val)[1]
    IN  IF Len(parts) # 4 \/ parts[1].val # "00" \/ parts[2].len # 32 THEN <<>>
        ELSE IF parts[2].val = "cut" THEN Sliced
        ELSE IF ~(Is(2, 32) /\ Is(3, 16) /\ Is(4, 2)) \/ "0" \in {N(2), N(3)} THEN <<>>
        ELSE <<[trace |-> N(2), parent |-> N(3), flags |-> N(4)]>>

\* a path below the prefix, and what the file system holds there
try_serve(path) ==
    CASE path = "/other" -> <<>>
      [] path \in {"/assets/none", "/assets/removed while read"} -> <<not_found>>
      [] path \in {"/assets/dir", "/assets/link out"} -> <<content_type(with_body(403, <<"403 Forbidden">>), "text/plain")>>
      [] path = "/assets/style.css" ->
           LET file == content_type(with_body(200, <<"file">>), "text/css")
           IN  <<[file EXCEPT !.headers = insert(insert(@, "content-length", <<"1">>), "cache-control", <<"public">>)]>>

apply_headers(resp) ==
    [resp EXCEPT !.headers = insert(insert(insert(@, "access-control-allow-origin", <<"*">>),
                                           "access-control-allow-methods", <<"GET">>),
                                    "access-control-allow-headers", <<"Accept">>)]
preflight == LET resp == apply_headers(new_response(204)) IN [resp EXCEPT !.headers = insert(@, "access-control-max-age", <<"86400">>)]
timed_out == content_type(with_body(408, <<"request timed out">>), "text/plain")

(***************************** the way down *******************************)

\* the frame answers without calling next.run
short_circuit(r, resp) ==
    /\ mwResp' = [mwResp EXCEPT ![r] = resp]
    /\ mwFrom' = [mwFrom EXCEPT ![r] = mwAt[r]]
    /\ mwDir' = [mwDir EXCEPT ![r] = "up"]
    /\ mwAt' = [mwAt EXCEPT ![r] = @ - 1]
    /\ UNCHANGED <<mwReq, mwKept, mwSaw, mwCounter>>

\* Next::run: the following layer, or the handler after the last
run(r, req, kept, counter) ==
    /\ mwAt' = [mwAt EXCEPT ![r] = @ + 1]
    /\ mwDir' = [mwDir EXCEPT ![r] = IF mwAt[r] >= Depth THEN "pending" ELSE "down"]
    /\ mwReq' = [mwReq EXCEPT ![r] = req]
    /\ mwKept' = [mwKept EXCEPT ![r] = Append(@, kept)]
    /\ mwSaw' = IF mwAt[r] >= Depth THEN [mwSaw EXCEPT ![r] = Append(@, [id |-> req.ext, ctx |-> req.ctx])] ELSE mwSaw
    /\ mwCounter' = counter
    /\ UNCHANGED <<mwResp, mwFrom>>

\* an empty chain calls the handler directly
dispatch(r) == mwDir[r] = "new" /\ run(r, mwReq[r], "dispatch", mwCounter) /\ UNCHANGED mwChain

Down(r, kind) == mwDir[r] = "down" /\ mwChain[mwAt[r]] = kind /\ UNCHANGED mwChain
cors_handle(r) ==
    /\ Down(r, "Cors")
    /\ IF mwReq[r].input.method = "OPTIONS" THEN short_circuit(r, preflight)
       ELSE run(r, mwReq[r], "none", mwCounter)
request_id_handle(r) ==
    LET own == own_id(mwReq[r].input.id)
        id == IF own # <<>> THEN <<"own", own[1]>> ELSE generate_id(mwCounter.id)
        counter == IF own # <<>> THEN mwCounter ELSE [mwCounter EXCEPT !.id = (@ + 1) % (2 ^ SeqWidth)]
    IN  Down(r, "RequestId") /\ run(r, [mwReq[r] EXCEPT !.ext = <<id>>], id, counter)
timeout_handle(r) == Down(r, "Timeout") /\ run(r, mwReq[r], "none", mwCounter)
static_files_handle(r) ==
    LET served == try_serve(mwReq[r].input.path)
    IN  Down(r, "StaticFiles")
        /\ IF served = <<>> THEN run(r, mwReq[r], "none", mwCounter) ELSE short_circuit(r, served[1])

SpanContext(trace)          == [trace |-> trace, spans |-> <<>>]
push_span(ctx, id)          == [ctx EXCEPT !.spans = Append(@, id)]
current_span_id(ctx)        == Last(ctx.spans)
with_span_context(ctx, req) == [req EXCEPT !.ctx = ctx]

\* a fresh trace is sampled; the server's span goes on top of the caller's. SpanContext::new
\* draws an identifier too, which is overwritten.
tracing_handle(r) ==
    LET tp == parse_traceparent(mwReq[r].input.traceparent)
        span == <<"span", mwCounter.span>>
        trace == IF tp = <<>> THEN <<"trace", mwCounter.span + 1>> ELSE <<"from", tp[1].trace>>
        fresh == SpanContext(trace)
        ctx == IF tp = <<>> THEN fresh ELSE push_span(fresh, <<"from", tp[1].parent>>)
        flags == IF tp = <<>> THEN "01" ELSE tp[1].flags
    IN  /\ Down(r, "Tracing") /\ tp # Sliced
        /\ run(r, with_span_context(push_span(ctx, span), mwReq[r]),
               [trace |-> trace, span |-> span, flags |-> flags], [mwCounter EXCEPT !.span = @ + 3])
\* the panic ends the request's future, with every layer around it
tracing_panics(r) ==
    /\ Down(r, "Tracing") /\ parse_traceparent(mwReq[r].input.traceparent) = Sliced
    /\ mwDir' = [mwDir EXCEPT ![r] = "panicked"]
    /\ UNCHANGED <<mwAt, mwReq, mwKept, mwResp, mwFrom, mwSaw, mwCounter>>
\* a function layer may answer itself or pass on
fn_handle(r) ==
    /\ Down(r, "Fn")
    /\ short_circuit(r, new_response(401)) \/ run(r, mwReq[r], "none", mwCounter)

(****************************** the way up ********************************)

\* the handler returns; it may have set headers a layer sets too
handler_returns(r, headers) ==
    /\ mwDir[r] = "pending"
    /\ mwResp' = [mwResp EXCEPT ![r] = [new_response(200) EXCEPT !.headers = headers]]
    /\ mwFrom' = [mwFrom EXCEPT ![r] = Depth + 1]
    /\ mwDir' = [mwDir EXCEPT ![r] = "up"]
    /\ mwAt' = [mwAt EXCEPT ![r] = Depth]
    /\ UNCHANGED <<mwChain, mwReq, mwKept, mwSaw, mwCounter>>

\* race polls the inner future first, so the sleep wins only while the handler is pending;
\* the inner future is dropped, with every layer below
race_times_out(r, i) ==
    /\ mwDir[r] = "pending" /\ mwChain[i] = "Timeout"
    /\ mwResp' = [mwResp EXCEPT ![r] = timed_out]
    /\ mwFrom' = [mwFrom EXCEPT ![r] = i]
    /\ mwDir' = [mwDir EXCEPT ![r] = "up"]
    /\ mwAt' = [mwAt EXCEPT ![r] = i - 1]
    /\ UNCHANGED <<mwChain, mwReq, mwKept, mwSaw, mwCounter>>

\* what frame i does to the response it gets from next.run; kept[1] is dispatch's
decorate_First(i, kept, resp) ==
    CASE mwChain[i] = "Cors" -> apply_headers(resp)
      [] mwChain[i] = "RequestId" -> IF contains(resp.headers, "x-request-id") THEN resp
                                     ELSE [resp EXCEPT !.headers = insert(@, "x-request-id", kept)]
      [] mwChain[i] = "Tracing" -> [resp EXCEPT !.headers = insert(@, "traceparent", <<kept.trace, kept.span, kept.flags>>)]
      [] OTHER -> resp
decorate(i, kept, resp) ==
    CASE mwChain[i] = "Cors" -> apply_headers(resp)
      [] mwChain[i] = "RequestId" -> [resp EXCEPT !.headers = insert(@, "x-request-id", kept)]
      [] mwChain[i] = "Tracing" -> [resp EXCEPT !.headers = insert(@, "traceparent", <<kept.trace, kept.span, kept.flags>>)]
      [] OTHER -> resp
return_through(r) ==
    /\ mwDir[r] = "up" /\ mwAt[r] > 0
    /\ mwResp' = [mwResp EXCEPT ![r] = decorate(mwAt[r], mwKept[r][mwAt[r] + 1], @)]
    /\ mwAt' = [mwAt EXCEPT ![r] = @ - 1]
    /\ UNCHANGED <<mwChain, mwDir, mwReq, mwKept, mwFrom, mwSaw, mwCounter>>
dispatch_returns(r) ==
    /\ mwDir[r] = "up" /\ mwAt[r] = 0
    /\ mwDir' = [mwDir EXCEPT ![r] = "done"]
    /\ UNCHANGED <<mwChain, mwAt, mwReq, mwKept, mwResp, mwFrom, mwSaw, mwCounter>>

HandlerHeaders == {<<>>, <<[name |-> "x-request-id", value |-> <<"handler", 0>>]>>}
MwNext == \E r \in MwRequests :
    \/ dispatch(r) \/ cors_handle(r) \/ request_id_handle(r) \/ timeout_handle(r) \/ static_files_handle(r)
    \/ tracing_handle(r) \/ tracing_panics(r) \/ fn_handle(r)
    \/ \E h \in HandlerHeaders : handler_returns(r, h)
    \/ \E i \in 1..Depth : race_times_out(r, i)
    \/ return_through(r) \/ dispatch_returns(r)

(******************************* properties *******************************)

Done(r) == mwDir[r] = "done"
\* the frames that got the response from next.run, and the outermost of them of a kind
Outer(r, kind) == {i \in 1..(mwFrom[r] - 1) : mwChain[i] = kind}
Outermost(r, kind) == CHOOSE i \in Outer(r, kind) : \A j \in Outer(r, kind) : i <= j
Kept(r, kind) == mwKept[r][Outermost(r, kind) + 1]

\* A response carries what every layer outside the one that produced it adds,
\* and nothing from the layers inside: the CORS headers, one request id (the
\* outermost layer's; the client's own or one no other request got) and one
\* traceparent, naming the caller's trace and the span the handler ran in, also when a layer
\* answers itself or a timeout drops the inner layers half way. The handler
\* runs at most once, and with one RequestId layer it sees the id the client gets. A
\* request whose traceparent makes the layer panic gets no response.
LayersApplied ==
    \A r \in MwRequests : Done(r) =>
        LET h == mwResp[r].headers
            Values(n) == {h[i].value : i \in {i \in 1..Len(h) : h[i].name = n}}
            One(n, v) == Cardinality({i \in 1..Len(h) : h[i].name = n}) = 1 /\ Values(n) = {v}
        IN  /\ (Outer(r, "Cors") # {} \/ (mwFrom[r] <= Depth /\ mwChain[mwFrom[r]] = "Cors")) = contains(h, "access-control-allow-origin")
            /\ Outer(r, "RequestId") # {} =>
                 /\ One("x-request-id", Kept(r, "RequestId"))
                 /\ \A q \in MwRequests \ {r} : (Outer(q, "RequestId") # {} /\ Kept(r, "RequestId")[1] = "generated")
                        => Kept(q, "RequestId") # Kept(r, "RequestId")
            /\ Outer(r, "Tracing") # {} =>
                 LET k == Kept(r, "Tracing")
                     tp == parse_traceparent(mwReq[r].input.traceparent)
                 IN  /\ One("traceparent", <<k.trace, k.span, k.flags>>)
                     /\ tp # <<>> => k.trace = <<"from", tp[1].trace>>
            /\ Len(mwSaw[r]) <= 1
            /\ (mwFrom[r] = Depth + 1 /\ mwSaw[r] # <<>> /\ Cardinality(Outer(r, "RequestId")) = 1)
                 => mwSaw[r][1].id = <<Kept(r, "RequestId")>>
            /\ (mwFrom[r] = Depth + 1 /\ Cardinality(Outer(r, "Tracing")) = 1)
                 => current_span_id(mwSaw[r][1].ctx) = Kept(r, "Tracing").span
=============================================================================
