------------------------------- MODULE Tracing -------------------------------
(***************************************************************************)
(* What moduvex-observe records of a running program: spans and log events. *)
(* The two parts share no state.                                            *)
(***************************************************************************)
EXTENDS Integers, Sequences, FiniteSets, SequencesExt, Bitwise, TLC

-----------------------------------------------------------------------------
(* Trace and span identifiers and the span lifecycle (moduvex-observe       *)
(* trace/mod.rs, trace/span.rs). An identifier mixes a process-wide         *)
(* counter, advanced by fetch_add, with the wall clock, read afterwards:    *)
(* other threads run between the two. Words have W bits instead of 64.      *)

CONSTANTS TrThreads, W, MaxSpans, MaxClock

VARIABLES trClock,    \* nanoseconds of SystemTime::now
          trCounter,  \* COUNTER
          trCall,     \* the call each thread is in
          trSpans     \* the spans created so far

trVars == <<trClock, trCounter, trCall, trSpans>>

Word == 2 ^ W
\* splitmix64, its shifts and odd factors cut to W bits
mix(x0) ==
    LET x1 == x0 ^^ shiftR(x0, 2)
        x2 == (x1 * 9) % Word
        x3 == x2 ^^ shiftR(x2, 2)
        x4 == (x3 * 11) % Word
    IN  x4 ^^ shiftR(x4, 3)

TraceId_generate_NoLow(seq, now) == LET hi == mix((now + seq) % Word) IN <<hi, mix(hi)>>
TraceId_generate(seq, now) ==
    LET hi == mix((now + seq) % Word)
    IN  <<hi, mix((hi + seq) % Word)>>
SpanId_generate(seq, now) == mix((now + seq) % Word)

Idle == [at |-> "idle"]

TrInit ==
    /\ trClock = 0
    /\ trCounter = 1
    /\ trCall = [t \in TrThreads |-> Idle]
    /\ trSpans = <<>>

\* time passes
Clock == trClock < MaxClock /\ trClock' = trClock + 1 /\ UNCHANGED <<trCounter, trCall, trSpans>>

\* Span::new generates a trace id, then a span id; child takes over its parent's trace id
new(t) ==
    /\ trCall[t] = Idle
    /\ trCall' = [trCall EXCEPT ![t] = [at |-> "trace", seq |-> trCounter]]
    /\ trCounter' = (trCounter + 1) % Word
    /\ UNCHANGED <<trClock, trSpans>>
new_trace(t) ==
    /\ trCall[t].at = "trace"
    /\ trCall' = [trCall EXCEPT ![t] = [at |-> "trace done", id |-> TraceId_generate(@.seq, trClock)]]
    /\ UNCHANGED <<trClock, trCounter, trSpans>>
new_span(t) ==
    /\ trCall[t].at = "trace done"
    /\ trCall' = [trCall EXCEPT ![t] = [at |-> "span", seq |-> trCounter, trace |-> @.id, parent |-> 0]]
    /\ trCounter' = (trCounter + 1) % Word
    /\ UNCHANGED <<trClock, trSpans>>
child(t, p) ==
    /\ trCall[t] = Idle
    /\ trCall' = [trCall EXCEPT ![t] = [at |-> "span", seq |-> trCounter, trace |-> trSpans[p].trace, parent |-> p]]
    /\ trCounter' = (trCounter + 1) % Word
    /\ UNCHANGED <<trClock, trSpans>>
finish_span(t) ==
    LET c == trCall[t]
    IN  /\ c.at = "span"
        /\ trSpans' = Append(trSpans, [trace |-> c.trace, id |-> SpanId_generate(c.seq, trClock), parent |-> c.parent,
                                       start |-> trClock, end |-> <<>>])
        /\ trCall' = [trCall EXCEPT ![t] = Idle]
        /\ UNCHANGED <<trClock, trCounter>>

\* close, called directly and by the guard's drop: only the first one sets the end
close(s) ==
    /\ trSpans[s].end = <<>>
    /\ trSpans' = [trSpans EXCEPT ![s].end = <<trClock>>]
    /\ UNCHANGED <<trClock, trCounter, trCall>>
\* calls under way and spans made stay within MaxSpans
Room == Len(trSpans) + Cardinality({t \in TrThreads : trCall[t] # Idle}) < MaxSpans
TrNext ==
    \/ Clock
    \/ \E t \in TrThreads :
          \/ Room /\ (new(t) \/ \E p \in 1..Len(trSpans) : child(t, p))
          \/ new_trace(t) \/ new_span(t) \/ finish_span(t)
    \/ \E s \in 1..Len(trSpans) : close(s)

RECURSIVE root(_)
root(s) == IF trSpans[s].parent = 0 THEN s ELSE root(trSpans[s].parent)

\* Two spans carry one trace id exactly when they descend from one root span:
\* children inherit the id, and no two calls of TraceId::generate, however
\* their counter and clock reads interleave, agree on it.
TraceIsRoot ==
    \A s1, s2 \in 1..Len(trSpans) : (trSpans[s1].trace = trSpans[s2].trace) <=> (root(s1) = root(s2))

-----------------------------------------------------------------------------
(* Structured logging (moduvex-observe log/, export/stdout.rs and the       *)
(* macros and init_logging of lib.rs): a global minimum level, a subscriber *)
(* that can be installed once, and the formatters it writes lines with. The *)
(* level gate, the subscriber slot and stderr are shared by all threads; a  *)
(* call of log_event reads the gate before the slot. Text is a sequence of  *)
(* characters.                                                              *)

CONSTANTS LgThreads, Messages, MaxEvents,
          Envs        \* values of MODUVEX_LOG and MODUVEX_LOG_FORMAT, [level, format]

VARIABLES lgMin,      \* GLOBAL_MIN_LEVEL
          lgSub,      \* GLOBAL_SUBSCRIBER: <<>> or <<subscriber>>
          lgCall,     \* the call each thread is in
          lgOut,      \* the lines written to stderr
          lgEvents    \* the events whose log_event has returned

lgVars == <<lgMin, lgSub, lgCall, lgOut, lgEvents>>

Trace == 0
Info == 2
Error == 4
Levels == 0..4

parse_level(s) ==
    CASE s \in {"trace", "Trace"} -> <<0>> [] s = "debug" -> <<1>> [] s = "info" -> <<2>>
      [] s \in {"warn", "WARNING"} -> <<3>> [] s = "error" -> <<4>> [] OTHER -> <<>>
\* a level above Error's number reads as Error
min_level == IF lgMin \in 0..3 THEN lgMin ELSE Error

(******************************* formatting *******************************)

escape_json_Quotes(s) == FlattenSeq([i \in 1..Len(s) |-> IF s[i] = "\"" THEN <<"\\", "\"">> ELSE <<s[i]>>])
Escapes == "\"" :> "\"" @@ "\\" :> "\\" @@ "\n" :> "n" @@ "\r" :> "r" @@ "\t" :> "t"
escape_json(s) ==
    FlattenSeq([i \in 1..Len(s) |-> IF s[i] \in DOMAIN Escapes THEN <<"\\", Escapes[s[i]]>> ELSE <<s[i]>>])

\* the formatters: a JSON object or the bare text, then a newline
json_format(e) == <<"{", "level", e.level, "\"">> \o escape_json(e.message) \o <<"\"", "}", "\n">>
pretty_format(e) == <<e.level>> \o e.message \o <<"\n">>
Label == <<"TRACE", "DEBUG", "INFO", "WARN", "ERROR">>
now(l, m) == [level |-> Label[l + 1], message |-> m]

\* a JSON reader on the message of a written line: the text it stands for, <<>> if it is not a string
Closing(s) == {i \in 1..Len(s) : s[i] = "\"" /\ Cardinality({k \in 1..(i - 1) : \A j \in k..(i - 1) : s[j] = "\\"}) % 2 = 0}
read_back(line) ==
    LET s == SubSeq(line, 5, Len(line))
        end == CHOOSE i \in Closing(s) : \A j \in Closing(s) : i <= j
        body == SubSeq(s, 1, end - 1)
        escaped == {i \in 1..Len(body) : Cardinality({k \in 1..(i - 1) : \A j \in k..(i - 1) : body[j] = "\\"}) % 2 = 1}
        Char(i) == IF i \in escaped THEN CHOOSE c \in DOMAIN Escapes : Escapes[c] = body[i] ELSE body[i]
        kept == SetToSortSeq({i \in 1..Len(body) : body[i] # "\\" \/ i \in escaped}, <)
    IN  IF Closing(s) = {} \/ SubSeq(s, end + 1, Len(s)) # <<"}", "\n">> \/ "\n" \in ToSet(body) THEN <<>>
        ELSE <<[k \in 1..Len(kept) |-> Char(kept[k])]>>

(********************************* calls **********************************)

goto(t, c) == lgCall' = [lgCall EXCEPT ![t] = c]

LgInit ==
    /\ lgMin = Trace /\ lgSub = <<>> /\ lgOut = <<>> /\ lgEvents = <<>>
    /\ lgCall = [t \in LgThreads |-> Idle]

from_env(env) ==
    [min_level |-> IF parse_level(env.level) = <<>> THEN Info ELSE parse_level(env.level)[1],
     format |-> IF env.format \in {"json", "JSON"} THEN "Json" ELSE "Pretty"]

\* the gate is raised first, the subscriber installed second; a taken slot is no error
init_logging(t, env) ==
    /\ lgCall[t] = Idle
    /\ lgMin' = from_env(env).min_level
    /\ goto(t, [at |-> "install", sub |-> from_env(env)])
    /\ UNCHANGED <<lgSub, lgOut, lgEvents>>
set_global_subscriber(t) ==
    /\ lgCall[t].at = "install"
    /\ lgSub' = IF lgSub = <<>> THEN <<lgCall[t].sub>> ELSE lgSub
    /\ goto(t, Idle)
    /\ UNCHANGED <<lgMin, lgOut, lgEvents>>

set_min_level(t, l) ==
    /\ lgCall[t] = Idle
    /\ lgMin' = l
    /\ UNCHANGED <<lgSub, lgCall, lgOut, lgEvents>>

\* the event is built only above the gate; open says whether a subscriber was there throughout
log_event(t, l, m) ==
    /\ lgCall[t] = Idle
    /\ Len(lgEvents) + Cardinality({u \in LgThreads : lgCall[u].at = "dispatch"}) < MaxEvents
    /\ IF l >= min_level THEN goto(t, [at |-> "dispatch", level |-> l, message |-> m, open |-> lgSub # <<>>])
                              /\ UNCHANGED lgEvents
       ELSE UNCHANGED lgCall /\ lgEvents' = Append(lgEvents, [level |-> l, message |-> m, open |-> FALSE])
    /\ UNCHANGED <<lgMin, lgSub, lgOut>>

\* LogSubscriber::on_event: its own level, then a line under stderr's lock
on_event(sub, l, m) ==
    IF l < sub.min_level THEN <<>>
    ELSE <<IF sub.format = "Json" THEN json_format(now(l, m)) ELSE pretty_format(now(l, m))>>
dispatch(t) ==
    LET c == lgCall[t]
    IN  /\ c.at = "dispatch"
        /\ lgOut' = lgOut \o (IF lgSub = <<>> THEN <<>> ELSE on_event(lgSub[1], c.level, c.message))
        /\ lgEvents' = Append(lgEvents, [level |-> c.level, message |-> c.message, open |-> c.open])
        /\ goto(t, Idle)
        /\ UNCHANGED <<lgMin, lgSub>>

LgNext == \E t \in LgThreads :
    \/ \E env \in Envs : init_logging(t, env)
    \/ set_global_subscriber(t)
    \/ \E l \in {Trace, Error} : set_min_level(t, l)
    \/ \E l \in {Trace, Info, Error}, m \in Messages : log_event(t, l, m)
    \/ dispatch(t)

(******************************* properties *******************************)

Count(s, P(_)) == Cardinality({i \in 1..Len(s) : P(s[i])})

\* Under a JSON subscriber every event that passed the gate and the
\* subscriber's own level is written as one line from which a JSON reader gets
\* the message back, as often as it was logged, whatever quotes, backslashes
\* and line breaks it holds; a line below the subscriber's level is never
\* written.
LogLinesExact ==
    (lgSub # <<>> /\ lgSub[1].format = "Json") =>
        /\ \A i \in 1..Len(lgOut) : read_back(lgOut[i]) # <<>>
        /\ \A m \in Messages : \A l \in Levels :
              LET lines == Count(lgOut, LAMBDA o : o[3] = Label[l + 1] /\ read_back(o) = <<m>>)
                  Logged(need) == Count(lgEvents, LAMBDA e : e.level = l /\ e.message = m /\ (need => e.open))
              IN  IF l < lgSub[1].min_level THEN lines = 0
                  ELSE Logged(TRUE) <= lines /\ lines <= Logged(FALSE)
=============================================================================
