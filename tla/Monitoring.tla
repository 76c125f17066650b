----------------------------- MODULE Monitoring -----------------------------
(***************************************************************************)
(* What monitoring reads of a process: the metrics and the health checks of *)
(* moduvex-observe.  The two parts share no state.                          *)
(***************************************************************************)
EXTENDS Integers, Sequences, FiniteSets, Functions

-----------------------------------------------------------------------------
(* Counters, gauges, histograms, the registry and the Prometheus exposition *)
(* (moduvex-observe metrics/, export/prometheus.rs). Every atomic access is *)
(* one step, so that observe and collect, which make several, interleave.   *)
(* Observed values are integers instead of floating-point numbers.          *)

CONSTANTS MtThreads,
          Bounds,       \* a histogram's bucket bounds, ascending
          Observed,     \* the values that may be observed
          Program,      \* the metrics the program registers, in the order it starts to
          MaxObserved

VARIABLES mtHist,      \* the histogram: buckets, count, sum
          mtPlain,     \* the values of the counter and the gauge
          mtEntries,   \* MetricsRegistry::entries, in order of registration
          mtLock,      \* the holder of the entries' mutex
          mtFrozen,    \* MetricsRegistry::frozen
          mtCall,      \* the call each thread is in
          mtStarted,   \* the observations begun, and those of them that have returned
          mtDone,
          mtScrape     \* what the last scrape rendered, with mtDone as it began, mtStarted as it ended

mtVars == <<mtHist, mtPlain, mtEntries, mtLock, mtFrozen, mtCall, mtStarted, mtDone, mtScrape>>

Inf == Len(Bounds) + 1
Idle == [at |-> "idle"]
Free == "free"
goto(t, c) == mtCall' = [mtCall EXCEPT ![t] = c]

MtInit ==
    /\ mtHist = [buckets |-> [j \in 1..Inf |-> 0], count |-> 0, sum |-> 0]
    /\ mtPlain = [counter |-> 0, gauge |-> 0]
    /\ mtEntries = <<>>
    /\ mtLock = Free
    /\ mtFrozen = FALSE
    /\ mtCall = [t \in MtThreads |-> Idle]
    /\ mtStarted = <<>>
    /\ mtDone = <<>>
    /\ mtScrape = <<>>

(******************************** observe *********************************)

\* the first bucket to increment: the first whose bound is not below the value
first_bucket(v) == IF \E j \in 1..Len(Bounds) : v <= Bounds[j]
                   THEN CHOOSE j \in 1..Len(Bounds) : v <= Bounds[j] /\ \A k \in 1..(j - 1) : v > Bounds[k]
                   ELSE Inf

observe(t, v) ==
    /\ mtCall[t] = Idle /\ Len(mtStarted) < MaxObserved
    /\ mtStarted' = Append(mtStarted, v)
    /\ goto(t, [at |-> "bucket", v |-> v, j |-> first_bucket(v)])
    /\ UNCHANGED <<mtHist, mtPlain, mtEntries, mtLock, mtFrozen, mtDone, mtScrape>>
observe_bucket(t) ==
    LET c == mtCall[t]
    IN  /\ c.at = "bucket"
        /\ mtHist' = [mtHist EXCEPT !.buckets[c.j] = @ + 1]
        /\ goto(t, IF c.j < Inf THEN [c EXCEPT !.j = @ + 1] ELSE [at |-> "count", v |-> c.v])
        /\ UNCHANGED <<mtPlain, mtEntries, mtLock, mtFrozen, mtStarted, mtDone, mtScrape>>
observe_count(t) ==
    /\ mtCall[t].at = "count"
    /\ mtHist' = [mtHist EXCEPT !.count = @ + 1]
    /\ goto(t, [at |-> "load", v |-> mtCall[t].v])
    /\ UNCHANGED <<mtPlain, mtEntries, mtLock, mtFrozen, mtStarted, mtDone, mtScrape>>
observe_load(t) ==
    /\ mtCall[t].at = "load"
    /\ goto(t, [at |-> "cas", v |-> mtCall[t].v, old |-> mtHist.sum])
    /\ UNCHANGED <<mtHist, mtPlain, mtEntries, mtLock, mtFrozen, mtStarted, mtDone, mtScrape>>

observe_cas_Stores(t) ==
    LET c == mtCall[t]
    IN  /\ c.at = "cas"
        /\ mtHist' = [mtHist EXCEPT !.sum = c.old + c.v]
        /\ mtDone' = Append(mtDone, c.v)
        /\ goto(t, Idle)
        /\ UNCHANGED <<mtPlain, mtEntries, mtLock, mtFrozen, mtStarted, mtScrape>>

\* compare_exchange_weak, which may also fail for no reason; the loop loads again
observe_cas(t) ==
    LET c == mtCall[t]
    IN  /\ c.at = "cas"
        /\ \/ /\ mtHist.sum = c.old
              /\ mtHist' = [mtHist EXCEPT !.sum = c.old + c.v]
              /\ mtDone' = Append(mtDone, c.v)
              /\ goto(t, Idle)
           \/ goto(t, [at |-> "load", v |-> c.v]) /\ UNCHANGED <<mtHist, mtDone>>
        /\ UNCHANGED <<mtPlain, mtEntries, mtLock, mtFrozen, mtStarted, mtScrape>>

(************************* counter, gauge, registry ***********************)

counter_inc(t) == mtCall[t] = Idle /\ mtPlain.counter = 0 /\ mtPlain' = [mtPlain EXCEPT !.counter = @ + 1]
                  /\ UNCHANGED <<mtHist, mtEntries, mtLock, mtFrozen, mtCall, mtStarted, mtDone, mtScrape>>
gauge_add(t, n) == mtCall[t] = Idle /\ mtPlain.gauge + n \in 0..1 /\ mtPlain' = [mtPlain EXCEPT !.gauge = @ + n]
                   /\ UNCHANGED <<mtHist, mtEntries, mtLock, mtFrozen, mtCall, mtStarted, mtDone, mtScrape>>

\* assert_not_frozen comes before the lock is taken
register(t) ==
    LET next == Len(mtEntries) + Cardinality({u \in MtThreads : mtCall[u].at = "push"}) + 1
    IN  /\ mtCall[t] = Idle /\ next <= Len(Program)
        /\ ~mtFrozen
        /\ goto(t, [at |-> "push", kind |-> Program[next]])
        /\ UNCHANGED <<mtHist, mtPlain, mtEntries, mtLock, mtFrozen, mtStarted, mtDone, mtScrape>>
register_push(t) ==
    /\ mtCall[t].at = "push" /\ mtLock = Free
    /\ mtEntries' = Append(mtEntries, mtCall[t].kind)
    /\ goto(t, Idle)
    /\ UNCHANGED <<mtHist, mtPlain, mtLock, mtFrozen, mtStarted, mtDone, mtScrape>>
freeze(t) ==
    /\ mtCall[t] = Idle /\ ~mtFrozen
    /\ mtFrozen' = TRUE
    /\ UNCHANGED <<mtHist, mtPlain, mtEntries, mtLock, mtCall, mtStarted, mtDone, mtScrape>>

\* collect: under the lock, one reader after the other
collect(t) ==
    /\ mtCall[t] = Idle /\ mtLock = Free /\ mtEntries # <<>>
    /\ mtLock' = t
    /\ goto(t, [at |-> "read", e |-> 1, k |-> 1, got |-> <<>>, before |-> mtDone])
    /\ UNCHANGED <<mtHist, mtPlain, mtEntries, mtFrozen, mtStarted, mtDone, mtScrape>>

\* the reads of one entry, in the order its reader makes them
Reads(kind) == IF kind = "histogram" THEN [k \in 1..(Inf + 2) |-> <<"bucket", "count", "sum">>[IF k <= Inf THEN 1 ELSE k - Inf + 1]]
               ELSE <<kind>>
collect_read(t) ==
    LET c == mtCall[t]
        reads == Reads(mtEntries[c.e])
        kind == reads[c.k]
        value == CASE kind = "bucket" -> mtHist.buckets[c.k]
                   [] kind = "count" -> mtHist.count
                   [] kind = "sum" -> mtHist.sum
                   [] OTHER -> mtPlain[kind]
        last == c.k = Len(reads)
    IN  /\ c.at = "read" /\ c.e <= Len(mtEntries)
        /\ goto(t, [c EXCEPT !.e = IF last THEN @ + 1 ELSE @, !.k = IF last THEN 1 ELSE @ + 1,
                             !.got = Append(@, [name |-> kind, le |-> IF kind = "bucket" THEN c.k ELSE 0, value |-> value])])
        /\ UNCHANGED <<mtHist, mtPlain, mtEntries, mtLock, mtFrozen, mtStarted, mtDone, mtScrape>>

\* PrometheusExporter::render: the values in the order of the text, the sum before the count
render(got) == [i \in 1..Len(got) |-> CASE got[i].name = "count" -> got[i + 1]
                                         [] got[i].name = "sum" -> got[i - 1]
                                         [] OTHER -> got[i]]

collect_end(t) ==
    LET c == mtCall[t]
    IN  /\ c.at = "read" /\ c.e > Len(mtEntries)
        /\ mtLock' = Free
        /\ mtScrape' = <<[lines |-> render(c.got), before |-> c.before, after |-> mtStarted]>>
        /\ goto(t, Idle)
        /\ UNCHANGED <<mtHist, mtPlain, mtEntries, mtFrozen, mtStarted, mtDone>>

MtNext == \E t \in MtThreads :
    \/ \E v \in Observed : observe(t, v)
    \/ observe_bucket(t) \/ observe_count(t) \/ observe_load(t) \/ observe_cas(t)
    \/ counter_inc(t) \/ \E n \in {-1, 1} : gauge_add(t, n)
    \/ register(t) \/ register_push(t) \/ freeze(t)
    \/ (mtScrape = <<>> /\ collect(t)) \/ collect_read(t) \/ collect_end(t)

(******************************* properties *******************************)

\* the observations of a sequence that bucket j counts
InBucket(obs, j) == Cardinality({i \in 1..Len(obs) : j = Inf \/ obs[i] <= Bounds[j]})
Total(obs) == FoldFunction(+, 0, obs)

\* What a scrape reports of a histogram lies between what had been observed when it began
\* and what had been begun when it ended, bucket by bucket, in count and in sum; with
\* no call under way the histogram is exact. No observation is lost or counted
\* twice, however the increments and the compare-and-swap loop interleave.
MetricsExact ==
    /\ mtScrape # <<>> =>
         \A i \in 1..Len(mtScrape[1].lines) :
            LET l == mtScrape[1].lines[i]
                Between(n, Of(_)) == Of(mtScrape[1].before) <= n /\ n <= Of(mtScrape[1].after)
            IN  CASE l.name = "bucket" -> Between(l.value, LAMBDA obs : InBucket(obs, l.le))
                  [] l.name = "count" -> Between(l.value, Len)
                  [] l.name = "sum" -> Between(l.value, Total)
                  [] OTHER -> TRUE
    /\ (\A t \in MtThreads : mtCall[t] = Idle) =>
         mtHist = [buckets |-> [j \in 1..Inf |-> InBucket(mtDone, j)], count |-> Len(mtDone), sum |-> Total(mtDone)]

-----------------------------------------------------------------------------
(* The health registry (moduvex-observe health/mod.rs): synchronous checks  *)
(* run under the registry's lock, asynchronous ones are started under it    *)
(* and awaited outside, one after the other; components change state and    *)
(* register meanwhile.                                                      *)

CONSTANTS SyncChecks, AsyncChecks, MaxChanges

VARIABLES hlState,   \* the state each component would report now
          hlSync,    \* sync_checks and async_checks, in order of registration
          hlAsync,
          hlCall,    \* the aggregation under way
          hlResult,  \* its answer
          hlChanges

hlVars == <<hlState, hlSync, hlAsync, hlCall, hlResult, hlChanges>>

\* A component registers as one kind of check.
ASSUME HealthAssumption == SyncChecks \cap AsyncChecks = {}

Statuses == {"Healthy", "Degraded", "Unhealthy"}
NoCall == [at |-> "none"]

HlInit ==
    /\ hlState = [c \in SyncChecks \cup AsyncChecks |-> "Healthy"]
    /\ hlSync = <<>> /\ hlAsync = <<>>
    /\ hlCall = NoCall /\ hlResult = <<>> /\ hlChanges = 0

\* a component's health changes (external)
Change(c, s) ==
    /\ hlState[c] # s /\ hlChanges < MaxChanges
    /\ hlState' = [hlState EXCEPT ![c] = s] /\ hlChanges' = hlChanges + 1
    /\ UNCHANGED <<hlSync, hlAsync, hlCall, hlResult>>

health_register(c) ==
    /\ c \notin Range(hlSync)
    /\ hlSync' = Append(hlSync, c)
    /\ UNCHANGED <<hlState, hlAsync, hlCall, hlResult, hlChanges>>
register_async(c) ==
    /\ c \notin Range(hlAsync)
    /\ hlAsync' = Append(hlAsync, c)
    /\ UNCHANGED <<hlState, hlSync, hlCall, hlResult, hlChanges>>

Result(c) == [name |-> c, status |-> hlState[c]]
Probed(checks) == [i \in 1..Len(checks) |-> Result(checks[i])]

\* the first Unhealthy result, else the last Degraded one, else Healthy
aggregate_results_LastWins(results) ==
    LET bad == {i \in 1..Len(results) : results[i].status # "Healthy"}
    IN  IF bad = {} THEN [status |-> "Healthy", by |-> "none"]
        ELSE LET i == CHOOSE i \in bad : \A j \in bad : i >= j IN [status |-> results[i].status, by |-> results[i].name]
aggregate_results(results) ==
    LET At(s) == {i \in 1..Len(results) : results[i].status = s}
    IN  CASE At("Unhealthy") # {} ->
               [status |-> "Unhealthy", by |-> results[CHOOSE i \in At("Unhealthy") : \A j \in At("Unhealthy") : i <= j].name]
          [] At("Unhealthy") = {} /\ At("Degraded") # {} ->
               [status |-> "Degraded", by |-> results[CHOOSE i \in At("Degraded") : \A j \in At("Degraded") : i >= j].name]
          [] OTHER -> [status |-> "Healthy", by |-> "none"]

answer(results) == hlResult' = <<[answer |-> aggregate_results(results), seen |-> results, asked |-> hlCall.asked]>> /\ hlCall' = NoCall

\* aggregate: the synchronous checks only
aggregate ==
    /\ hlCall = NoCall
    /\ hlResult' = <<[answer |-> aggregate_results(Probed(hlSync)), seen |-> Probed(hlSync), asked |-> Range(hlSync)]>>
    /\ UNCHANGED <<hlState, hlSync, hlAsync, hlCall, hlChanges>>

\* aggregate_async over check_all_async; asked is what was registered as it began
check_all ==
    /\ hlCall = NoCall
    /\ hlCall' = [at |-> "collect", results |-> Probed(hlSync), asked |-> Range(hlSync \o hlAsync)]
    /\ UNCHANGED <<hlState, hlSync, hlAsync, hlResult, hlChanges>>
collect_futures ==
    /\ hlCall.at = "collect"
    /\ hlCall' = [at |-> "await", results |-> hlCall.results, asked |-> hlCall.asked, futures |-> hlAsync]
    /\ UNCHANGED <<hlState, hlSync, hlAsync, hlResult, hlChanges>>
await_next ==
    /\ hlCall.at = "await"
    /\ IF hlCall.futures = <<>> THEN answer(hlCall.results)
       ELSE /\ hlCall' = [hlCall EXCEPT !.futures = Tail(@), !.results = Append(@, Result(hlCall.futures[1]))]
            /\ UNCHANGED hlResult
    /\ UNCHANGED <<hlState, hlSync, hlAsync, hlChanges>>

HlNext ==
    \/ \E c \in DOMAIN hlState, s \in Statuses : Change(c, s)
    \/ \E c \in SyncChecks : health_register(c)
    \/ \E c \in AsyncChecks : register_async(c)
    \/ aggregate \/ check_all \/ collect_futures \/ await_next

HlSpec == HlInit /\ [][HlNext]_hlVars

\* The answer of an aggregation is the worst state any of its checks reported
\* when it ran, it names a check that reported that state, and every check
\* registered before the call took part exactly once.
AggregateIsWorst ==
    hlResult # <<>> =>
        LET r == hlResult[1]
            reported == {r.seen[i].status : i \in 1..Len(r.seen)}
            Worst == IF "Unhealthy" \in reported THEN "Unhealthy" ELSE IF "Degraded" \in reported THEN "Degraded" ELSE "Healthy"
        IN  /\ r.answer.status = Worst
            /\ Worst # "Healthy" => [name |-> r.answer.by, status |-> Worst] \in Range(r.seen)
            /\ \A c \in r.asked : Cardinality({i \in 1..Len(r.seen) : r.seen[i].name = c}) = 1
=============================================================================
