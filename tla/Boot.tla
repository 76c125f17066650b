-------------------------------- MODULE Boot --------------------------------
(***************************************************************************)
(* How an application is wired: the type-state builder and its compile-time *)
(* dependency check, the registry's priority order, the on_start hooks that *)
(* exchange singletons through AppContext's TypeMap, the errors they return *)
(* with context attached.  What a hook does is user code: here it requires  *)
(* the singletons of its dependencies, then inserts its own.                *)
(*                                                                          *)
(* The registry's other order, topological_sort, is a machine of its own at *)
(* the end: Kahn's algorithm, one step per module taken from the heap.      *)
(* There an entry is named by its index 1..RgN in registration order.       *)
(***************************************************************************)
EXTENDS Integers, Sequences, FiniteSets, Functions

CONSTANTS BdModules,   \* module types
          MaxRequired, \* dependencies of one module
          Ranks,       \* priorities
          Types,       \* types of singletons
          Raised,      \* the errors a hook may raise
          MaxContext,  \* contexts attached to one error
          RgN,           \* registered modules
          RgPriorities,  \* the priorities they may have
          RgDeps         \* bound: declared dependencies per module

VARIABLES
    Required,     \* DependsOn::Required of each module
    rank,         \* Module::priority
    Provides,     \* the type of the singleton a module inserts
    bdState,      \* the builder's type-state, then "boot", "ready" or "failed"
    bdEntries,    \* module_entries, later the registry's entries
    bdNext,       \* the entry whose on_start is next
    singletons,   \* AppContext.singletons: type -> the module that inserted the value
    bdFound,      \* what the require() calls of each module's on_start returned
    bdError,      \* the error on its way up, [None] if there is none
    bdRoot        \* that error as it was raised

bdApp  == <<Required, rank, Provides>>
bdVars == <<bdApp, bdState, bdEntries, bdNext, singletons, bdFound, bdError, bdRoot>>

NoError == [variant |-> "none"]

\* what a ModuvexError answers, by variant
Answers == [Infra     |-> {"variant", "message", "retryable", "retry_after"},
            Domain    |-> {"variant", "message", "code", "status", "public"},
            Other     |-> {"variant", "message"},
            Config    |-> {"variant", "message", "key"},
            Lifecycle |-> {"variant", "message", "module"}]

----------------------------------------------------------------------------
\* the compile-time check

\* the type-list of the modules registered: each call of module() adds one in front
type_list(entries) == [i \in 1..Len(entries) |-> entries[Len(entries) - i + 1]]

\* ContainsModule: Here, or There in the tail
ContainsModule(list, m) == \E i \in DOMAIN list : list[i] = m

\* ContainsAll
ContainsAll(list, required) == \A m \in required : ContainsModule(list, m)

\* variant: every module sees the whole list
AllDepsOk_WholeList(list) == \A i \in DOMAIN list : ContainsAll(list, Required[list[i]])

\* AllDepsOk: a module's dependencies are in the list that starts with it, i.e. among
\* the modules registered before it
AllDepsOk(list) ==
    \A i \in DOMAIN list : ContainsAll(SubSeq(list, i, Len(list)), Required[list[i]])

----------------------------------------------------------------------------
\* TypeMap and errors

\* TypeMap::insert and insert_arc: an earlier value of the type is overwritten
insert(map, t, value) == [k \in DOMAIN map \cup {t} |-> IF k = t THEN value ELSE map[k]]

\* TypeMap::get
get(map, t) == IF t \in DOMAIN map THEN <<map[t]>> ELSE <<>>

\* ConfigError::new
ConfigError(message) == [variant |-> "Config", key |-> "None", message |-> message]

\* LifecycleError::new, in_module
LifecycleError(message, module) ==
    [variant |-> "Lifecycle", module |-> module, message |-> message]

\* From<io::Error>
from_io(kind) ==
    [variant |-> "Infra", message |-> <<kind>>, retry_after |-> 0,
     retryable |-> kind \in {"ConnectionReset", "ConnectionAborted", "TimedOut", "WouldBlock"}]

\* AppContext::require
require(map, t) == IF get(map, t) = <<>> THEN ConfigError(<<"missing">>) ELSE NoError

\* Display of ModuvexError, as the texts it strings together
to_string(e) == <<e.variant>> \o e.message

\* ContextError, shown as the context and then its source
ContextError(e, context) == [variant |-> "Other", message |-> <<context>> \o to_string(e)]

\* the wrappers that go on answering what the error answered
InfraContextError(e, context) ==
    [variant |-> "Infra", message |-> ContextError(e, context).message,
     retryable |-> e.retryable, retry_after |-> e.retry_after]
DomainContextError(e, context) ==
    [variant |-> "Domain", message |-> ContextError(e, context).message,
     code |-> e.code, status |-> e.status, public |-> e.public]

\* wrap_with_context: a ConfigError is rebuilt from its text and loses its key, a
\* LifecycleError keeps its module
wrap_with_context(e, context) ==
    CASE e.variant = "Infra"     -> InfraContextError(e, context)
      [] e.variant = "Domain"    -> DomainContextError(e, context)
      [] e.variant = "Other"     -> ContextError(e, context)
      [] e.variant = "Config"    -> ConfigError(<<context>> \o to_string(e))
      [] e.variant = "Lifecycle" -> LifecycleError(<<context>> \o e.message, e.module)

----------------------------------------------------------------------------

\* A hook's own errors are ModuvexErrors, and none of them is the one that require() returns.
ASSUME BootAssumption ==
    /\ Ranks \subseteq Int
    /\ \A e \in Raised : /\ e.variant \in DOMAIN Answers /\ DOMAIN e = Answers[e.variant]
                         /\ e # ConfigError(<<"missing">>)

\* Moduvex::new, AppContext::new
BdInit ==
    /\ Required \in [BdModules -> {D \in SUBSET BdModules : Cardinality(D) <= MaxRequired}]
    /\ rank \in [BdModules -> Ranks]
    /\ Provides \in [BdModules -> Types]
    /\ bdState = "Unconfigured" /\ bdEntries = <<>> /\ bdNext = 1
    /\ singletons = <<>> /\ bdFound = [m \in BdModules |-> <<>>]
    /\ bdError = NoError /\ bdRoot = NoError

\* Moduvex::config: only the type changes
config ==
    /\ bdState = "Unconfigured" /\ bdState' = "Configured"
    /\ UNCHANGED <<bdApp, bdEntries, bdNext, singletons, bdFound, bdError, bdRoot>>

\* Moduvex::module
module(m) ==
    /\ bdState = "Configured" /\ m \notin Range(bdEntries)
    /\ bdEntries' = Append(bdEntries, m)
    /\ UNCHANGED <<bdApp, bdState, bdNext, singletons, bdFound, bdError, bdRoot>>

\* ModuleRegistry::sort_by_priority: highest rank first, stable; there is one such sequence
sort_by_rank(list) ==
    LET before(i, j) == \/ rank[list[i]] > rank[list[j]]
                        \/ rank[list[i]] = rank[list[j]] /\ i < j
    IN  {[i \in DOMAIN list |-> list[p[i]]] :
            p \in {p \in Bijection(DOMAIN list, DOMAIN list) :
                     \A i, j \in DOMAIN list : i < j => before(p[i], p[j])}}

\* Moduvex::run: compiles only with AllDepsOk; the registry is sorted
run ==
    /\ bdState = "Configured" /\ AllDepsOk(type_list(bdEntries))
    /\ bdEntries' \in sort_by_rank(bdEntries)
    /\ bdState' = "boot"
    /\ UNCHANGED <<bdApp, bdNext, singletons, bdFound, bdError, bdRoot>>

\* the next module's on_start: its require() calls, and its insert() when all succeed
on_start ==
    /\ bdState = "boot" /\ bdNext <= Len(bdEntries) /\ bdError = NoError
    /\ LET m    == bdEntries[bdNext]
           lost == {d \in Required[m] : require(singletons, Provides[d]) # NoError}
       IN  IF lost = {}
           THEN /\ bdFound' = [bdFound EXCEPT ![m] =
                                 [d \in Required[m] |-> singletons[Provides[d]]]]
                /\ singletons' = insert(singletons, Provides[m], m)
                /\ bdNext' = bdNext + 1
                /\ UNCHANGED <<bdError, bdRoot>>
           ELSE /\ bdError' = ConfigError(<<"missing">>) /\ bdRoot' = bdError'
                /\ UNCHANGED <<bdFound, singletons, bdNext>>
    /\ UNCHANGED <<bdApp, bdState, bdEntries>>

\* a hook fails on its own account; `?` converts an io::Error
fail ==
    /\ bdState = "boot" /\ bdNext <= Len(bdEntries) /\ bdError = NoError
    /\ \E e \in Raised \cup {from_io("TimedOut"), from_io("NotFound")} :
         bdError' = e /\ bdRoot' = e
    /\ UNCHANGED <<bdApp, bdState, bdEntries, bdNext, singletons, bdFound>>

\* Context::context and with_context, on the way up
context(msg) ==
    /\ bdError # NoError /\ bdState = "boot"
    /\ Len(bdError.message) < Len(bdRoot.message) + 2 * MaxContext
    /\ bdError' = wrap_with_context(bdError, msg)
    /\ UNCHANGED <<bdApp, bdState, bdEntries, bdNext, singletons, bdFound, bdRoot>>

\* LifecycleEngine::run: a hook's error becomes a LifecycleError that names the module
start_failed ==
    /\ bdState = "boot" /\ bdError # NoError
    /\ bdError' = LifecycleError(to_string(bdError), bdEntries[bdNext])
    /\ bdState' = "failed"
    /\ UNCHANGED <<bdApp, bdEntries, bdNext, singletons, bdFound, bdRoot>>

\* every module runs: requests are served
ready ==
    /\ bdState = "boot" /\ bdNext > Len(bdEntries) /\ bdState' = "ready"
    /\ UNCHANGED <<bdApp, bdEntries, bdNext, singletons, bdFound, bdError, bdRoot>>

BdNext ==
    \/ config \/ run \/ on_start \/ fail \/ start_failed \/ ready
    \/ \E m \in BdModules : module(m)
    \/ context("while")

BdSpec == BdInit /\ [][BdNext]_bdVars

----------------------------------------------------------------------------

\* A boot fails for want of a singleton only when a module outranks one it depends on
\* without another module of that type being up; the error names the module that asked.
\* A program that compiles has every dependency registered earlier, so equal ranks are
\* safe; and what a hook finds is the value of the last module to provide that type. An
\* error on its way up answers as it did when it was raised, whatever contexts are attached,
\* but for a ConfigError's key (wrap_with_context).
BootWired ==
    LET at(m) == CHOOSE i \in DOMAIN bdEntries : bdEntries[i] = m
        before(m, t) == {i \in 1..at(m) - 1 : Provides[bdEntries[i]] = t}
    IN  /\ bdState \in {"boot", "ready", "failed"} =>
             \A i \in 1..bdNext - 1 : \A d \in Required[bdEntries[i]] :
                 LET m == bdEntries[i]
                 IN  bdFound[m][d] = bdEntries[CHOOSE j \in before(m, Provides[d]) :
                                        \A k \in before(m, Provides[d]) : k <= j]
        /\ bdState = "failed" /\ bdRoot = ConfigError(<<"missing">>) =>
             \E d \in Required[bdError.module] :
                 rank[d] < rank[bdError.module] \/ d = bdError.module
        /\ bdState = "boot" =>
             /\ DOMAIN bdError = DOMAIN bdRoot
             /\ \A answer \in DOMAIN bdRoot \ {"message", "key"} : bdError[answer] = bdRoot[answer]

----------------------------------------------------------------------------
\* ModuleRegistry::topological_sort

ASSUME RegistryAssumption == RgN \in Nat

RgModules == 1..RgN

VARIABLES
    rgDeps,      \* ModuleEntry.deps, as the set of their indices
    rgPriority,  \* ModuleEntry.priority
    in_degree,
    heap,        \* the indices in the BinaryHeap
    sorted,      \* sorted_indices
    rgResult     \* what topological_sort returned

rgVars == <<rgDeps, rgPriority, in_degree, heap, sorted, rgResult>>

Dependents(d, m) == {n \in RgModules : m \in d[n]}

\* the state after the adjacency and the heap are built
RgInit ==
    /\ rgDeps \in [RgModules -> {D \in SUBSET RgModules : Cardinality(D) <= RgDeps}]
    /\ rgPriority \in [RgModules -> RgPriorities]
    /\ in_degree = [m \in RgModules |-> Cardinality(rgDeps[m])]
    /\ heap = {m \in RgModules : rgDeps[m] = {}}
    /\ sorted = <<>> /\ rgResult = "none"

\* BinaryHeap's order on (priority, index)
Above(m, n) == rgPriority[m] > rgPriority[n] \/ (rgPriority[m] = rgPriority[n] /\ m > n)

\* variant: every dependent becomes ready at once
pop_Eager(m) ==
    /\ m \in heap /\ \A n \in heap \ {m} : Above(m, n)
    /\ sorted' = Append(sorted, m)
    /\ in_degree' = [n \in RgModules |-> IF m \in rgDeps[n] THEN in_degree[n] - 1 ELSE in_degree[n]]
    /\ heap' = (heap \ {m}) \cup Dependents(rgDeps, m)
    /\ UNCHANGED <<rgDeps, rgPriority, rgResult>>

\* one turn of the while loop
pop(m) ==
    /\ m \in heap /\ \A n \in heap \ {m} : Above(m, n)
    /\ sorted' = Append(sorted, m)
    /\ in_degree' = [n \in RgModules |-> IF m \in rgDeps[n] THEN in_degree[n] - 1 ELSE in_degree[n]]
    /\ heap' = (heap \ {m}) \cup {n \in Dependents(rgDeps, m) : in_degree'[n] = 0}
    /\ UNCHANGED <<rgDeps, rgPriority, rgResult>>

finish ==
    /\ heap = {} /\ rgResult = "none"
    /\ rgResult' = IF Len(sorted) = RgN THEN "ok" ELSE "cycle"
    /\ UNCHANGED <<rgDeps, rgPriority, in_degree, heap, sorted>>

RgNext == (\E m \in RgModules : pop(m)) \/ finish

RgSpec == RgInit /\ [][RgNext]_rgVars

-----------------------------------------------------------------------------

\* A set of modules each of which waits for another of the set can never be started.
Cyclic == \E S \in (SUBSET RgModules) \ {{}} : \A m \in S : rgDeps[m] \cap S # {}

\* topological_sort succeeds exactly when the declared dependencies have no cycle, and
\* then every module appears once, after everything it depends on.
SortsDependencyFirst ==
    /\ rgResult = "ok" => /\ ~Cyclic /\ Range(sorted) = RgModules
                          /\ \A i, j \in 1..RgN : sorted[j] \in rgDeps[sorted[i]] => j < i
    /\ rgResult = "cycle" => Cyclic
=============================================================================
