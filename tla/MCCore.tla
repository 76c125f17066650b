------------------------------- MODULE MCCore -------------------------------
(***************************************************************************)
(* Small instances, for TLC, of what an application is assembled from: the  *)
(* life cycle engine, the registry's sort, the configuration, the builder   *)
(* with its context and errors, and the observability crate's spans,        *)
(* metrics, log and health checks.  A behaviour runs one of them, part.     *)
(***************************************************************************)
EXTENDS Lifecycle, Boot, Monitoring, TLC

CONSTANTS Trees, Dirs, EnvSets, Profiles,
          ta, tb, Threads, W, MaxSpans, MaxClock, Messages, MaxEvents, Envs

VARIABLES part,
          cfDefaults, cfDir, cfEnv, cfProfile, cfCall, cfTodo, cfRoot, cfActive, cfRead,
          trClock, trCounter, trCall, trSpans,
          lgMin, lgSub, lgCall, lgOut, lgEvents

Settings == INSTANCE Config
Records  == INSTANCE Tracing WITH TrThreads <- Threads, LgThreads <- Threads

cfVars == <<cfDefaults, cfDir, cfEnv, cfProfile, cfCall, cfTodo, cfRoot, cfActive, cfRead>>
trVars == <<trClock, trCounter, trCall, trSpans>>
lgVars == <<lgMin, lgSub, lgCall, lgOut, lgEvents>>

\* documents whose section db is absent, a scalar, or a table with one of two fields
Num(n) == [t |-> "int", v |-> n]
Table(f) == [t |-> "table", v |-> f]
Shapes == {"none", "scalar", "a", "b"}
Doc(n, shape) ==
    CASE shape = "none"   -> Table(<<>>)
      [] shape = "scalar" -> Table("db" :> Num(n))
      [] OTHER            -> Table("db" :> Table(shape :> Num(n)))
Absent == [t |-> "missing", v |-> "no such file"]
File(n) == {Absent, [t |-> "malformed", v |-> "not TOML"]} \cup {Doc(n, shape) : shape \in Shapes}
MCTrees == {Doc("1", shape) : shape \in Shapes}
MCDirs == [base : File("2"), dev : {Absent, Doc("3", "a")}, prod : File("4")]

\* variables that differ in case only, one for another section, one without a field
Var(s, f, v) == [prefixed |-> TRUE, section |-> s, field |-> f, val |-> v]
MCEnvSets == {{}, {Var("DB", "A", "7")}, {Var("DB", "A", "7"), Var("db", "a", "inf")},
              {Var("LOG", "A", "7"), Var("DB", "", "TRUE")}}

MCRaised == {[variant |-> "Domain", message |-> <<"d">>, code |-> "c", status |-> 404, public |-> FALSE],
             [variant |-> "Config", message |-> <<"c">>, key |-> "k"], [variant |-> "Other", message |-> <<"o">>]}

MCBounds  == <<2>>
MCProgram == <<"gauge", "histogram">>
MCEnvs == {[level |-> "debug", format |-> "json"], [level |-> "WARNING", format |-> "JSON"],
           [level |-> "?", format |-> ""]}
MCMessages == {<<"x", "\"">>, <<"\\", "\n">>}

-----------------------------------------------------------------------------

MCInit ==
    /\ part \in {"lifecycle", "registry", "config", "boot", "trace", "metrics", "logging", "health"}
    /\ IF part = "lifecycle" THEN Init
       ELSE /\ deps = <<>> /\ priority = <<>> /\ entries = <<>> /\ pc = "build" /\ phase = "none"
            /\ started = <<>> /\ stopping = <<>> /\ stopped = <<>> /\ first_err = FALSE
            /\ requested = FALSE /\ signalled = FALSE /\ woken = FALSE /\ result = "none"
    /\ IF part = "registry" THEN RgInit
       ELSE /\ rgDeps = <<>> /\ rgPriority = <<>> /\ in_degree = <<>> /\ heap = {}
            /\ sorted = <<>> /\ rgResult = "none"
    /\ IF part = "config" THEN Settings!CfInit
       ELSE /\ cfDefaults = <<>> /\ cfDir = <<>> /\ cfEnv = {} /\ cfProfile = "" /\ cfCall = "none"
            /\ cfTodo = {} /\ cfRoot = <<>> /\ cfActive = "" /\ cfRead = <<>>
    /\ IF part = "boot" THEN BdInit
       ELSE /\ Required = <<>> /\ rank = <<>> /\ Provides = <<>> /\ bdState = "Unconfigured"
            /\ bdEntries = <<>> /\ bdNext = 1 /\ singletons = <<>> /\ bdFound = <<>>
            /\ bdError = <<>> /\ bdRoot = <<>>
    /\ Records!TrInit /\ MtInit /\ Records!LgInit /\ HlInit

MCNext ==
    \/ /\ part = "lifecycle" /\ Next
       /\ UNCHANGED <<part, rgVars, cfVars, bdVars, trVars, mtVars, lgVars, hlVars>>
    \/ /\ part = "registry" /\ RgNext
       /\ UNCHANGED <<part, vars, cfVars, bdVars, trVars, mtVars, lgVars, hlVars>>
    \/ /\ part = "config" /\ Settings!CfNext
       /\ UNCHANGED <<part, vars, rgVars, bdVars, trVars, mtVars, lgVars, hlVars>>
    \/ /\ part = "boot" /\ BdNext
       /\ UNCHANGED <<part, vars, rgVars, cfVars, trVars, mtVars, lgVars, hlVars>>
    \/ /\ part = "trace" /\ Records!TrNext
       /\ UNCHANGED <<part, vars, rgVars, cfVars, bdVars, mtVars, lgVars, hlVars>>
    \/ /\ part = "metrics" /\ MtNext
       /\ UNCHANGED <<part, vars, rgVars, cfVars, bdVars, trVars, lgVars, hlVars>>
    \/ /\ part = "logging" /\ Records!LgNext
       /\ UNCHANGED <<part, vars, rgVars, cfVars, bdVars, trVars, mtVars, hlVars>>
    \/ /\ part = "health" /\ HlNext
       /\ UNCHANGED <<part, vars, rgVars, cfVars, bdVars, trVars, mtVars, lgVars>>

\* with the fairness of Lifecycle's FairSpec in behaviours of the engine
MCSpec ==
    /\ MCInit /\ [][MCNext]_<<part, vars, rgVars, cfVars, bdVars, trVars, mtVars, lgVars, hlVars>>
    /\ WF_vars(part = "lifecycle" /\ Engine)
    /\ WF_vars(part = "lifecycle" /\ drain_timeout)
    /\ WF_vars(part = "lifecycle" /\ pc = "rollback" /\ on_stop)

-----------------------------------------------------------------------------
(* The properties of the instantiated parts.                                 *)

\* scope() returns the value of the highest layer that gives the field (ConfigLoader).
ScopedIsHighest == part = "config" => Settings!ScopedIsHighest

\* Spans carry one trace id exactly when they descend from one root (Span::new, child).
TraceIsRoot == part = "trace" => Records!TraceIsRoot

\* Each event that passes the level is one well-formed line (log_event, on_event).
LogLinesExact == part = "logging" => Records!LogLinesExact
=============================================================================
