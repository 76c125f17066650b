------------------------------ MODULE Lifecycle ------------------------------
(***************************************************************************)
(* Moduvex::run and LifecycleEngine::run, with hooks, wait_for_shutdown and *)
(* the ShutdownHandle (on Unix).  Modules are named by registration index.  *)
(* Every hook, on_start and on_stop may fail; an on_stop may take for ever. *)
(* request() and signals come from other threads at any time.               *)
(***************************************************************************)
EXTENDS Integers, Sequences, FiniteSets, Functions

CONSTANTS N,           \* registered modules
          Priorities,  \* the priorities they may have
          MaxDeps      \* declared dependencies per module

ASSUME LifecycleAssumption == N \in Nat /\ Priorities \subseteq Int

Modules == 1..N

VARIABLES
    deps,       \* ModuleEntry.deps, as the set of their indices
    priority,   \* ModuleEntry.priority
    entries,    \* the registry's entries, in boot order
    pc,         \* the step of LifecycleEngine::run
    phase,      \* the phase the hooks were last notified of; "none" at first
    started,    \* modules whose on_start succeeded, in that order
    stopping,   \* entries the current rollback() still has to stop; the last one is next
    stopped,    \* modules whose on_stop was run to its end, in that order
    first_err,  \* rollback()'s first_err is Some
    requested,  \* ShutdownHandle.requested
    signalled,  \* SIGINT or SIGTERM was delivered to the Signal futures
    woken,      \* the engine's task was woken since it parked
    result      \* what run() returned

app      == <<deps, priority>>
shutVars == <<requested, signalled, woken>>
vars == <<app, entries, pc, phase, started, stopping, stopped, first_err, shutVars, result>>

Phases == {"Config", "Validate", "Init", "Start", "Ready", "Stopping", "Stopped"}

TypeOK ==
    /\ deps \in [Modules -> SUBSET Modules] /\ priority \in [Modules -> Priorities]
    /\ entries \in Seq(Modules) /\ Len(entries) <= N
    /\ pc \in {"build", "hook", "start", "rollback", "wait", "parked", "stop", "done"}
    /\ phase \in Phases \cup {"none"}
    /\ started \in Seq(Modules) /\ stopping \in Seq(Modules) /\ stopped \in Seq(Modules)
    /\ first_err \in BOOLEAN /\ requested \in BOOLEAN /\ signalled \in BOOLEAN
    /\ woken \in BOOLEAN
    /\ result \in {"none", "ok", "hook_error", "start_error", "stop_error"}

Init ==
    /\ deps \in [Modules -> {D \in SUBSET Modules : Cardinality(D) <= MaxDeps}]
    /\ priority \in [Modules -> Priorities]
    /\ entries = <<>> /\ pc = "build" /\ phase = "none"
    /\ started = <<>> /\ stopping = <<>> /\ stopped = <<>> /\ first_err = FALSE
    /\ requested = FALSE /\ signalled = FALSE /\ woken = FALSE
    /\ result = "none"

\* The boot order: highest priority first, equal ones as they were registered.
Before(a, b) == priority[a] > priority[b] \/ (priority[a] = priority[b] /\ a < b)

\* ModuleRegistry::sort_by_priority: the order is strict, so there is one such sequence
sort_by_priority == {s \in [Modules -> Modules] : \A i, j \in Modules : i < j => Before(s[i], s[j])}

\* Moduvex::run: the entries in priority order, then the engine
build ==
    /\ pc = "build"
    /\ entries' \in sort_by_priority /\ pc' = "hook"
    /\ UNCHANGED <<app, phase, started, stopping, stopped, first_err, shutVars, result>>

\* Phase::next_startup_phase, and Stopping after Ready
next_phase ==
    CASE phase = "none"     -> "Config"
      [] phase = "Config"   -> "Validate"
      [] phase = "Validate" -> "Init"
      [] phase = "Init"     -> "Start"
      [] phase = "Start"    -> "Ready"
      [] phase = "Ready"    -> "Stopping"
      [] OTHER              -> "Stopped"

\* where run() goes once the hooks accepted a phase
After(ph) == CASE ph = "Init" -> "start" [] ph = "Ready" -> "wait" [] ph = "Stopping" -> "stop"
               [] ph = "Stopped" -> "done" [] OTHER -> "hook"

\* notify_phase_entered succeeds; rollback(&entries) is set up when it is Stopping
notify_ok ==
    /\ pc = "hook"
    /\ phase' = next_phase /\ pc' = After(next_phase)
    /\ stopping' = IF next_phase = "Stopping" THEN entries ELSE stopping
    /\ result' = IF next_phase # "Stopped" THEN result
                 ELSE IF first_err THEN "stop_error" ELSE "ok"
    /\ UNCHANGED <<app, entries, started, stopped, first_err, shutVars>>

\* a hook returns Err: the `?` after notify_phase_entered returns it
notify_err ==
    /\ pc = "hook"
    /\ phase' = next_phase /\ pc' = "done" /\ result' = "hook_error"
    /\ UNCHANGED <<app, entries, started, stopping, stopped, first_err, shutVars>>

\* on_start of the next module
on_start_ok ==
    /\ pc = "start"
    /\ IF Len(started) = Len(entries) THEN pc' = "hook" /\ UNCHANGED started
       ELSE started' = Append(started, entries[Len(started) + 1]) /\ UNCHANGED pc
    /\ UNCHANGED <<app, entries, phase, stopping, stopped, first_err, shutVars, result>>

\* on_start fails: rollback(&entries[..idx])
on_start_err ==
    /\ pc = "start" /\ Len(started) < Len(entries)
    /\ stopping' = SubSeq(entries, 1, Len(started)) /\ pc' = "rollback"
    /\ UNCHANGED <<app, entries, phase, started, stopped, first_err, shutVars, result>>

\* variant: without rev()
on_stop_Forward ==
    /\ pc \in {"rollback", "stop"} /\ stopping # <<>>
    /\ stopped' = Append(stopped, Head(stopping)) /\ stopping' = Tail(stopping)
    /\ first_err' \in {first_err, TRUE}
    /\ UNCHANGED <<app, entries, pc, phase, started, shutVars, result>>

\* rollback's loop: the last entry is stopped; an error is remembered, not returned yet
on_stop ==
    /\ pc \in {"rollback", "stop"} /\ stopping # <<>>
    /\ stopped' = Append(stopped, stopping[Len(stopping)])
    /\ stopping' = SubSeq(stopping, 1, Len(stopping) - 1)
    /\ first_err' \in {first_err, TRUE}
    /\ UNCHANGED <<app, entries, pc, phase, started, shutVars, result>>

\* rollback is done.  After a failed start its own error is only logged.
rollback_done ==
    /\ pc \in {"rollback", "stop"} /\ stopping = <<>>
    /\ IF pc = "rollback" THEN pc' = "done" /\ result' = "start_error"
       ELSE pc' = "hook" /\ UNCHANGED result
    /\ UNCHANGED <<app, entries, phase, started, stopping, stopped, first_err, shutVars>>

\* variant: the sleep is never polled
drain_timeout_Unpolled == FALSE /\ UNCHANGED vars

\* the sleep wins: rollback is abandoned where it stands and stop_err is Ok(())
drain_timeout ==
    /\ pc = "stop" /\ stopping # <<>>
    /\ pc' = "hook" /\ stopping' = <<>> /\ first_err' = FALSE
    /\ UNCHANGED <<app, entries, phase, started, stopped, shutVars, result>>

\* wait_for_shutdown: the fast path, or the first poll, which registers with the signals
wait_poll ==
    /\ pc = "wait"
    /\ pc' = IF requested THEN "hook" ELSE "parked"
    /\ woken' = FALSE
    /\ UNCHANGED <<app, entries, phase, started, stopping, stopped, first_err, requested,
                   signalled, result>>

\* its later polls
wait_repoll ==
    /\ pc = "parked" /\ woken
    /\ pc' = IF requested \/ signalled THEN "hook" ELSE "parked"
    /\ woken' = FALSE
    /\ UNCHANGED <<app, entries, phase, started, stopping, stopped, first_err, requested,
                   signalled, result>>

\* ShutdownHandle::request
request ==
    /\ ~requested /\ requested' = TRUE
    /\ UNCHANGED <<app, entries, pc, phase, started, stopping, stopped, first_err, signalled, woken,
                   result>>

\* a SIGINT or SIGTERM, delivered to a Signal future that is registered
signal ==
    /\ pc = "parked" /\ ~signalled /\ signalled' = TRUE /\ woken' = TRUE
    /\ UNCHANGED <<app, entries, pc, phase, started, stopping, stopped, first_err, requested, result>>

Engine == build \/ notify_ok \/ notify_err \/ on_start_ok \/ on_start_err \/ rollback_done
          \/ wait_poll \/ wait_repoll

Next == Engine \/ on_stop \/ drain_timeout \/ request \/ signal

Spec == Init /\ [][Next]_vars

\* The engine's task is polled when it can go on and the drain timer fires; hooks and
\* on_start return.  An on_stop may hang, unless a failed start called it.
FairSpec == Spec /\ WF_vars(Engine) /\ WF_vars(drain_timeout) /\ WF_vars(pc = "rollback" /\ on_stop)

-----------------------------------------------------------------------------

\* The k modules that were started last, the last one first.
Newest(k) == [i \in 1..k |-> started[Len(started) + 1 - i]]

\* Modules are stopped in the reverse of the order they were started in, with none left
\* out in between, none stopped twice and none that had not started, however many on_stop
\* fail and whenever the timeout strikes.  When run() returns the error of an on_start or
\* an on_stop, every module that had been started has been stopped, also when several
\* on_stop fail; and the error of an on_stop is returned unless the timeout cut the rollback
\* short.
StopsReverse ==
    /\ \E k \in 0..Len(started) : stopped = Newest(k)
    /\ result \in {"start_error", "stop_error"} => Range(stopped) = Range(started)
    /\ (result = "ok" /\ Range(stopped) = Range(started)) => ~first_err

\* Once a signal has arrived, or request() was called before wait_for_shutdown parked, run()
\* returns, even when an on_stop never does.  A request() after that wakes nobody.
ShutdownEnds == (signalled \/ (requested /\ pc # "parked")) ~> (pc = "done")

\* When a hook's error aborts a phase, the modules that had been started are stopped again:
\* hook.rs:19 says that a hook that returns Err "triggers rollback".
HookErrorRollsBack == result = "hook_error" => stopped = Newest(Len(started))
=============================================================================
