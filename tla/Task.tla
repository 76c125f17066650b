-------------------------------- MODULE Task --------------------------------
(***************************************************************************)
(* The shared part of a spawned task: the TaskHeader (task.rs), the waker   *)
(* that re-schedules it (waker.rs) and its JoinHandle.  Each action is one  *)
(* atomic access (an atomic load or store, a compare_exchange, a critical   *)
(* section of a Mutex), so that the executors that extend this module       *)
(* interleave with wakers, aborts and joins on other threads.               *)
(*                                                                          *)
(* A future is abstracted to the events it waits for: it is Ready at a poll *)
(* that sees Need events, otherwise the poll leaves its waker with the      *)
(* event source and returns Pending.                                        *)
(***************************************************************************)
EXTENDS Naturals, Sequences, FiniteSets

CONSTANTS Tasks,      \* the futures that may be spawned
          Need,       \* events each task's future waits for before it is Ready
          Abortable   \* the tasks whose JoinHandle::abort() is called

ASSUME TaskAssumption == Need \in [Tasks -> Nat] /\ Abortable \subseteq Tasks

VARIABLES
    state,       \* TaskHeader.state; "NEW" before Task::new
    body_ptr,    \* TaskHeader.body_ptr is not null
    output,      \* TaskHeader.output is Some
    join_waker,  \* TaskHeader.join_waker is Some
    join_lock,   \* JoinHandle::poll holds the join_waker Mutex
    jh,          \* where the JoinHandle's poll is, or what it returned
    aborting,    \* where JoinHandle::abort is
    global,      \* GlobalQueue
    tasks,       \* the executor's map of owned Task handles
    fired,       \* events that have happened, per task
    seen,        \* events the last poll of the future saw
    armed,       \* the future's waker is registered with its event source
    waking,      \* calls of schedule_task under way, before their compare_exchange
    pushing      \* a schedule_task is between compare_exchange and push_header

hdrVars    == <<state, body_ptr, output>>
joinVars   == <<join_waker, join_lock, jh>>
wakerVars  == <<waking, pushing>>
futureVars == <<fired, seen, armed>>
taskVars   == <<hdrVars, joinVars, aborting, global, tasks, futureVars, wakerVars>>

States == {"NEW", "IDLE", "SCHEDULED", "RUNNING", "COMPLETED", "CANCELLED"}

\* States no poll follows: the JoinHandle reports them.
Final == {"COMPLETED", "CANCELLED"}

TaskTypeOK ==
    /\ state \in [Tasks -> States]
    /\ body_ptr \in [Tasks -> BOOLEAN]
    /\ output \in [Tasks -> BOOLEAN]
    /\ join_waker \in [Tasks -> BOOLEAN]
    /\ join_lock \in [Tasks -> BOOLEAN]
    /\ jh \in [Tasks -> {"poll", "lock", "store", "pending", "ok", "cancelled"}]
    /\ aborting \in [Tasks -> {"no", "second", "done"}]
    /\ global \in Seq(Tasks)
    /\ tasks \subseteq Tasks
    /\ fired \in [Tasks -> Nat]
    /\ seen \in [Tasks -> Nat]
    /\ armed \in [Tasks -> BOOLEAN]
    /\ waking \in [Tasks -> Nat]
    /\ pushing \in [Tasks -> BOOLEAN]

TaskInit ==
    /\ state = [t \in Tasks |-> "NEW"]
    /\ body_ptr = [t \in Tasks |-> FALSE]
    /\ output = [t \in Tasks |-> FALSE]
    /\ join_waker = [t \in Tasks |-> FALSE]
    /\ join_lock = [t \in Tasks |-> FALSE]
    /\ jh = [t \in Tasks |-> "poll"]
    /\ aborting = [t \in Tasks |-> "no"]
    /\ global = <<>>
    /\ tasks = {}
    /\ fired = [t \in Tasks |-> 0]
    /\ seen = [t \in Tasks |-> 0]
    /\ armed = [t \in Tasks |-> FALSE]
    /\ waking = [t \in Tasks |-> 0]
    /\ pushing = [t \in Tasks |-> FALSE]

-----------------------------------------------------------------------------
(* Task::new and the steps of Task::poll_task and Task::cancel.  They change *)
(* only the header; an executor says which thread takes them and when.       *)

task_new(t) ==
    /\ state[t] = "NEW"
    /\ state' = [state EXCEPT ![t] = "SCHEDULED"]
    /\ body_ptr' = [body_ptr EXCEPT ![t] = TRUE]
    /\ UNCHANGED <<output, joinVars, aborting, futureVars, wakerVars>>

\* h.state.store(STATE_RUNNING)
poll_task_run(t) ==
    /\ state' = [state EXCEPT ![t] = "RUNNING"]
    /\ UNCHANGED <<body_ptr, output, joinVars, aborting, global, futureVars, wakerVars>>

\* vtable.poll returned false: the future registered its waker and looked
\* at its event source before it returned Pending.
poll_body_pending(t) ==
    /\ fired[t] < Need[t]
    /\ seen' = [seen EXCEPT ![t] = fired[t]]
    /\ armed' = [armed EXCEPT ![t] = TRUE]
    /\ UNCHANGED <<hdrVars, joinVars, aborting, global, fired, wakerVars>>

\* vtable.poll returned true: the output is stored, the body freed and nulled.
poll_body_ready(t) ==
    /\ fired[t] = Need[t]
    /\ seen' = [seen EXCEPT ![t] = fired[t]]
    /\ output' = [output EXCEPT ![t] = TRUE]
    /\ body_ptr' = [body_ptr EXCEPT ![t] = FALSE]
    /\ UNCHANGED <<state, joinVars, aborting, global, fired, armed, wakerVars>>

\* h.state.store(STATE_IDLE), whatever the state has become meanwhile
poll_task_idle(t) ==
    /\ state' = [state EXCEPT ![t] = "IDLE"]
    /\ UNCHANGED <<body_ptr, output, joinVars, aborting, global, futureVars, wakerVars>>

\* h.state.store(STATE_COMPLETED)
poll_task_completed(t) ==
    /\ state' = [state EXCEPT ![t] = "COMPLETED"]
    /\ UNCHANGED <<body_ptr, output, joinVars, aborting, global, futureVars, wakerVars>>

\* join_waker.lock().take() and wake(): the joiner polls its handle again.
take_join_waker(t) ==
    /\ ~join_lock[t]
    /\ join_waker' = [join_waker EXCEPT ![t] = FALSE]
    /\ jh' = [jh EXCEPT ![t] = IF join_waker[t] /\ @ = "pending" THEN "poll" ELSE @]
    /\ UNCHANGED <<hdrVars, join_lock, aborting, global, futureVars, wakerVars>>

\* Task::cancel up to the store: the body is freed unless it already was.
cancel_body(t) ==
    /\ body_ptr' = [body_ptr EXCEPT ![t] = FALSE]
    /\ state' = [state EXCEPT ![t] = "CANCELLED"]
    /\ UNCHANGED <<output, joinVars, aborting, global, futureVars, wakerVars>>

-----------------------------------------------------------------------------
(* The event sources (timers, reactor, channels) and the task's waker.       *)

\* An event happens; its source takes the registered waker and calls wake(), or keeps it
\* and calls wake_by_ref() (which matters only when another event is to come).
fire(t) ==
    /\ state[t] # "NEW" /\ fired[t] < Need[t]
    /\ fired' = [fired EXCEPT ![t] = @ + 1]
    /\ waking' = [waking EXCEPT ![t] = IF armed[t] THEN @ + 1 ELSE @]
    /\ \E kept \in {FALSE, fired[t] + 1 < Need[t]} : armed' = [armed EXCEPT ![t] = @ /\ kept]
    /\ UNCHANGED <<hdrVars, joinVars, aborting, global, tasks, seen, pushing>>

\* schedule_task: compare_exchange(IDLE, SCHEDULED); a failure is ignored.
schedule_task_cas(t) ==
    /\ waking[t] > 0
    /\ waking' = [waking EXCEPT ![t] = @ - 1]
    /\ IF state[t] = "IDLE"
       THEN /\ state' = [state EXCEPT ![t] = "SCHEDULED"]
            /\ pushing' = [pushing EXCEPT ![t] = TRUE]
       ELSE UNCHANGED <<state, pushing>>
    /\ UNCHANGED <<body_ptr, output, joinVars, aborting, global, tasks, futureVars>>

\* schedule_task: push_header (and notify_one, which only shortens a park).
schedule_task_push(t) ==
    /\ pushing[t]
    /\ pushing' = [pushing EXCEPT ![t] = FALSE]
    /\ global' = Append(global, t)
    /\ UNCHANGED <<hdrVars, joinVars, aborting, tasks, futureVars, waking>>

-----------------------------------------------------------------------------
(* JoinHandle: abort() and poll(), called on any thread.                     *)

\* abort: compare_exchange(IDLE, CANCELLED), the first of two
abort_idle(t) ==
    /\ t \in Abortable /\ state[t] # "NEW" /\ aborting[t] = "no"
    /\ aborting' = [aborting EXCEPT ![t] = "second"]
    /\ state' = [state EXCEPT ![t] = IF @ = "IDLE" THEN "CANCELLED" ELSE @]
    /\ UNCHANGED <<body_ptr, output, joinVars, global, tasks, futureVars, wakerVars>>

\* abort: compare_exchange(SCHEDULED, CANCELLED)
abort_scheduled(t) ==
    /\ aborting[t] = "second"
    /\ aborting' = [aborting EXCEPT ![t] = "done"]
    /\ state' = [state EXCEPT ![t] = IF @ = "SCHEDULED" THEN "CANCELLED" ELSE @]
    /\ UNCHANGED <<body_ptr, output, joinVars, global, tasks, futureVars, wakerVars>>

\* What take_output returns: Ok while the output is there.
take_output(t) == IF output[t] THEN "ok" ELSE "cancelled"

\* What a poll of the handle does once it has read a final state.
join_finish(t) ==
    \/ /\ state[t] = "COMPLETED"
       /\ jh' = [jh EXCEPT ![t] = take_output(t)]
       /\ output' = [output EXCEPT ![t] = FALSE]
    \/ /\ state[t] = "CANCELLED"
       /\ jh' = [jh EXCEPT ![t] = "cancelled"]
       /\ UNCHANGED output

\* JoinHandle::poll: the load before the lock
join_poll_fast(t) ==
    /\ state[t] # "NEW" /\ jh[t] = "poll"
    /\ \/ join_finish(t)
       \/ /\ state[t] \notin Final
          /\ jh' = [jh EXCEPT ![t] = "lock"]
          /\ UNCHANGED output
    /\ UNCHANGED <<state, body_ptr, join_waker, join_lock, aborting, global, tasks,
                   futureVars, wakerVars>>

\* JoinHandle::poll: the lock and the second load; Pending keeps the lock
join_poll_recheck(t) ==
    /\ jh[t] = "lock" /\ ~join_lock[t]
    /\ \/ join_finish(t) /\ UNCHANGED join_lock
       \/ /\ state[t] \notin Final
          /\ jh' = [jh EXCEPT ![t] = "store"]
          /\ join_lock' = [join_lock EXCEPT ![t] = TRUE]
          /\ UNCHANGED output
    /\ UNCHANGED <<state, body_ptr, join_waker, aborting, global, tasks, futureVars,
                   wakerVars>>

\* JoinHandle::poll: the waker is stored, the lock released, Pending returned
join_poll_store(t) ==
    /\ jh[t] = "store"
    /\ jh' = [jh EXCEPT ![t] = "pending"]
    /\ join_waker' = [join_waker EXCEPT ![t] = TRUE]
    /\ join_lock' = [join_lock EXCEPT ![t] = FALSE]
    /\ UNCHANGED <<hdrVars, aborting, global, tasks, futureVars, wakerVars>>

JoinStep(t)  == join_poll_fast(t) \/ join_poll_recheck(t) \/ join_poll_store(t)
AbortStep(t) == abort_idle(t) \/ abort_scheduled(t)
WakeStep(t)  == schedule_task_cas(t) \/ schedule_task_push(t)

\* How many headers of t the global queue holds.
Queued(t) == Cardinality({i \in DOMAIN global : global[i] = t})

\* Need of the small instances, whose tasks are numbers: task n waits for n events.
Numbered == [t \in Tasks |-> t]
=============================================================================
