--------------------------- MODULE MultiExecutor ---------------------------
(***************************************************************************)
(* The multi-threaded executor, block_on_multi: the main thread             *)
(* (run_worker_0) polls the root future and runs tasks, the background      *)
(* workers (WorkerThread::run) run tasks until shutdown is set.  They share *)
(* GlobalQueue and the Mutex-protected map of Task handles; a worker takes  *)
(* the Task out of the map while it polls it.                               *)
(*                                                                          *)
(* Nothing ever pushes into a LocalQueue or a StealableQueue except a steal *)
(* from another StealableQueue, so they stay empty, the worker's next_task  *)
(* always comes from GlobalQueue and drain_all_tasks finds nothing.  A park *)
(* lasts at most 10 ms and changes nothing here, so did_work, the park and  *)
(* the self-pipes are left out.                                             *)
(***************************************************************************)
EXTENDS Task

CONSTANTS Workers,  \* the threads of the executor
          Main      \* the one that calls block_on_multi

ASSUME WorkersAssumption == Main \in Workers

VARIABLES pc,         \* where each worker's loop is
          cur,        \* the header each worker has in hand: empty or a singleton
          spawning,   \* the task a worker has inserted but not yet queued
          root_ready, \* the event the root future waits for has happened
          root_done,
          shutdown

workerVars == <<pc, cur, spawning>>
rootVars   == <<root_ready, root_done, shutdown>>
vars       == <<taskVars, workerVars, rootVars>>

\* Control points between taking the Task out of the map and putting it back
\* or dropping it: the worker owns the Task.
Holding == {"cancel", "run", "poll", "idle", "reinsert", "complete", "wakejoin"}

Pcs == {"top", "root", "exit", "drain", "load", "rm_cancelled",
        "rm_completed", "extract", "recheck", "done"}
       \cup Holding

TypeOK ==
    /\ TaskTypeOK
    /\ pc \in [Workers -> Pcs]
    /\ cur \in [Workers -> SUBSET Tasks]
    /\ spawning \in [Workers -> SUBSET Tasks]
    /\ root_ready \in BOOLEAN /\ root_done \in BOOLEAN /\ shutdown \in BOOLEAN

Init ==
    /\ TaskInit
    /\ pc = [w \in Workers |-> "top"]
    /\ cur = [w \in Workers |-> {}]
    /\ spawning = [w \in Workers |-> {}]
    /\ root_ready = FALSE /\ root_done = FALSE /\ shutdown = FALSE

Go(w, at, to) ==
    /\ pc[w] = at /\ spawning[w] = {}
    /\ pc' = [pc EXCEPT ![w] = to]
    /\ UNCHANGED <<spawning, rootVars>>

-----------------------------------------------------------------------------
(* spawn(), called by the root future or by a task being polled: the Task is *)
(* inserted before its header is queued.                                     *)

spawn_insert(w, t) ==
    /\ pc[w] = "poll" \/ (pc[w] = "root" /\ ~root_done)
    /\ spawning[w] = {}
    /\ task_new(t)
    /\ tasks' = tasks \cup {t}
    /\ spawning' = [spawning EXCEPT ![w] = {t}]
    /\ UNCHANGED <<global, pc, cur, rootVars>>

spawn_push(w, t) ==
    /\ t \in spawning[w]
    /\ global' = Append(global, t)
    /\ spawning' = [spawning EXCEPT ![w] = {}]
    /\ UNCHANGED <<hdrVars, joinVars, aborting, tasks, futureVars, wakerVars, pc, cur, rootVars>>

root_event ==
    /\ ~root_ready
    /\ root_ready' = TRUE
    /\ UNCHANGED <<taskVars, workerVars, root_done, shutdown>>

-----------------------------------------------------------------------------
(* The loops.  Main goes top -> root -> exit -> drain -> recheck -> top, the *)
(* background workers top -> drain -> top.                                   *)

\* variant: shutdown is not looked at
loop_top_Deaf(w) ==
    /\ Go(w, "top", IF w = Main THEN "root" ELSE "drain")
    /\ UNCHANGED <<taskVars, cur>>

\* the timers are ticked; a background worker first looks at shutdown
loop_top(w) ==
    /\ Go(w, "top", IF w = Main THEN "root" ELSE IF shutdown THEN "done" ELSE "drain")
    /\ UNCHANGED <<taskVars, cur>>

poll_root(w) ==
    /\ pc[w] = "root" /\ spawning[w] = {}
    /\ pc' = [pc EXCEPT ![w] = "exit"]
    /\ root_done' = (root_done \/ root_ready)
    /\ UNCHANGED <<taskVars, cur, spawning, root_ready, shutdown>>

\* root_done && tasks.lock().is_empty(), before and after draining the queue;
\* block_on_multi sets shutdown after the break.
check_exit(w) ==
    /\ pc[w] \in {"exit", "recheck"}
    /\ IF root_done /\ tasks = {}
       THEN pc' = [pc EXCEPT ![w] = "done"] /\ shutdown' = TRUE
       ELSE /\ pc' = [pc EXCEPT ![w] = IF @ = "exit" THEN "drain" ELSE "top"]
            /\ UNCHANGED shutdown
    /\ UNCHANGED <<taskVars, cur, spawning, root_ready, root_done>>

next_task(w) ==
    /\ global # <<>>
    /\ Go(w, "drain", "load")
    /\ global' = Tail(global)
    /\ cur' = [cur EXCEPT ![w] = {Head(global)}]
    /\ UNCHANGED <<hdrVars, joinVars, aborting, tasks, futureVars, wakerVars>>

\* the queue is drained
no_task(w) ==
    /\ global = <<>>
    /\ Go(w, "drain", IF w = Main THEN "recheck" ELSE "top")
    /\ UNCHANGED <<taskVars, cur>>

\* header.state.load and the branch it selects
load_state(w, t) ==
    /\ t \in cur[w]
    /\ Go(w, "load", IF state[t] = "CANCELLED" THEN "rm_cancelled"
                     ELSE IF state[t] = "COMPLETED" THEN "rm_completed" ELSE "extract")
    /\ UNCHANGED <<taskVars, cur>>

\* tasks.lock().remove(&key) after the load saw a final state: a CANCELLED task
\* still in the map is cancelled, a COMPLETED one dropped.
remove_final(w, t) ==
    /\ t \in cur[w] /\ pc[w] \in {"rm_cancelled", "rm_completed"}
    /\ tasks' = tasks \ {t}
    /\ IF pc[w] = "rm_cancelled" /\ t \in tasks
       THEN Go(w, pc[w], "cancel") /\ UNCHANGED cur
       ELSE Go(w, pc[w], "drain") /\ cur' = [cur EXCEPT ![w] = {}]
    /\ UNCHANGED <<hdrVars, joinVars, aborting, global, futureVars, wakerVars>>

\* variant: the Task is looked up, not removed
extract_task_Shares(w, t) ==
    /\ t \in cur[w]
    /\ IF t \in tasks
       THEN Go(w, "extract", "run") /\ UNCHANGED cur
       ELSE Go(w, "extract", "drain") /\ cur' = [cur EXCEPT ![w] = {}]
    /\ UNCHANGED <<hdrVars, joinVars, aborting, global, tasks, futureVars, wakerVars>>

\* tasks.lock().remove(&key) to poll it; a header without its Task is dropped
extract_task(w, t) ==
    /\ t \in cur[w]
    /\ tasks' = tasks \ {t}
    /\ IF t \in tasks
       THEN Go(w, "extract", "run") /\ UNCHANGED cur
       ELSE Go(w, "extract", "drain") /\ cur' = [cur EXCEPT ![w] = {}]
    /\ UNCHANGED <<hdrVars, joinVars, aborting, global, futureVars, wakerVars>>

cancel_task(w, t) ==
    /\ t \in cur[w] /\ Go(w, "cancel", "wakejoin")
    /\ cancel_body(t)
    /\ UNCHANGED <<tasks, cur>>

start_poll(w, t) ==
    /\ t \in cur[w] /\ Go(w, "run", "poll")
    /\ poll_task_run(t)
    /\ UNCHANGED <<tasks, cur>>

poll_body(w, t) ==
    /\ t \in cur[w]
    /\ \/ Go(w, "poll", "idle") /\ poll_body_pending(t)
       \/ Go(w, "poll", "complete") /\ poll_body_ready(t)
    /\ UNCHANGED <<tasks, cur>>

end_poll(w, t) ==
    /\ t \in cur[w]
    /\ \/ Go(w, "idle", "reinsert") /\ poll_task_idle(t)
       \/ Go(w, "complete", "wakejoin") /\ poll_task_completed(t)
    /\ UNCHANGED <<tasks, cur>>

\* the unfinished Task goes back into the map
reinsert(w, t) ==
    /\ t \in cur[w] /\ Go(w, "reinsert", "drain")
    /\ tasks' = tasks \cup {t}
    /\ cur' = [cur EXCEPT ![w] = {}]
    /\ UNCHANGED <<hdrVars, joinVars, aborting, global, futureVars, wakerVars>>

\* the JoinHandle is woken and the finished Task dropped
wake_joiner(w, t) ==
    /\ t \in cur[w] /\ Go(w, "wakejoin", "drain")
    /\ take_join_waker(t)
    /\ cur' = [cur EXCEPT ![w] = {}]
    /\ UNCHANGED tasks

-----------------------------------------------------------------------------

TaskPart(w, t) ==
    \/ load_state(w, t) \/ remove_final(w, t) \/ extract_task(w, t) \/ cancel_task(w, t)
    \/ start_poll(w, t) \/ poll_body(w, t) \/ end_poll(w, t) \/ reinsert(w, t)
    \/ wake_joiner(w, t) \/ spawn_push(w, t)

Worker(w) ==
    \/ loop_top(w) \/ poll_root(w) \/ check_exit(w) \/ next_task(w) \/ no_task(w)
    \/ \E t \in Tasks : TaskPart(w, t)

Around(t) ==
    \/ (fire(t) \/ WakeStep(t) \/ AbortStep(t) \/ JoinStep(t))
       /\ UNCHANGED <<workerVars, rootVars>>
    \/ \E w \in Workers : spawn_insert(w, t)

\* block_on_multi joins the background threads and returns.
Terminating == (\A w \in Workers : pc[w] = "done") /\ UNCHANGED vars

Next == \/ root_event
        \/ \E w \in Workers : Worker(w)
        \/ \E t \in Tasks : Around(t)
        \/ Terminating

Spec == Init /\ [][Next]_vars

\* Every worker thread keeps running, and a thread inside the join_waker Mutex
\* leaves it.
FairSpec ==
    /\ Spec
    /\ \A w \in Workers : WF_vars(Worker(w))
    /\ \A t \in Tasks : WF_vars(join_poll_store(t) /\ UNCHANGED <<workerVars, rootVars>>)
-----------------------------------------------------------------------------
(* Properties                                                                *)

\* The workers that own the Task handle of t.
Owners(t) == {w \in Workers : t \in cur[w] /\ pc[w] \in Holding}

\* poll_task's "SAFETY: state=RUNNING - exclusive access to body_ptr" and cancel's
\* "executor holds the Task exclusively": a Task is owned by the map or by one
\* worker, never by two, whatever headers, wakes and aborts are under way.
ExclusiveTask ==
    \A t \in Tasks : /\ t \in tasks => Owners(t) = {}
                     /\ \A v, w \in Owners(t) : v = w

\* poll_task's debug_assert "poll_task called on freed body", and no Task is lost while
\* workers race to extract, cancel, complete and put it back: a Task being polled owns
\* its future, and one that nobody owns any more is finished and its future freed.
FutureOwned ==
    /\ \A w \in Workers : pc[w] \in {"run", "poll"} => \A t \in cur[w] : body_ptr[t]
    /\ \A t \in Tasks : state[t] # "NEW" /\ t \notin tasks /\ Owners(t) = {}
                        => state[t] \in Final /\ ~body_ptr[t]

\* Control points between popping a header and acting on it.
InHand == {"load", "rm_cancelled", "rm_completed", "extract", "run"}

\* Headers of t that may still lead to a poll: queued, being pushed, or in hand.
Headers(t) ==
    Queued(t) + (IF pushing[t] THEN 1 ELSE 0)
              + Cardinality({w \in Workers : t \in spawning[w]})
              + Cardinality({w \in Workers : t \in cur[w] /\ pc[w] \in InHand})

\* JoinHandle::poll never misses the end of a task: when no worker owns a
\* finished task, its joiner is not left Pending.
JoinNotMissed ==
    \A t \in Tasks : state[t] \in Final /\ t \notin tasks /\ Owners(t) = {}
                     => jh[t] # "pending"

\* COMPLETED is final for every worker, waker and abort.
CompletedIsFinal ==
    [][\A t \in Tasks : state[t] = "COMPLETED" => state'[t] = "COMPLETED"]_vars

\* WorkerThread::run "Returns when shutdown is set": block_on_multi's join of the
\* background threads ends.
ShutdownStops == shutdown ~> \A w \in Workers : pc[w] = "done"
=============================================================================
