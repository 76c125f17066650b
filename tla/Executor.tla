------------------------------ MODULE Executor ------------------------------
(***************************************************************************)
(* The single-threaded executor, Executor::block_on: one thread ticks the   *)
(* timers, polls the root future, drains the queue of woken tasks and parks *)
(* on the reactor.  Other threads may hold wakers and JoinHandles, so every *)
(* atomic access of the loop is a step of its own.                          *)
(*                                                                          *)
(* Nothing pushes into Executor.local, so the queue next_task drains is     *)
(* GlobalQueue.  A park ends after at most 10 ms, so it is one step.        *)
(***************************************************************************)
EXTENDS Task

CONSTANTS Racing   \* tasks whose waker may be called while they are being
                   \* polled: by another thread, or by their own future

ASSUME RacingAssumption == Racing \subseteq Tasks

VARIABLES pc,          \* where block_on is
          cur,         \* the header in hand: empty or a singleton
          did_work,
          root_ready,  \* the event the root future waits for has happened
          root_done

loopVars == <<pc, cur, did_work, root_ready, root_done>>
vars     == <<taskVars, loopVars>>

Pcs == {"tick", "root", "exit", "drain", "load", "cancel", "run", "poll", "idle",
        "complete", "wakejoin", "recheck", "park", "done"}

TypeOK ==
    /\ TaskTypeOK
    /\ pc \in Pcs
    /\ cur \subseteq Tasks
    /\ did_work \in BOOLEAN /\ root_ready \in BOOLEAN /\ root_done \in BOOLEAN

Init ==
    /\ TaskInit
    /\ pc = "tick" /\ cur = {}
    /\ did_work = FALSE /\ root_ready = FALSE /\ root_done = FALSE

\* The thread is at control point "at" and goes to "to".
Go(at, to) == pc = at /\ pc' = to

-----------------------------------------------------------------------------
(* Events and calls made on the executor's thread, from inside a future, the *)
(* timer wheel or the reactor.                                               *)

\* Futures and wakers run here: timers, root poll, a task's poll, the reactor.
InUserCode == pc \in {"tick", "poll", "park"} \/ (pc = "root" /\ ~root_done)

\* Executor::spawn, called by the root or by a running task
spawn(t) ==
    /\ pc = "poll" \/ (pc = "root" /\ ~root_done)
    /\ task_new(t)
    /\ global' = Append(global, t)
    /\ tasks' = tasks \cup {t}
    /\ UNCHANGED loopVars

\* variant: SCHEDULED without push_header
local_event_NoPush(t) ==
    /\ InUserCode /\ ~(pc = "poll" /\ t \in cur)
    /\ t \notin Racing
    /\ state[t] # "NEW" /\ fired[t] < Need[t]
    /\ fired' = [fired EXCEPT ![t] = @ + 1]
    /\ armed' = [armed EXCEPT ![t] = FALSE]
    /\ state' = [state EXCEPT ![t] = IF armed[t] /\ @ = "IDLE" THEN "SCHEDULED" ELSE @]
    /\ UNCHANGED <<body_ptr, output, joinVars, aborting, global, tasks, seen, wakerVars, loopVars>>

\* An event source on this thread fires and runs schedule_task to its end.
local_event(t) ==
    /\ InUserCode /\ ~(pc = "poll" /\ t \in cur)
    /\ t \notin Racing
    /\ state[t] # "NEW" /\ fired[t] < Need[t]
    /\ fired' = [fired EXCEPT ![t] = @ + 1]
    /\ armed' = [armed EXCEPT ![t] = FALSE]
    /\ IF armed[t] /\ state[t] = "IDLE"
       THEN /\ state' = [state EXCEPT ![t] = "SCHEDULED"]
            /\ global' = Append(global, t)
       ELSE UNCHANGED <<state, global>>
    /\ UNCHANGED <<body_ptr, output, joinVars, aborting, tasks, seen, wakerVars, loopVars>>

\* An event source elsewhere fires; its call of schedule_task comes later.
remote_event(t) == t \in Racing /\ fire(t) /\ UNCHANGED loopVars

root_event ==
    /\ ~root_ready
    /\ root_ready' = TRUE
    /\ UNCHANGED <<taskVars, pc, cur, did_work, root_done>>

-----------------------------------------------------------------------------
(* Executor::block_on                                                        *)

tick_timers ==
    /\ Go("tick", "root")
    /\ UNCHANGED <<taskVars, cur, did_work, root_ready, root_done>>

poll_root ==
    /\ Go("root", "exit")
    /\ root_done' = (root_done \/ root_ready)
    /\ UNCHANGED <<taskVars, cur, did_work, root_ready>>

\* variant: the queue is not drained once the root is done
check_exit_NoDrain ==
    /\ pc = "exit"
    /\ pc' = IF ~root_done THEN "drain" ELSE IF tasks = {} THEN "done" ELSE "tick"
    /\ did_work' = FALSE
    /\ UNCHANGED <<taskVars, cur, root_ready, root_done>>

\* the break after polling the root
check_exit ==
    /\ pc = "exit"
    /\ pc' = IF root_done /\ tasks = {} THEN "done" ELSE "drain"
    /\ did_work' = FALSE
    /\ UNCHANGED <<taskVars, cur, root_ready, root_done>>

next_task ==
    /\ pc = "drain"
    /\ IF global # <<>>
       THEN /\ global' = Tail(global)
            /\ cur' = {Head(global)}
            /\ did_work' = TRUE
            /\ pc' = "load"
       ELSE pc' = "recheck" /\ UNCHANGED <<global, cur, did_work>>
    /\ UNCHANGED <<hdrVars, joinVars, aborting, tasks, futureVars, wakerVars,
                   root_ready, root_done>>

\* header.state.load and the branch it selects
load_state(t) ==
    /\ pc = "load"
    /\ pc' = IF t \notin tasks \/ state[t] = "COMPLETED" THEN "drain"
             ELSE IF state[t] = "CANCELLED" THEN "cancel" ELSE "run"
    /\ cur' = IF pc' = "drain" THEN {} ELSE cur
    /\ tasks' = IF state[t] \in Final THEN tasks \ {t} ELSE tasks
    /\ UNCHANGED <<hdrVars, joinVars, aborting, global, futureVars, wakerVars,
                   did_work, root_ready, root_done>>

\* task.cancel() of a task removed from the map
cancel_task(t) ==
    /\ Go("cancel", "wakejoin")
    /\ cancel_body(t)
    /\ UNCHANGED <<tasks, cur, did_work, root_ready, root_done>>

start_poll(t) ==
    /\ Go("run", "poll")
    /\ poll_task_run(t)
    /\ UNCHANGED <<tasks, cur, did_work, root_ready, root_done>>

poll_body(t) ==
    /\ \/ Go("poll", "idle") /\ poll_body_pending(t)
       \/ Go("poll", "complete") /\ poll_body_ready(t)
    /\ UNCHANGED <<tasks, cur, did_work, root_ready, root_done>>

end_poll(t) ==
    /\ \/ Go("idle", "drain") /\ poll_task_idle(t) /\ cur' = {}
       \/ Go("complete", "wakejoin") /\ poll_task_completed(t) /\ UNCHANGED cur
    /\ UNCHANGED <<tasks, did_work, root_ready, root_done>>

\* the JoinHandle is woken, then a completed task leaves the map
wake_joiner(t) ==
    /\ Go("wakejoin", "drain")
    /\ take_join_waker(t)
    /\ tasks' = tasks \ {t}
    /\ cur' = {}
    /\ UNCHANGED <<did_work, root_ready, root_done>>

\* the break after draining, and whether to park
recheck_exit ==
    /\ pc = "recheck"
    /\ pc' = IF root_done /\ tasks = {} THEN "done"
             ELSE IF ~did_work /\ global = <<>> THEN "park" ELSE "tick"
    /\ UNCHANGED <<taskVars, cur, did_work, root_ready, root_done>>

park ==
    /\ Go("park", "tick")
    /\ UNCHANGED <<taskVars, cur, did_work, root_ready, root_done>>

TaskPart(t) == load_state(t) \/ cancel_task(t) \/ start_poll(t) \/ poll_body(t)
               \/ end_poll(t) \/ wake_joiner(t)

\* One step of the executor's thread.
Loop == \/ tick_timers \/ poll_root \/ check_exit \/ next_task \/ recheck_exit \/ park
        \/ \E t \in cur : TaskPart(t)

\* Steps of futures, event sources, wakers and JoinHandles.
Around(t) ==
    \/ spawn(t) \/ local_event(t) \/ remote_event(t)
    \/ (WakeStep(t) \/ AbortStep(t) \/ JoinStep(t)) /\ UNCHANGED loopVars

Terminating == pc = "done" /\ UNCHANGED vars

Next == Loop \/ root_event \/ (\E t \in Tasks : Around(t)) \/ Terminating

Spec == Init /\ [][Next]_vars

\* The thread keeps running, every event a future waits for happens in the end,
\* a thread that took a waker calls it, and a thread inside the join_waker
\* Mutex leaves it.  An event source of this thread
\* gets its turn at any of the loop's control points at which one runs.
Fairness ==
    /\ WF_vars(Loop) /\ WF_vars(root_event)
    /\ \A t \in Tasks : /\ SF_vars(local_event(t))
                        /\ WF_vars(remote_event(t))
                        /\ WF_vars(WakeStep(t) /\ UNCHANGED loopVars)
                        /\ WF_vars(join_poll_store(t) /\ UNCHANGED loopVars)

FairSpec == Spec /\ Fairness

-----------------------------------------------------------------------------
(* Properties                                                                *)

\* Headers of t that will still lead to a poll: queued, being pushed, or in hand.
Headers(t) ==
    Queued(t) + (IF pushing[t] THEN 1 ELSE 0)
              + (IF pc \in {"load", "run", "cancel"} /\ t \in cur THEN 1 ELSE 0)

\* The queue discipline of schedule_task and next_task, against wakers and
\* aborts on other threads: a SCHEDULED task has exactly one header on its way to
\* a poll, an IDLE one has none (its next wake must find it), and no task is
\* ever queued twice.  A task being polled owns its future ("poll_task called on freed
\* body"), and one that left the map does not.
ScheduledIsQueued ==
    /\ \A t \in Tasks : /\ Headers(t) <= 1
                        /\ state[t] = "SCHEDULED" => Headers(t) = 1
                        /\ state[t] = "IDLE" => Headers(t) = 0
    /\ pc \in {"run", "poll"} => \A t \in cur : body_ptr[t]
    /\ \A t \in Tasks : state[t] # "NEW" /\ t \notin tasks /\ ~(pc = "cancel" /\ t \in cur)
                        => ~body_ptr[t]

WakeSeen(t) == state[t] = "IDLE" /\ ~armed[t] /\ waking[t] = 0 => seen[t] = fired[t]

\* schedule_task's "it will be re-polled automatically": an idle task whose waker
\* was called has seen every event that happened, whatever it was doing when
\* the waker was called.
NoLostWake  == \A t \in Tasks : WakeSeen(t)

\* Every spawned task is driven to its end by the wakes of its event sources; only a task
\* woken from elsewhere, or during its own poll, may lose one.
EveryTaskFinishes ==
    \A t \in Tasks :
        state[t] # "NEW" ~> (state[t] \in Final \/ (t \in Racing /\ ~WakeSeen(t)))
=============================================================================
