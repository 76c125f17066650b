------------------------- MODULE MultiExecutorProof -------------------------
(***************************************************************************)
(* Proofs about the multi-threaded executor, for any number of workers and  *)
(* tasks and any number of events per task.                                 *)
(***************************************************************************)
EXTENDS MultiExecutor, TLAPS

LEMMA InitTypeOK == Init => TypeOK
<1> SUFFICES ASSUME Init PROVE TypeOK
  OBVIOUS
<1> USE TaskAssumption DEF Init, TaskInit
<1>1. TaskTypeOK
  <2>1. global \in Seq(Tasks)
    OBVIOUS
  <2>2. 0 \in Nat
    OBVIOUS
  <2> QED
    BY <2>1, <2>2, Zenon DEF TaskTypeOK, States
<1> QED
  BY <1>1, ZenonT(30) DEF TypeOK, Pcs, Holding

LEMMA NextTypeOK == TypeOK /\ [Next]_vars => TypeOK'
<1> SUFFICES ASSUME TypeOK, [Next]_vars PROVE TypeOK'
  OBVIOUS
<1> USE TaskAssumption, WorkersAssumption
    DEF TypeOK, TaskTypeOK, States, Pcs, Holding, hdrVars, joinVars, wakerVars, futureVars,
        taskVars, workerVars, rootVars, Go
<1>1. CASE root_event
  BY <1>1, SMTT(60) DEF root_event
<1>2. ASSUME NEW w \in Workers, Worker(w) PROVE TypeOK'
  <2>1. CASE loop_top(w)
    BY <2>1, SMTT(60) DEF loop_top
  <2>2. CASE poll_root(w)
    BY <2>2 DEF poll_root
  <2>3. CASE check_exit(w)
    BY <2>3, ZenonT(60) DEF check_exit
  <2>4. CASE next_task(w)
    <3>1. global' \in Seq(Tasks) /\ cur' \in [Workers -> SUBSET Tasks]
      BY <2>4, SMTT(60) DEF next_task
    <3> QED
      BY <2>4, <3>1, ZenonT(30) DEF next_task
  <2>5. CASE no_task(w)
    BY <2>5 DEF no_task
  <2>6. ASSUME NEW t \in Tasks, TaskPart(w, t) PROVE TypeOK'
    <3>1. CASE load_state(w, t)
      BY <3>1, SMTT(60) DEF load_state
    <3>2. CASE remove_final(w, t)
      BY <3>2, ZenonT(60) DEF remove_final
    <3>3. CASE extract_task(w, t)
      BY <3>3, ZenonT(60) DEF extract_task
    <3>4. CASE cancel_task(w, t)
      BY <3>4 DEF cancel_task, cancel_body
    <3>5. CASE start_poll(w, t)
      BY <3>5 DEF start_poll, poll_task_run
    <3>6. CASE poll_body(w, t)
      <4>1. CASE Go(w, "poll", "idle") /\ poll_body_pending(t) /\ UNCHANGED <<tasks, cur>>
        BY <4>1 DEF poll_body_pending
      <4>2. CASE Go(w, "poll", "complete") /\ poll_body_ready(t) /\ UNCHANGED <<tasks, cur>>
        BY <4>2, SMTT(60) DEF poll_body_ready
      <4> QED
        BY <3>6, <4>1, <4>2, ZenonT(30) DEF poll_body
    <3>7. CASE end_poll(w, t)
      <4>1. CASE Go(w, "idle", "reinsert") /\ poll_task_idle(t) /\ UNCHANGED <<tasks, cur>>
        BY <4>1 DEF poll_task_idle
      <4>2. CASE Go(w, "complete", "wakejoin") /\ poll_task_completed(t)
                 /\ UNCHANGED <<tasks, cur>>
        BY <4>2 DEF poll_task_completed
      <4> QED
        BY <3>7, <4>1, <4>2, ZenonT(30) DEF end_poll
    <3>8. CASE reinsert(w, t)
      BY <3>8 DEF reinsert
    <3>9. CASE wake_joiner(w, t)
      BY <3>9 DEF wake_joiner, take_join_waker
    <3>10. CASE spawn_push(w, t)
      <4>1. global' \in Seq(Tasks)
        BY <3>10 DEF spawn_push
      <4> QED
        BY <3>10, <4>1, ZenonT(30) DEF spawn_push
    <3> QED
      BY <2>6, <3>1, <3>2, <3>3, <3>4, <3>5, <3>6, <3>7, <3>8, <3>9, <3>10, ZenonT(30)
         DEF TaskPart
  <2> QED
    BY <1>2, <2>1, <2>2, <2>3, <2>4, <2>5, <2>6, SMTT(60) DEF Worker
<1>3. ASSUME NEW t \in Tasks, Around(t) PROVE TypeOK'
  <2>1. CASE fire(t) /\ UNCHANGED <<workerVars, rootVars>>
    <3>1. fired' \in [Tasks -> Nat]
      BY <2>1 DEF fire
    <3>2. waking' \in [Tasks -> Nat]
      BY <2>1 DEF fire
    <3>3. armed' \in [Tasks -> BOOLEAN]
      BY <2>1 DEF fire
    <3> QED
      BY <2>1, <3>1, <3>2, <3>3 DEF fire
  <2>2. CASE WakeStep(t) /\ UNCHANGED <<workerVars, rootVars>>
    <3>1. CASE schedule_task_cas(t) /\ UNCHANGED <<workerVars, rootVars>>
      <4>1. waking' \in [Tasks -> Nat]
        BY <3>1 DEF schedule_task_cas
      <4>2. state' \in [Tasks -> States] /\ pushing' \in [Tasks -> BOOLEAN]
        BY <3>1, ZenonT(60) DEF schedule_task_cas
      <4> QED
        BY <3>1, <4>1, <4>2 DEF schedule_task_cas
    <3>2. CASE schedule_task_push(t) /\ UNCHANGED <<workerVars, rootVars>>
      BY <3>2 DEF schedule_task_push
    <3> QED
      BY <2>2, <3>1, <3>2, ZenonT(30) DEF WakeStep
  <2>3. CASE AbortStep(t) /\ UNCHANGED <<workerVars, rootVars>>
    <3>1. state' \in [Tasks -> States] /\ aborting' \in [Tasks -> {"no", "second", "done"}]
      <4>1. CASE abort_idle(t)
        BY <4>1 DEF abort_idle
      <4>2. CASE abort_scheduled(t)
        BY <4>2 DEF abort_scheduled
      <4> QED
        BY <2>3, <4>1, <4>2 DEF AbortStep
    <3> QED
      BY <2>3, <3>1 DEF AbortStep, abort_idle, abort_scheduled
  <2>4. CASE JoinStep(t) /\ UNCHANGED <<workerVars, rootVars>>
    <3>0. take_output(t) \in {"ok", "cancelled"}
      BY Zenon DEF take_output
    <3>1. CASE join_poll_fast(t) /\ UNCHANGED <<workerVars, rootVars>>
      <4>1. output' \in [Tasks -> BOOLEAN]
        BY <3>1, ZenonT(30) DEF join_poll_fast, join_finish
      <4>2. PICK r \in {"ok", "cancelled", "lock"} : jh' = [jh EXCEPT ![t] = r]
        BY <3>1, <3>0, Zenon DEF join_poll_fast, join_finish
      <4> QED
        BY <3>1, <4>1, <4>2, SMTT(60) DEF join_poll_fast
    <3>2. CASE join_poll_recheck(t) /\ UNCHANGED <<workerVars, rootVars>>
      <4>1. output' \in [Tasks -> BOOLEAN]
        BY <3>2, ZenonT(30) DEF join_poll_recheck, join_finish
      <4>2. PICK r \in {"ok", "cancelled", "store"} : jh' = [jh EXCEPT ![t] = r]
        BY <3>2, <3>0, Zenon DEF join_poll_recheck, join_finish
      <4>3. join_lock' \in [Tasks -> BOOLEAN]
        BY <3>2, ZenonT(60) DEF join_poll_recheck
      <4> QED
        BY <3>2, <4>1, <4>2, <4>3, ZenonT(30) DEF join_poll_recheck
    <3>3. CASE join_poll_store(t) /\ UNCHANGED <<workerVars, rootVars>>
      BY <3>3 DEF join_poll_store
    <3> QED
      BY <2>4, <3>1, <3>2, <3>3, ZenonT(30) DEF JoinStep
  <2>5. ASSUME NEW w \in Workers, spawn_insert(w, t) PROVE TypeOK'
    BY <2>5 DEF spawn_insert, task_new
  <2> QED
    BY <1>3, <2>1, <2>2, <2>3, <2>4, <2>5, ZenonT(30) DEF Around
<1>4. CASE UNCHANGED vars
  BY <1>4 DEF vars
<1> QED
  BY <1>1, <1>2, <1>3, <1>4, ZenonT(30) DEF Next, Terminating

\* The state of the executor is well typed, for any number of workers and tasks.
THEOREM MultiTypeOK == Spec => []TypeOK
  BY InitTypeOK, NextTypeOK, PTL DEF Spec
-----------------------------------------------------------------------------
(* Ownership of the Task handles                                             *)

Holds(w, t) == t \in cur[w] /\ pc[w] \in Holding

\* A worker has at most one header in hand.
CurInv == \A w \in Workers : \A a, b \in cur[w] : a = b

\* A Task in the map is unfinished and owns its future.
MapInv ==
    \A t \in tasks : state[t] \notin {"NEW", "COMPLETED"} /\ body_ptr[t]

\* A worker that holds a Task is its only owner, and knows how far it got.
HoldInv ==
    \A w \in Workers : \A t \in Tasks : Holds(w, t) =>
        /\ t \notin tasks
        /\ state[t] # "NEW"
        /\ \A v \in Workers : Holds(v, t) => v = w
        /\ pc[w] \in {"cancel", "run", "poll", "idle", "reinsert"} =>
               body_ptr[t] /\ state[t] # "COMPLETED"
        /\ pc[w] = "complete" => ~body_ptr[t] /\ state[t] # "COMPLETED"
        /\ pc[w] = "wakejoin" => ~body_ptr[t] /\ state[t] \in Final

\* A worker about to remove a COMPLETED task saw a state that does not change.
SawInv ==
    \A w \in Workers : \A t \in cur[w] : pc[w] = "rm_completed" => state[t] = "COMPLETED"

\* A Task nobody owns any more is finished, its future freed, its joiner told.
GoneInv ==
    \A t \in Tasks : state[t] # "NEW" /\ t \notin tasks /\ (\A w \in Workers : ~Holds(w, t))
        => ~body_ptr[t] /\ state[t] \in Final /\ jh[t] \notin {"store", "pending"}

\* The join_waker Mutex and slot follow JoinHandle::poll.
JoinInv ==
    \A t \in Tasks : /\ join_lock[t] <=> jh[t] = "store"
                     /\ jh[t] = "pending" => join_waker[t]

\* What the proof needs of the types.
OwnTypes ==
    /\ state \in [Tasks -> States] /\ body_ptr \in [Tasks -> BOOLEAN] /\ tasks \subseteq Tasks
    /\ join_waker \in [Tasks -> BOOLEAN] /\ join_lock \in [Tasks -> BOOLEAN]
    /\ jh \in [Tasks -> {"poll", "lock", "store", "pending", "ok", "cancelled"}]
    /\ pc \in [Workers -> Pcs] /\ cur \in [Workers -> SUBSET Tasks]

OwnInv == CurInv /\ MapInv /\ HoldInv /\ SawInv /\ GoneInv /\ JoinInv

LEMMA TypesOfOwn == TypeOK => OwnTypes
  BY DEF TypeOK, TaskTypeOK, OwnTypes

LEMMA InitOwnInv == Init => OwnInv
<1> SUFFICES ASSUME Init PROVE OwnInv
  OBVIOUS
<1>1. CurInv /\ SawInv /\ HoldInv
  BY DEF Init, CurInv, SawInv, HoldInv, Holds
<1>2. MapInv /\ GoneInv /\ JoinInv
  BY DEF Init, TaskInit, MapInv, GoneInv, JoinInv
<1> QED
  BY <1>1, <1>2 DEF OwnInv

\* All that ownership depends on.
LEMMA SameOwnInv ==
    ASSUME OwnInv, UNCHANGED <<state, body_ptr, joinVars, tasks, pc, cur>>
    PROVE  OwnInv'
<1>1. CurInv' /\ MapInv' /\ SawInv' /\ JoinInv'
  BY DEF OwnInv, CurInv, MapInv, SawInv, JoinInv, joinVars
<1>2. HoldInv'
  BY DEF OwnInv, HoldInv, Holds
<1>3. GoneInv'
  BY DEF OwnInv, GoneInv, Holds, joinVars
<1> QED
  BY <1>1, <1>2, <1>3 DEF OwnInv

\* A worker that holds no Task moves on with another header, or none.
LEMMA MoveOwnInv ==
    ASSUME OwnTypes, OwnInv, NEW w \in Workers, NEW l, NEW c,
           pc[w] \notin Holding, l \notin Holding, pc' = [pc EXCEPT ![w] = l],
           cur' = [cur EXCEPT ![w] = c], \A a, b \in c : a = b,
           l = "rm_completed" => \A u \in c : state[u] = "COMPLETED",
           UNCHANGED <<state, body_ptr, joinVars, tasks>>
    PROVE  OwnInv'
<1>0. \A v \in Workers : \A u : Holds(v, u)' <=> Holds(v, u)
  BY DEF OwnTypes, Holds
<1>1. CurInv'
  BY DEF OwnTypes, OwnInv, CurInv
<1>2. MapInv' /\ JoinInv'
  BY DEF OwnInv, MapInv, JoinInv, joinVars
<1>3. \A v \in Workers : pc[v] \in Holding => pc'[v] = pc[v]
  BY DEF OwnTypes
<1>4. HoldInv'
  <2> SUFFICES ASSUME NEW v \in Workers, NEW u \in Tasks, Holds(v, u)
               PROVE  /\ u \notin tasks /\ state[u] # "NEW" /\ pc'[v] = pc[v]
                      /\ \A x \in Workers : Holds(x, u) => x = v
    BY <1>0 DEF OwnInv, HoldInv
  <2> QED
    BY <1>3, SMTT(60) DEF OwnInv, HoldInv, Holds
<1>5. SawInv'
  BY DEF OwnTypes, OwnInv, SawInv
<1>6. GoneInv'
  BY <1>0 DEF OwnInv, GoneInv, joinVars
<1> QED
  BY <1>1, <1>2, <1>4, <1>5, <1>6 DEF OwnInv

\* A worker takes the Task of its header out of the map.
LEMMA TakeOwnInv ==
    ASSUME OwnTypes, OwnInv, NEW w \in Workers, NEW t \in tasks, NEW l \in {"cancel", "run"},
           t \in cur[w], pc[w] \notin Holding, pc' = [pc EXCEPT ![w] = l],
           tasks' = tasks \ {t}, UNCHANGED <<state, body_ptr, joinVars, cur>>
    PROVE  OwnInv'
<1>0. cur[w] = {t} /\ t \in Tasks
  BY DEF OwnTypes, OwnInv, CurInv
<1>1. \A v \in Workers : \A u : Holds(v, u)' <=> Holds(v, u) \/ (v = w /\ u = t)
  BY <1>0 DEF OwnTypes, Holds, Holding
<1>2. \A v \in Workers : ~Holds(v, t)
  BY <1>0 DEF OwnInv, HoldInv
<1>3. CurInv' /\ MapInv' /\ JoinInv'
  BY SMTT(60) DEF OwnInv, CurInv, MapInv, JoinInv, joinVars
<1>4. HoldInv'
  <2> SUFFICES ASSUME NEW v \in Workers, NEW u \in Tasks, Holds(v, u)' PROVE
            /\ u \notin tasks'
            /\ state[u] # "NEW"
            /\ \A x \in Workers : Holds(x, u)' => x = v
            /\ pc'[v] \in {"cancel", "run", "poll", "idle", "reinsert"} =>
                   body_ptr[u] /\ state[u] # "COMPLETED"
            /\ pc'[v] = "complete" => ~body_ptr[u] /\ state[u] # "COMPLETED"
            /\ pc'[v] = "wakejoin" => ~body_ptr[u] /\ state[u] \in Final
    BY DEF HoldInv
  <2>1. CASE v = w /\ u = t
    BY <1>1, <1>2, <2>1, SMTT(60) DEF OwnTypes, OwnInv, MapInv
  <2>2. CASE Holds(v, u)
    <3>1. v # w /\ pc'[v] = pc[v]
      BY <2>2, SMTT(60) DEF OwnTypes, Holds
    <3>2. u # t
      BY <1>2, <2>2
    <3> QED
      BY <1>1, <2>2, <3>1, <3>2 DEF OwnInv, HoldInv
  <2> QED
    BY <1>1, <2>1, <2>2, SMTT(60)
<1>5. SawInv'
  BY ZenonT(60)  DEF OwnTypes, OwnInv, SawInv
<1>6. GoneInv'
  BY <1>1 DEF OwnInv, GoneInv, joinVars
<1> QED
  BY <1>3, <1>4, <1>5, <1>6 DEF OwnInv

\* A worker goes on with the Task it holds: it may change its state and free its future.
LEMMA WorkOwnInv ==
    ASSUME OwnTypes, OwnInv, NEW w \in Workers, NEW t \in Tasks, NEW l \in Holding,
           NEW s, NEW b \in BOOLEAN,
           Holds(w, t), pc' = [pc EXCEPT ![w] = l], state' = [state EXCEPT ![t] = s],
           body_ptr' = [body_ptr EXCEPT ![t] = b], UNCHANGED <<joinVars, tasks, cur>>,
           s # "NEW",
           l \in {"cancel", "run", "poll", "idle", "reinsert"} => b /\ s # "COMPLETED",
           l = "complete" => ~b /\ s # "COMPLETED",
           l = "wakejoin" => ~b /\ s \in Final,
           state[t] = "COMPLETED" => s = "COMPLETED"
    PROVE  OwnInv'
<1>1. \A v \in Workers : \A u : Holds(v, u)' <=> Holds(v, u)
  BY SMTT(60) DEF OwnTypes, Holds
<1>2. cur[w] = {t} /\ t \notin tasks /\ \A v \in Workers : Holds(v, t) => v = w
  BY DEF OwnInv, CurInv, HoldInv, Holds
<1>3. CurInv' /\ MapInv' /\ JoinInv'
  BY <1>2, SMTT(60) DEF OwnTypes, OwnInv, CurInv, MapInv, JoinInv, joinVars
<1>4. HoldInv'
  <2> SUFFICES ASSUME NEW v \in Workers, NEW u \in Tasks, Holds(v, u) PROVE
            /\ u \notin tasks
            /\ state'[u] # "NEW"
            /\ \A x \in Workers : Holds(x, u) => x = v
            /\ pc'[v] \in {"cancel", "run", "poll", "idle", "reinsert"} =>
                   body_ptr'[u] /\ state'[u] # "COMPLETED"
            /\ pc'[v] = "complete" => ~body_ptr'[u] /\ state'[u] # "COMPLETED"
            /\ pc'[v] = "wakejoin" => ~body_ptr'[u] /\ state'[u] \in Final
    BY <1>1, SMTT(60) DEF HoldInv
  <2>1. CASE u = t
    <3>1. v = w /\ pc'[v] = l /\ state'[u] = s /\ body_ptr'[u] = b
      BY <1>2, <2>1, ZenonT(30) DEF OwnTypes
    <3> QED
      BY <1>2, <2>1, <3>1
  <2>2. CASE u # t
    <3>1. pc'[v] = pc[v] /\ state'[u] = state[u] /\ body_ptr'[u] = body_ptr[u]
      BY <1>2, <2>2 DEF OwnTypes, Holds
    <3> QED
      BY <3>1, SMTT(60) DEF OwnInv, HoldInv
  <2> QED
    BY <2>1, <2>2
<1>5. SawInv'
  BY ZenonT(60)  DEF OwnTypes, OwnInv, SawInv, Holding
<1>6. GoneInv'
  <2> SUFFICES ASSUME NEW u \in Tasks, \A v \in Workers : ~Holds(v, u),
                      state'[u] # "NEW", u \notin tasks
               PROVE  ~body_ptr'[u] /\ state'[u] \in Final /\ jh[u] \notin {"store", "pending"}
    BY <1>1 DEF GoneInv, joinVars
  <2>1. state'[u] = state[u] /\ body_ptr'[u] = body_ptr[u]
    BY SMTT(60) DEF OwnTypes
  <2> QED
    BY <2>1 DEF OwnInv, GoneInv
<1> QED
  BY <1>3, <1>4, <1>5, <1>6 DEF OwnInv

\* A worker lets go of its Task: back into the map, or dropped once its joiner was told.
LEMMA DropOwnInv ==
    ASSUME OwnTypes, OwnInv, NEW w \in Workers, NEW t \in Tasks, Holds(w, t),
           pc' = [pc EXCEPT ![w] = "drain"], cur' = [cur EXCEPT ![w] = {}],
           UNCHANGED <<state, body_ptr, join_lock>>,
           \/ pc[w] = "reinsert" /\ tasks' = tasks \cup {t} /\ UNCHANGED joinVars
           \/ pc[w] = "wakejoin" /\ tasks' = tasks /\ take_join_waker(t)
    PROVE  OwnInv'
<1>1. cur[w] = {t} /\ t \notin tasks /\ \A v \in Workers : Holds(v, t) => v = w
  BY DEF OwnInv, CurInv, HoldInv, Holds
<1>2. \A v \in Workers : \A u : Holds(v, u)' <=> Holds(v, u) /\ v # w
  BY DEF OwnTypes, Holds, Holding
<1>3. CurInv'
  BY DEF OwnTypes, OwnInv, CurInv
<1>4. MapInv'
  BY DEF OwnInv, MapInv, HoldInv
<1>5. HoldInv'
  <2> SUFFICES ASSUME NEW v \in Workers, NEW u \in Tasks, Holds(v, u), v # w
               PROVE  /\ u \notin tasks' /\ state[u] # "NEW" /\ pc'[v] = pc[v]
                      /\ \A x \in Workers : Holds(x, u) => x = v
    BY <1>2 DEF OwnInv, HoldInv
  <2>1. u # t
    BY <1>1
  <2> QED
    BY <2>1, SMTT(60) DEF OwnTypes, OwnInv, HoldInv
<1>6. SawInv'
  BY DEF OwnTypes, OwnInv, SawInv
<1>7. JoinInv' /\ \A u \in Tasks \ {t} : jh'[u] = jh[u]
  BY ZenonT(60)  DEF OwnTypes, OwnInv, JoinInv, joinVars, take_join_waker
<1>8. GoneInv'
  <2> SUFFICES ASSUME NEW u \in Tasks, \A v \in Workers : Holds(v, u) => v = w,
                      state[u] # "NEW", u \notin tasks'
               PROVE  ~body_ptr[u] /\ state[u] \in Final /\ jh'[u] \notin {"store", "pending"}
    BY <1>2, SMTT(60) DEF GoneInv
  <2>1. CASE u = t
    <3>1. pc[w] = "wakejoin" /\ take_join_waker(t)
      BY <2>1
    <3>2. jh'[t] \notin {"store", "pending"}
      BY <3>1, ZenonT(60) DEF OwnTypes, OwnInv, JoinInv, take_join_waker
    <3> QED
      BY <2>1, <3>1, <3>2 DEF OwnInv, HoldInv
  <2>2. CASE u # t
    <3>1. \A v \in Workers : ~Holds(v, u)
      BY <1>1, <2>2 DEF Holds
    <3> QED
      BY <1>7, <2>2, <3>1 DEF OwnInv, GoneInv
  <2> QED
    BY <2>1, <2>2
<1> QED
  BY <1>3, <1>4, <1>5, <1>6, <1>7, <1>8 DEF OwnInv

\* A waker or abort() changes the state of an unfinished task.
LEMMA MarkOwnInv ==
    ASSUME OwnTypes, OwnInv, NEW t \in Tasks, NEW s \in {"SCHEDULED", "CANCELLED"},
           state[t] \in {"IDLE", "SCHEDULED"}, state' = [state EXCEPT ![t] = s],
           UNCHANGED <<body_ptr, joinVars, tasks, pc, cur>>
    PROVE  OwnInv'
<1>0. \A v \in Workers : \A u : Holds(v, u)' <=> Holds(v, u)
  BY DEF Holds
<1>1. \A u \in Tasks : \/ state'[u] = state[u]
                       \/ u = t /\ state'[u] = s
  BY DEF OwnTypes
<1>2. CurInv' /\ JoinInv'
  BY DEF OwnInv, CurInv, JoinInv, joinVars
<1>3. MapInv'
  BY <1>1 DEF OwnTypes, OwnInv, MapInv
<1>4. SawInv'
  BY <1>1 DEF OwnTypes, OwnInv, SawInv
<1>5. HoldInv'
  BY <1>0, <1>1, SMTT(60) DEF OwnInv, HoldInv, Final
<1>6. GoneInv'
  BY <1>0, <1>1 DEF OwnInv, GoneInv, Final, joinVars
<1> QED
  BY <1>2, <1>3, <1>4, <1>5, <1>6 DEF OwnInv

\* JoinHandle::poll moves from one of its points to the next.
LEMMA JoinOwnInv ==
    ASSUME OwnTypes, OwnInv, NEW t \in Tasks, NEW r, jh' = [jh EXCEPT ![t] = r],
           UNCHANGED <<state, body_ptr, tasks, pc, cur>>, JoinInv',
           r \in {"store", "pending"} => state[t] \notin Final \/ jh[t] \in {"store", "pending"}
    PROVE  OwnInv'
<1>0. \A v \in Workers : \A u : Holds(v, u)' <=> Holds(v, u)
  BY DEF Holds
<1>1. CurInv' /\ MapInv' /\ SawInv'
  BY SMTT(60) DEF OwnInv, CurInv, MapInv, SawInv
<1>2. HoldInv'
  BY <1>0, SMTT(60) DEF OwnInv, HoldInv
<1>3. GoneInv'
  <2>1. \A u \in Tasks : jh'[u] = IF u = t THEN r ELSE jh[u]
    BY DEF OwnTypes
  <2> QED
    BY <1>0, <2>1 DEF OwnInv, GoneInv
<1> QED
  BY <1>1, <1>2, <1>3 DEF OwnInv

\* spawn() puts a new Task into the map.
LEMMA SpawnOwnInv ==
    ASSUME OwnTypes, OwnInv, NEW t \in Tasks, state[t] = "NEW",
           state' = [state EXCEPT ![t] = "SCHEDULED"],
           body_ptr' = [body_ptr EXCEPT ![t] = TRUE], tasks' = tasks \cup {t},
           UNCHANGED <<joinVars, pc, cur>>
    PROVE  OwnInv'
<1>0. \A v \in Workers : \A u : Holds(v, u)' <=> Holds(v, u)
  BY DEF Holds
<1>1. \A u \in Tasks : u # t => state'[u] = state[u] /\ body_ptr'[u] = body_ptr[u]
  BY SMTT(60) DEF OwnTypes
<1>2. CurInv' /\ JoinInv'
  BY DEF OwnInv, CurInv, JoinInv, joinVars
<1>3. MapInv'
  BY <1>1 DEF OwnTypes, OwnInv, MapInv
<1>4. SawInv'
  BY <1>1, SMTT(60) DEF OwnTypes, OwnInv, SawInv
<1>5. HoldInv'
  <2>1. \A v \in Workers : ~Holds(v, t)
    BY SMTT(60) DEF OwnInv, HoldInv
  <2> QED
    BY <1>0, <1>1, <2>1 DEF OwnInv, HoldInv
<1>6. GoneInv'
  BY <1>0, <1>1 DEF OwnInv, GoneInv, joinVars
<1> QED
  BY <1>2, <1>3, <1>4, <1>5, <1>6, SMTT(60) DEF OwnInv

\* Steps of the loops that touch no Task.
LEMMA LoopOwnInv ==
    ASSUME OwnTypes, OwnInv, NEW w \in Workers,
           loop_top(w) \/ poll_root(w) \/ check_exit(w) \/ next_task(w) \/ no_task(w)
    PROVE  OwnInv'
<1>1. pc[w] \notin Holding
  BY ZenonT(30) DEF loop_top, poll_root, check_exit, next_task, no_task, Go, Holding
<1>2. UNCHANGED <<state, body_ptr, joinVars, tasks>>
  BY ZenonT(30) DEF loop_top, poll_root, check_exit, next_task, no_task, taskVars, hdrVars
<1>3. PICK l \in {"root", "done", "drain", "exit", "top", "load", "recheck"} :
          pc' = [pc EXCEPT ![w] = l]
  BY ZenonT(30) DEF loop_top, poll_root, check_exit, next_task, no_task, Go
<1>4. CASE next_task(w)
  <2> DEFINE c == {Head(global)}
  <2>1. cur' = [cur EXCEPT ![w] = c] /\ \A a, b \in c : a = b
    BY <1>4 DEF next_task
  <2> HIDE DEF c
  <2> QED
    BY <1>1, <1>2, <1>3, <2>1, MoveOwnInv, ZenonT(60) DEF Holding
<1>5. CASE ~next_task(w)
  <2>1. cur' = cur
    BY <1>5 DEF loop_top, poll_root, check_exit, no_task
  <2>2. cur' = [cur EXCEPT ![w] = cur[w]] /\ \A a, b \in cur[w] : a = b
    BY <2>1 DEF OwnTypes, OwnInv, CurInv
  <2> QED
    BY <1>1, <1>2, <1>3, <2>2, MoveOwnInv, ZenonT(60) DEF Holding
<1> QED
  BY <1>4, <1>5

\* Steps of a worker on the task whose header it has in hand.
LEMMA TaskPartOwnInv ==
    ASSUME OwnTypes, OwnInv, NEW w \in Workers, NEW t \in Tasks, TaskPart(w, t)
    PROVE  OwnInv'
<1>0. \A a, b \in cur[w] : a = b
  BY DEF OwnInv, CurInv
<1>s. state = [state EXCEPT ![t] = state[t]] /\ body_ptr = [body_ptr EXCEPT ![t] = body_ptr[t]]
      /\ cur = [cur EXCEPT ![w] = cur[w]] /\ body_ptr[t] \in BOOLEAN
  BY SMTT(60) DEF OwnTypes
<1>h. Holds(w, t) => state[t] # "NEW"
  BY DEF OwnInv, HoldInv
<1>b. Holds(w, t) /\ pc[w] \in {"cancel", "run", "poll", "idle", "reinsert"}
        => body_ptr[t] /\ state[t] # "COMPLETED"
  BY DEF OwnInv, HoldInv
<1>1. CASE load_state(w, t)
  <2>1. PICK l \in {"rm_cancelled", "rm_completed", "extract"} :
            pc' = [pc EXCEPT ![w] = l] /\ (l = "rm_completed" => state[t] = "COMPLETED")
    BY <1>1, ZenonT(30) DEF load_state, Go
  <2>2. /\ pc[w] \notin Holding /\ t \in cur[w] /\ cur' = cur
        /\ UNCHANGED <<state, body_ptr, joinVars, tasks>>
    BY <1>1, ZenonT(30) DEF load_state, Go, Holding, taskVars, hdrVars
  <2>3. cur' = [cur EXCEPT ![w] = cur[w]]
        /\ (l = "rm_completed" => \A u \in cur[w] : state[u] = "COMPLETED")
    BY <1>0, <1>s, <2>1, <2>2
  <2> QED
    BY <1>0, <2>1, <2>2, <2>3, MoveOwnInv, ZenonT(60) DEF Holding
<1>2. CASE remove_final(w, t)
  <2>0. /\ pc[w] \notin Holding /\ t \in cur[w] /\ UNCHANGED <<state, body_ptr, joinVars>>
        /\ tasks' = tasks \ {t}
    BY <1>2 DEF remove_final, Holding, hdrVars
  <2>1. CASE pc[w] = "rm_cancelled" /\ t \in tasks
    <3>1. pc' = [pc EXCEPT ![w] = "cancel"] /\ cur' = cur
      BY <1>2, <2>1 DEF remove_final, Go
    <3> QED
      BY <2>0, <2>1, <3>1, TakeOwnInv, ZenonT(60)
  <2>2. CASE ~(pc[w] = "rm_cancelled" /\ t \in tasks)
    <3>1. pc' = [pc EXCEPT ![w] = "drain"] /\ cur' = [cur EXCEPT ![w] = {}]
      BY <1>2, <2>2, SMTT(60) DEF remove_final, Go
    <3>2. tasks' = tasks
      BY <1>2, <2>0, <2>2 DEF remove_final, OwnInv, SawInv, MapInv
    <3> QED
      BY <2>0, <3>1, <3>2, MoveOwnInv, ZenonT(60) DEF Holding
  <2> QED
    BY <2>1, <2>2
<1>3. CASE extract_task(w, t)
  <2>0. /\ pc[w] \notin Holding /\ t \in cur[w] /\ UNCHANGED <<state, body_ptr, joinVars>>
        /\ tasks' = tasks \ {t}
    BY <1>3, ZenonT(30) DEF extract_task, Go, Holding, hdrVars
  <2>1. CASE t \in tasks
    <3>1. pc' = [pc EXCEPT ![w] = "run"] /\ cur' = cur
      BY <1>3, <2>1 DEF extract_task, Go
    <3> QED
      BY <2>0, <2>1, <3>1, TakeOwnInv, ZenonT(60)
  <2>2. CASE t \notin tasks
    <3>1. pc' = [pc EXCEPT ![w] = "drain"] /\ cur' = [cur EXCEPT ![w] = {}] /\ tasks' = tasks
      BY <1>3, <2>2 DEF extract_task, Go
    <3> QED
      BY <2>0, <3>1, MoveOwnInv, ZenonT(60) DEF Holding
  <2> QED
    BY <2>1, <2>2, ZenonT(30)
<1>4. CASE cancel_task(w, t)
  <2>1. /\ Holds(w, t) /\ pc' = [pc EXCEPT ![w] = "wakejoin"]
        /\ state' = [state EXCEPT ![t] = "CANCELLED"] /\ pc[w] = "cancel"
        /\ body_ptr' = [body_ptr EXCEPT ![t] = FALSE] /\ UNCHANGED <<joinVars, tasks, cur>>
    BY <1>4, ZenonT(30) DEF cancel_task, cancel_body, Go, Holds, Holding
  <2> QED
    BY <1>b, <2>1, WorkOwnInv, ZenonT(30) DEF Holding, Final
<1>5. CASE start_poll(w, t)
  <2>1. /\ Holds(w, t) /\ pc' = [pc EXCEPT ![w] = "poll"] /\ pc[w] = "run"
        /\ state' = [state EXCEPT ![t] = "RUNNING"]
        /\ body_ptr' = body_ptr /\ UNCHANGED <<joinVars, tasks, cur>>
    BY <1>5, ZenonT(30) DEF start_poll, poll_task_run, Go, Holds, Holding
  <2> QED
    BY <1>s, <1>b, <2>1, WorkOwnInv, ZenonT(30) DEF Holding
<1>6. CASE poll_body(w, t)
  <2>0. Holds(w, t) /\ pc[w] = "poll" /\ UNCHANGED <<joinVars, tasks, cur, state>>
    BY <1>6, ZenonT(30)
       DEF poll_body, poll_body_pending, poll_body_ready, Go, Holds, Holding, hdrVars
  <2>1. CASE pc' = [pc EXCEPT ![w] = "idle"] /\ body_ptr' = body_ptr
    BY <1>s, <1>h, <1>b, <2>0, <2>1, WorkOwnInv, ZenonT(30) DEF Holding
  <2>2. CASE pc' = [pc EXCEPT ![w] = "complete"] /\ body_ptr' = [body_ptr EXCEPT ![t] = FALSE]
    BY <1>s, <1>h, <1>b, <2>0, <2>2, WorkOwnInv, ZenonT(30) DEF Holding
  <2> QED
    BY <1>6, <2>1, <2>2, ZenonT(30) DEF poll_body, poll_body_pending, poll_body_ready, Go, hdrVars
<1>7. CASE end_poll(w, t)
  <2>0. /\ Holds(w, t) /\ pc[w] \in {"idle", "complete"}
        /\ UNCHANGED <<joinVars, tasks, cur, body_ptr>>
    BY <1>7, ZenonT(30) DEF end_poll, poll_task_idle, poll_task_completed, Go, Holds, Holding
  <2>1. CASE /\ pc[w] = "idle" /\ pc' = [pc EXCEPT ![w] = "reinsert"]
             /\ state' = [state EXCEPT ![t] = "IDLE"]
    BY <1>s, <1>b, <2>0, <2>1, WorkOwnInv, ZenonT(30) DEF Holding
  <2>2. CASE /\ pc[w] = "complete" /\ pc' = [pc EXCEPT ![w] = "wakejoin"]
             /\ state' = [state EXCEPT ![t] = "COMPLETED"]
    <3>1. body_ptr[t] = FALSE
      BY <2>0, <2>2, ZenonT(60) DEF OwnTypes, OwnInv, HoldInv
    <3> QED
      BY <1>s, <2>0, <2>2, <3>1, WorkOwnInv, ZenonT(30) DEF Holding, Final
  <2> QED
    BY <1>7, <2>1, <2>2, ZenonT(30) DEF end_poll, poll_task_idle, poll_task_completed, Go
<1>8. CASE reinsert(w, t) \/ wake_joiner(w, t)
  <2>1. Holds(w, t) /\ UNCHANGED <<state, body_ptr, join_lock>>
    BY <1>8 DEF reinsert, wake_joiner, take_join_waker, Go, Holds, Holding, hdrVars, joinVars
  <2> QED
    BY <1>8, <2>1, DropOwnInv, ZenonT(30) DEF reinsert, wake_joiner, Go
<1>9. CASE spawn_push(w, t)
  BY <1>9, SameOwnInv DEF spawn_push, hdrVars
<1> QED
  BY <1>1, <1>2, <1>3, <1>4, <1>5, <1>6, <1>7, <1>8, <1>9 DEF TaskPart

\* Steps of event sources, wakers, JoinHandles and spawn().
LEMMA AroundOwnInv ==
    ASSUME OwnTypes, OwnInv, NEW t \in Tasks, Around(t)
    PROVE  OwnInv'
<1>0. state = [state EXCEPT ![t] = state[t]]
  BY ZenonT(60)  DEF OwnTypes
<1>1. CASE (fire(t) \/ schedule_task_push(t)) /\ UNCHANGED <<workerVars, rootVars>>
  BY <1>1, SameOwnInv DEF fire, schedule_task_push, hdrVars, workerVars
<1>2. CASE (schedule_task_cas(t) \/ AbortStep(t)) /\ UNCHANGED <<workerVars, rootVars>>
  <2>1. UNCHANGED <<body_ptr, joinVars, tasks, pc, cur>>
    BY <1>2 DEF schedule_task_cas, AbortStep, abort_idle, abort_scheduled, workerVars
  <2>2. CASE state' = state
    BY <2>1, <2>2, SameOwnInv
  <2>3. CASE \E s \in {"SCHEDULED", "CANCELLED"} : /\ state[t] \in {"IDLE", "SCHEDULED"}
                                                  /\ state' = [state EXCEPT ![t] = s]
    BY <2>1, <2>3, MarkOwnInv, ZenonT(30)
  <2> QED
    BY <1>0, <1>2, <2>2, <2>3 DEF schedule_task_cas, AbortStep, abort_idle, abort_scheduled
<1>3. CASE JoinStep(t) /\ UNCHANGED <<workerVars, rootVars>>
  <2>0. take_output(t) \in {"ok", "cancelled"}
    BY Zenon DEF take_output
  <2>1. UNCHANGED <<state, body_ptr, tasks, pc, cur>>
    BY <1>3 DEF JoinStep, join_poll_fast, join_poll_recheck, join_poll_store, hdrVars, workerVars
  <2>2. CASE join_poll_fast(t)
    <3>1. PICK r \in {"ok", "cancelled", "lock"} : jh' = [jh EXCEPT ![t] = r]
      BY <2>2, <2>0, Zenon DEF join_poll_fast, join_finish
    <3>2. jh[t] = "poll" /\ UNCHANGED <<join_waker, join_lock>>
      BY <2>2 DEF join_poll_fast
    <3>3. JoinInv'
      BY <3>1, <3>2 DEF OwnTypes, OwnInv, JoinInv
    <3> QED
      BY <2>1, <3>1, <3>3, JoinOwnInv, ZenonT(30)
  <2>3. CASE join_poll_recheck(t)
    <3>1. jh[t] = "lock" /\ UNCHANGED join_waker
      BY <2>3 DEF join_poll_recheck
    <3>2. CASE join_finish(t) /\ UNCHANGED join_lock
      <4>1. PICK r \in {"ok", "cancelled"} : jh' = [jh EXCEPT ![t] = r]
        BY <2>0, <3>2, Zenon DEF join_finish
      <4>2. JoinInv'
        BY <3>1, <3>2, <4>1 DEF OwnTypes, OwnInv, JoinInv
      <4> QED
        BY <2>1, <4>1, <4>2, JoinOwnInv, ZenonT(30)
    <3>3. CASE /\ state[t] \notin Final /\ jh' = [jh EXCEPT ![t] = "store"]
               /\ join_lock' = [join_lock EXCEPT ![t] = TRUE]
      <4>1. JoinInv'
        BY <3>1, <3>3 DEF OwnTypes, OwnInv, JoinInv
      <4> QED
        BY <2>1, <3>3, <4>1, JoinOwnInv, ZenonT(30)
    <3> QED
      BY <2>3, <3>2, <3>3 DEF join_poll_recheck
  <2>4. CASE join_poll_store(t)
    <3>1. JoinInv'
      BY <2>4 DEF join_poll_store, OwnTypes, OwnInv, JoinInv
    <3>2. jh[t] = "store" /\ jh' = [jh EXCEPT ![t] = "pending"]
      BY <2>4 DEF join_poll_store
    <3> QED
      BY <2>1, <3>1, <3>2, JoinOwnInv, ZenonT(30)
  <2> QED
    BY <1>3, <2>2, <2>3, <2>4 DEF JoinStep
<1>4. ASSUME NEW w \in Workers, spawn_insert(w, t) PROVE OwnInv'
  BY <1>4, SpawnOwnInv, ZenonT(30) DEF spawn_insert, task_new
<1> QED
  BY <1>1, <1>2, <1>3, <1>4 DEF Around, WakeStep

LEMMA NextOwnInv == TypeOK /\ OwnInv /\ [Next]_vars => OwnInv'
<1> SUFFICES ASSUME TypeOK, OwnInv, [Next]_vars PROVE OwnInv'
  OBVIOUS
<1>0. OwnTypes
  BY TypesOfOwn
<1>1. CASE root_event
  BY <1>1, SameOwnInv DEF root_event, taskVars, hdrVars, workerVars
<1>2. ASSUME NEW w \in Workers, Worker(w) PROVE OwnInv'
  BY <1>0, <1>2, LoopOwnInv, TaskPartOwnInv DEF Worker
<1>3. ASSUME NEW t \in Tasks, Around(t) PROVE OwnInv'
  BY <1>0, <1>3, AroundOwnInv
<1>4. CASE UNCHANGED vars
  BY <1>4, SameOwnInv DEF vars, taskVars, hdrVars, workerVars
<1> QED
  BY <1>1, <1>2, <1>3, <1>4 DEF Next, Terminating

\* Ownership of the Task handles is an invariant of the executor.
THEOREM MultiOwnership == Spec => []OwnInv
  BY InitOwnInv, NextOwnInv, MultiTypeOK, PTL DEF Spec

\* With any number of workers, wakers and aborts, no two workers ever own the same
\* Task: the unsafe accesses of poll_task and cancel to body_ptr are exclusive.
THEOREM MultiExclusiveTask == Spec => []ExclusiveTask
<1>1. OwnInv => ExclusiveTask
  BY DEF OwnInv, HoldInv, Holds, ExclusiveTask, Owners
<1> QED
  BY <1>1, MultiOwnership, PTL

\* No worker polls a freed future, and a Task that is gone is finished and its future freed.
THEOREM MultiFutureOwned == Spec => []FutureOwned
<1>1. TypeOK /\ OwnInv => FutureOwned
  <2> SUFFICES ASSUME TypeOK, OwnInv PROVE FutureOwned
    OBVIOUS
  <2>1. \A w \in Workers : pc[w] \in {"run", "poll"} => \A t \in cur[w] : body_ptr[t]
    BY ZenonT(30) DEF TypeOK, OwnInv, HoldInv, Holds, Holding
  <2>2. \A t \in Tasks : state[t] # "NEW" /\ t \notin tasks /\ Owners(t) = {}
                         => state[t] \in Final /\ ~body_ptr[t]
    BY ZenonT(30) DEF TypeOK, OwnInv, GoneInv, Holds, Owners, Final
  <2> QED
    BY <2>1, <2>2 DEF FutureOwned
<1> QED
  BY <1>1, MultiOwnership, MultiTypeOK, PTL

\* A JoinHandle never misses the end of its task, however its poll interleaves with
\* the worker that completes or cancels the task.
THEOREM MultiJoinNotMissed == Spec => []JoinNotMissed
<1>1. OwnInv => JoinNotMissed
  BY DEF OwnInv, GoneInv, Holds, JoinNotMissed, Owners, Final
<1> QED
  BY <1>1, MultiOwnership, PTL

LEMMA CompletedStep ==
    ASSUME OwnTypes, OwnInv, [Next]_vars, NEW u \in Tasks, state[u] = "COMPLETED"
    PROVE  state'[u] = "COMPLETED"
<1>0. \A w \in Workers : u \in cur[w] => pc[w] \notin {"cancel", "run", "poll", "idle"}
  BY DEF OwnInv, HoldInv, Holds, Holding
<1>s. ASSUME NEW t \in Tasks, NEW s, state' = [state EXCEPT ![t] = s],
             t # u \/ s = "COMPLETED"
      PROVE  state'[u] = "COMPLETED"
  BY <1>s DEF OwnTypes
<1>1. CASE root_event
  BY <1>1 DEF root_event, taskVars, hdrVars
<1>2. ASSUME NEW w \in Workers, Worker(w) PROVE state'[u] = "COMPLETED"
  <2>1. CASE loop_top(w) \/ poll_root(w) \/ check_exit(w) \/ next_task(w) \/ no_task(w)
    BY <2>1, ZenonT(30) DEF loop_top, poll_root, check_exit, next_task, no_task, taskVars, hdrVars
  <2>2. ASSUME NEW t \in Tasks, TaskPart(w, t) PROVE state'[u] = "COMPLETED"
    <3>1. CASE cancel_task(w, t)
      BY <1>0, <1>s, <3>1, ZenonT(30) DEF cancel_task, cancel_body, Go
    <3>2. CASE start_poll(w, t)
      BY <1>0, <1>s, <3>2, ZenonT(60) DEF start_poll, poll_task_run, Go
    <3>3. CASE poll_body(w, t)
      BY <3>3 DEF poll_body, poll_body_pending, poll_body_ready, hdrVars
    <3>4. CASE end_poll(w, t)
      BY <1>0, <1>s, <3>4, ZenonT(30) DEF end_poll, poll_task_idle, poll_task_completed, Go
    <3>5. CASE load_state(w, t) \/ remove_final(w, t) \/ extract_task(w, t)
               \/ reinsert(w, t) \/ wake_joiner(w, t) \/ spawn_push(w, t)
      BY <3>5, ZenonT(30) DEF load_state, remove_final, extract_task, reinsert, wake_joiner,
                  take_join_waker, spawn_push, taskVars, hdrVars
    <3> QED
      BY <2>2, <3>1, <3>2, <3>3, <3>4, <3>5, ZenonT(30) DEF TaskPart
  <2> QED
    BY <1>2, <2>1, <2>2, ZenonT(30) DEF Worker
<1>3. ASSUME NEW t \in Tasks, Around(t) PROVE state'[u] = "COMPLETED"
  <2>1. CASE fire(t) \/ schedule_task_push(t) \/ JoinStep(t)
    BY <2>1, ZenonT(60) DEF fire, schedule_task_push, JoinStep, join_poll_fast, join_poll_recheck,
                join_poll_store, hdrVars
  <2>2. CASE schedule_task_cas(t)
    BY <1>s, <2>2 DEF schedule_task_cas
  <2>3. CASE AbortStep(t)
    <3>1. PICK s : /\ state' = [state EXCEPT ![t] = s]
                   /\ s = state[t] \/ state[t] \in {"IDLE", "SCHEDULED"}
      BY <2>3 DEF AbortStep, abort_idle, abort_scheduled
    <3> QED
      BY <1>s, <3>1
  <2>4. ASSUME NEW w \in Workers, spawn_insert(w, t) PROVE state'[u] = "COMPLETED"
    BY <1>s, <2>4 DEF spawn_insert, task_new
  <2> QED
    BY <1>3, <2>1, <2>2, <2>3, <2>4, ZenonT(30) DEF Around, WakeStep
<1>4. CASE UNCHANGED vars
  BY <1>4 DEF vars, taskVars, hdrVars
<1> QED
  BY <1>1, <1>2, <1>3, <1>4 DEF Next, Terminating

\* COMPLETED is final: no stale header, late wake or abort revives a completed task.
THEOREM MultiCompletedIsFinal == Spec => CompletedIsFinal
<1>1. TypeOK /\ OwnInv /\ [Next]_vars
      => [\A t \in Tasks : state[t] = "COMPLETED" => state'[t] = "COMPLETED"]_vars
  BY CompletedStep, TypesOfOwn
<1> QED
  BY <1>1, MultiTypeOK, MultiOwnership, PTL DEF Spec, CompletedIsFinal
=============================================================================
