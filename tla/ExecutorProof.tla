---------------------------- MODULE ExecutorProof ----------------------------
(***************************************************************************)
(* The queue discipline of the single-threaded executor, for any number of  *)
(* tasks and events, with wakers, aborts and joins on any thread.           *)
(***************************************************************************)
EXTENDS Executor, FiniteSetTheorems, TLAPS

In(q, t)    == \E i \in DOMAIN q : q[i] = t
Distinct(q) == \A i, j \in DOMAIN q : q[i] = q[j] => i = j
InHand(t)   == pc \in {"load", "run", "cancel"} /\ t \in cur

\* At most one header in hand, and none between two tasks.
CurInv ==
    /\ \A a, b \in cur : a = b
    /\ pc \in {"tick", "root", "exit", "drain", "recheck", "park", "done"} => cur = {}

\* A header is in one place at a time, and somewhere exactly while its task is scheduled
\* (or was, when an abort overtook it).
HeaderInv(t) ==
    /\ ~(In(global, t) /\ pushing[t]) /\ ~(In(global, t) /\ InHand(t))
    /\ ~(pushing[t] /\ InHand(t))
    /\ state[t] = "SCHEDULED" => In(global, t) \/ pushing[t] \/ InHand(t)
    /\ In(global, t) \/ pushing[t] \/ InHand(t) => state[t] \in {"SCHEDULED", "CANCELLED"}

\* What the loop knows of the task in hand.  Nobody else touches a RUNNING one.
HandInv(t) ==
    t \in cur =>
        /\ pc \in {"run", "poll", "idle", "complete"} => t \in tasks
        /\ pc \in {"poll", "idle", "complete"} => state[t] = "RUNNING"
        /\ pc = "cancel" => state[t] = "CANCELLED" /\ t \notin tasks
        /\ pc = "wakejoin" => state[t] \in Final
        /\ pc \in {"complete", "wakejoin"} => ~body_ptr[t]

\* A task owns its future while it is in the map, up to its last poll.
BodyInv(t) ==
    /\ t \in tasks => /\ state[t] # "NEW"
                      /\ body_ptr[t] \/ (t \in cur /\ pc \in {"complete", "wakejoin"})
    /\ state[t] = "NEW" => ~body_ptr[t]
    /\ t \notin tasks /\ body_ptr[t] => pc = "cancel" /\ t \in cur
    /\ state[t] = "COMPLETED" => ~body_ptr[t]
    /\ t \notin tasks => state[t] \in Final \cup {"NEW"}

QueueInv ==
    /\ Distinct(global)
    /\ CurInv
    /\ \A t \in Tasks : HeaderInv(t) /\ HandInv(t) /\ BodyInv(t)

-----------------------------------------------------------------------------
(* Headers in the global queue                                               *)

LEMMA AppendHeader ==
    ASSUME NEW q \in Seq(Tasks), NEW t \in Tasks, Distinct(q), ~In(q, t)
    PROVE  /\ Distinct(Append(q, t))
           /\ \A u : In(Append(q, t), u) <=> In(q, u) \/ u = t
<1>1. /\ DOMAIN Append(q, t) = 1..(Len(q) + 1) /\ DOMAIN q = 1..Len(q) /\ Len(q) \in Nat
      /\ \A i \in 1..Len(q) : Append(q, t)[i] = q[i]
      /\ Append(q, t)[Len(q) + 1] = t
  OBVIOUS
<1>2. Distinct(Append(q, t))
  <2> SUFFICES ASSUME NEW i \in 1..(Len(q) + 1), NEW j \in 1..(Len(q) + 1),
                      Append(q, t)[i] = Append(q, t)[j]
               PROVE  i = j
    BY <1>1 DEF Distinct
  <2>1. CASE i \in 1..Len(q) /\ j \in 1..Len(q)
    BY <1>1, <2>1 DEF Distinct
  <2>2. CASE i = Len(q) + 1 \/ j = Len(q) + 1
    BY <1>1, <2>2 DEF In
  <2> QED
    BY <1>1, <2>1, <2>2
<1>3. ASSUME NEW u PROVE In(Append(q, t), u) <=> In(q, u) \/ u = t
  <2>1. ASSUME In(Append(q, t), u), u # t PROVE In(q, u)
    <3>1. PICK i \in 1..(Len(q) + 1) : Append(q, t)[i] = u
      BY <1>1, <2>1 DEF In
    <3>2. i \in 1..Len(q)
      BY <1>1, <2>1, <3>1
    <3> QED
      BY <1>1, <3>1, <3>2 DEF In
  <2>2. ASSUME In(q, u) PROVE In(Append(q, t), u)
    <3>1. PICK i \in 1..Len(q) : q[i] = u
      BY <1>1, <2>2 DEF In
    <3>2. i \in DOMAIN Append(q, t) /\ Append(q, t)[i] = u
      BY <1>1, <3>1
    <3> QED
      BY <3>2 DEF In
  <2>3. In(Append(q, t), t)
    <3>1. Len(q) + 1 \in DOMAIN Append(q, t)
      BY <1>1
    <3> QED
      BY <1>1, <3>1 DEF In
  <2> QED
    BY <2>1, <2>2, <2>3
<1> QED
  BY <1>2, <1>3

LEMMA TailHeader ==
    ASSUME NEW q \in Seq(Tasks), q # <<>>, Distinct(q)
    PROVE  /\ Distinct(Tail(q)) /\ Tail(q) \in Seq(Tasks) /\ Head(q) \in Tasks
           /\ In(q, Head(q))
           /\ \A u : In(Tail(q), u) <=> In(q, u) /\ u # Head(q)
<1>1. /\ Len(q) \in Nat /\ Len(q) > 0 /\ DOMAIN q = 1..Len(q)
      /\ Tail(q) \in Seq(Tasks) /\ DOMAIN Tail(q) = 1..(Len(q) - 1)
      /\ \A i \in 1..(Len(q) - 1) : Tail(q)[i] = q[i + 1]
      /\ Head(q) = q[1]
  OBVIOUS
<1>2. 1 \in DOMAIN q /\ Head(q) \in Tasks
  BY <1>1
<1>3. In(q, Head(q))
  BY <1>1, <1>2 DEF In
<1>4. Distinct(Tail(q))
  <2> SUFFICES ASSUME NEW i \in 1..(Len(q) - 1), NEW j \in 1..(Len(q) - 1),
                      Tail(q)[i] = Tail(q)[j]
               PROVE  i = j
    BY <1>1 DEF Distinct
  <2>1. i + 1 \in DOMAIN q /\ j + 1 \in DOMAIN q /\ q[i + 1] = q[j + 1]
    BY <1>1
  <2>2. i + 1 = j + 1
    BY <2>1 DEF Distinct
  <2> QED
    BY <2>2
<1>5. ASSUME NEW u PROVE In(Tail(q), u) <=> In(q, u) /\ u # Head(q)
  <2>1. ASSUME In(Tail(q), u) PROVE In(q, u) /\ u # Head(q)
    <3>1. PICK i \in 1..(Len(q) - 1) : Tail(q)[i] = u
      BY <1>1, <2>1 DEF In
    <3>2. i + 1 \in DOMAIN q /\ q[i + 1] = u /\ i + 1 # 1
      BY <1>1, <3>1
    <3> QED
      BY <1>1, <1>2, <3>2 DEF In, Distinct
  <2>2. ASSUME In(q, u), u # Head(q) PROVE In(Tail(q), u)
    <3>1. PICK i \in 1..Len(q) : q[i] = u
      BY <1>1, <2>2 DEF In
    <3>2. i - 1 \in 1..(Len(q) - 1) /\ (i - 1) + 1 = i
      BY <1>1, <2>2, <3>1
    <3>3. Tail(q)[i - 1] = u
      BY <1>1, <3>1, <3>2
    <3> QED
      BY <1>1, <3>2, <3>3, Zenon DEF In
  <2> QED
    BY <2>1, <2>2
<1> QED
  BY <1>1, <1>2, <1>3, <1>4, <1>5

LEMMA QueuedOnce ==
    ASSUME NEW t, Distinct(global)
    PROVE  Queued(t) = IF In(global, t) THEN 1 ELSE 0
<1> DEFINE P == {i \in DOMAIN global : global[i] = t}
<1>1. CASE In(global, t)
  <2>1. PICK i \in DOMAIN global : global[i] = t
    BY <1>1 DEF In
  <2>2. P = {i}
    BY <2>1 DEF Distinct
  <2> QED
    BY <1>1, <2>2, FS_Singleton, Zenon DEF Queued
<1>2. CASE ~In(global, t)
  <2>1. P = {}
    BY <1>2 DEF In
  <2> QED
    BY <1>2, <2>1, FS_EmptySet DEF Queued
<1> QED
  BY <1>1, <1>2

-----------------------------------------------------------------------------
(* Types                                                                     *)

LEMMA InitTypeOK == Init => TypeOK
<1> SUFFICES ASSUME Init PROVE TypeOK
  OBVIOUS
<1> USE TaskAssumption DEF Init, TaskInit
<1>1. TaskTypeOK
  <2>1. global \in Seq(Tasks) /\ 0 \in Nat
    OBVIOUS
  <2> QED
    BY <2>1, Zenon DEF TaskTypeOK, States
<1> QED
  BY <1>1, Zenon DEF TypeOK, Pcs

\* The steps of the loop that work on the header in hand.
LEMMA TaskPartTypeOK ==
    ASSUME TypeOK, NEW t \in Tasks, t \in cur, TaskPart(t)
    PROVE  TypeOK'
<1> USE TaskAssumption DEF TypeOK, TaskTypeOK, States, Pcs, hdrVars, joinVars, wakerVars,
        futureVars, taskVars, loopVars, Go
<1>1. CASE load_state(t)
  BY <1>1, SMTT(60) DEF load_state
<1>2. CASE cancel_task(t)
  BY <1>2 DEF cancel_task, cancel_body
<1>3. CASE start_poll(t)
  BY <1>3 DEF start_poll, poll_task_run
<1>4. CASE poll_body(t)
  <2>1. CASE Go("poll", "idle") /\ poll_body_pending(t)
    BY <1>4, <2>1, SMTT(60) DEF poll_body, poll_body_pending
  <2>2. CASE Go("poll", "complete") /\ poll_body_ready(t)
    BY <1>4, <2>2, SMTT(60) DEF poll_body, poll_body_ready
  <2> QED
    BY <1>4, <2>1, <2>2, SMTT(60) DEF poll_body
<1>5. CASE end_poll(t)
  <2>1. CASE Go("idle", "drain") /\ poll_task_idle(t) /\ cur' = {}
    BY <1>5, <2>1, SMTT(60) DEF end_poll, poll_task_idle
  <2>2. CASE Go("complete", "wakejoin") /\ poll_task_completed(t) /\ UNCHANGED cur
    BY <1>5, <2>2, SMTT(60) DEF end_poll, poll_task_completed
  <2> QED
    BY <1>5, <2>1, <2>2, SMTT(60) DEF end_poll
<1>6. CASE wake_joiner(t)
  BY <1>6, SMTT(60) DEF wake_joiner, take_join_waker
<1> QED
  BY <1>1, <1>2, <1>3, <1>4, <1>5, <1>6, ZenonT(60) DEF TaskPart

\* The steps of wakers, aborts and JoinHandles, on any thread.
LEMMA RemoteTypeOK ==
    ASSUME TypeOK, NEW t \in Tasks, WakeStep(t) \/ AbortStep(t) \/ JoinStep(t),
           UNCHANGED loopVars
    PROVE  TypeOK'
<1> USE TaskAssumption DEF TypeOK, TaskTypeOK, States, Pcs, hdrVars, joinVars, wakerVars,
        futureVars, taskVars, loopVars
<1>1. CASE schedule_task_cas(t)
  <2>1. waking' \in [Tasks -> Nat]
    BY <1>1 DEF schedule_task_cas
  <2>2. state' \in [Tasks -> States] /\ pushing' \in [Tasks -> BOOLEAN]
    BY <1>1, ZenonT(30) DEF schedule_task_cas
  <2> QED
    BY <1>1, <2>1, <2>2, SMTT(60) DEF schedule_task_cas
<1>2. CASE schedule_task_push(t)
  BY <1>2, SMTT(60) DEF schedule_task_push
<1>3. CASE abort_idle(t)
  BY <1>3, SMTT(60) DEF abort_idle
<1>4. CASE abort_scheduled(t)
  BY <1>4, SMTT(60) DEF abort_scheduled
<1>5. take_output(t) \in {"ok", "cancelled"}
  BY Zenon DEF take_output
<1>6. CASE join_poll_fast(t)
  <2>1. output' \in [Tasks -> BOOLEAN]
    BY <1>6, ZenonT(30) DEF join_poll_fast, join_finish
  <2>2. PICK r \in {"ok", "cancelled", "lock"} : jh' = [jh EXCEPT ![t] = r]
    BY <1>5, <1>6, Zenon DEF join_poll_fast, join_finish
  <2> QED
    BY <1>6, <2>1, <2>2, SMTT(60) DEF join_poll_fast
<1>7. CASE join_poll_recheck(t)
  <2>1. output' \in [Tasks -> BOOLEAN] /\ join_lock' \in [Tasks -> BOOLEAN]
    BY <1>7, ZenonT(60) DEF join_poll_recheck, join_finish
  <2>2. PICK r \in {"ok", "cancelled", "store"} : jh' = [jh EXCEPT ![t] = r]
    BY <1>5, <1>7, ZenonT(60) DEF join_poll_recheck, join_finish
  <2> QED
    BY <1>7, <2>1, <2>2, ZenonT(60) DEF join_poll_recheck
<1>8. CASE join_poll_store(t)
  BY <1>8, SMTT(60) DEF join_poll_store
<1> QED
  BY <1>1, <1>2, <1>3, <1>4, <1>6, <1>7, <1>8, Zenon DEF WakeStep, AbortStep, JoinStep

LEMMA NextTypeOK == TypeOK /\ [Next]_vars => TypeOK'
<1> SUFFICES ASSUME TypeOK, [Next]_vars PROVE TypeOK'
  OBVIOUS
<1> USE TaskAssumption DEF TypeOK, TaskTypeOK, States, Pcs, hdrVars, joinVars, wakerVars,
        futureVars, taskVars, loopVars, Go
<1>1. CASE tick_timers \/ poll_root \/ check_exit \/ recheck_exit \/ park \/ root_event
  BY <1>1, ZenonT(60) DEF tick_timers, poll_root, check_exit, recheck_exit, park, root_event
<1>2. CASE next_task
  <2>1. CASE global = <<>>
    BY <1>2, <2>1 DEF next_task
  <2>2. CASE global # <<>>
    <3>1. Head(global) \in Tasks /\ Tail(global) \in Seq(Tasks)
      BY <2>2
    <3>2. global' = Tail(global) /\ cur' = {Head(global)} /\ did_work' = TRUE /\ pc' = "load"
      BY <1>2, <2>2 DEF next_task
    <3> QED
      BY <1>2, <3>1, <3>2, Zenon DEF next_task
  <2> QED
    BY <2>1, <2>2, Zenon
<1>3. ASSUME NEW t \in cur, TaskPart(t) PROVE TypeOK'
  BY <1>3, TaskPartTypeOK, Zenon
<1>4. ASSUME NEW t \in Tasks, spawn(t) PROVE TypeOK'
  BY <1>4 DEF spawn, task_new
<1>5. ASSUME NEW t \in Tasks, local_event(t) PROVE TypeOK'
  <2>1. fired' \in [Tasks -> Nat]
    BY <1>5 DEF local_event
  <2>3. global' \in Seq(Tasks)
    <3>1. global' = Append(global, t) \/ global' = global
      BY <1>5, Zenon DEF local_event
    <3>2. global \in Seq(Tasks)
      OBVIOUS
    <3>3. Append(global, t) \in Seq(Tasks)
      BY <3>2, <1>5
    <3> QED
      BY <3>1, <3>2, <3>3, Zenon
  <2>2. state' \in [Tasks -> States] /\ armed' \in [Tasks -> BOOLEAN]
    BY <1>5, ZenonT(30) DEF local_event
  <2> QED
    BY <1>5, <2>1, <2>2, <2>3, ZenonT(60) DEF local_event
<1>6. ASSUME NEW t \in Tasks, remote_event(t) PROVE TypeOK'
  <2>1. fired' \in [Tasks -> Nat] /\ waking' \in [Tasks -> Nat] /\ armed' \in [Tasks -> BOOLEAN]
    BY <1>6, SMTT(60) DEF remote_event, fire
  <2> QED
    BY <1>6, <2>1 DEF remote_event, fire
<1>7. ASSUME NEW t \in Tasks, WakeStep(t) \/ AbortStep(t) \/ JoinStep(t), UNCHANGED loopVars
      PROVE  TypeOK'
  BY <1>7, RemoteTypeOK, ZenonT(60)
<1>8. CASE UNCHANGED vars
  BY <1>8 DEF vars
<1> QED
  BY <1>1, <1>2, <1>3, <1>4, <1>5, <1>6, <1>7, <1>8, ZenonT(30)
     DEF Next, Loop, Around, Terminating

\* The state of block_on and of its tasks is well typed, for any number of tasks and events.
THEOREM ExecutorTypeOK == Spec => []TypeOK
  BY InitTypeOK, NextTypeOK, PTL DEF Spec

-----------------------------------------------------------------------------
(* Each kind of step keeps QueueInv                                          *)

Between == {"tick", "root", "exit", "drain", "recheck", "park", "done"}

\* Steps that touch neither headers nor tasks, nor what the loop holds.
LEMMA QuietStep ==
    ASSUME QueueInv, UNCHANGED <<state, body_ptr, global, pushing, tasks, cur>>,
           pc' = pc \/ (pc \in Between /\ pc' \in Between)
    PROVE  QueueInv'
<1>1. Distinct(global)' /\ CurInv'
  BY DEF QueueInv, Distinct, CurInv, Between
<1>2. ASSUME NEW u \in Tasks PROVE (HeaderInv(u) /\ HandInv(u) /\ BodyInv(u))'
  <2>1. HeaderInv(u) /\ HandInv(u) /\ BodyInv(u) /\ CurInv
    BY DEF QueueInv
  <2>2. In(global', u) <=> In(global, u)
    OBVIOUS
  <2>3. CASE pc' = pc
    BY <2>1, <2>2, <2>3 DEF HeaderInv, HandInv, BodyInv, InHand
  <2>4. CASE pc \in Between /\ pc' \in Between
    BY <2>1, <2>2, <2>4 DEF HeaderInv, HandInv, BodyInv, InHand, CurInv, Between
  <2> QED
    BY <2>3, <2>4
<1> QED
  BY <1>1, <1>2 DEF QueueInv

\* next_task takes the first header of the queue.
LEMMA PopStep ==
    ASSUME TypeOK, QueueInv, next_task
    PROVE  QueueInv'
<1> USE DEF hdrVars, joinVars, futureVars, wakerVars
<1>1. CASE global = <<>>
  BY <1>1, QuietStep DEF next_task, Between
<1>2. CASE global # <<>>
  <2> DEFINE h == Head(global)
  <2>1. /\ global' = Tail(global) /\ cur' = {h} /\ pc = "drain" /\ pc' = "load"
        /\ UNCHANGED <<state, body_ptr, pushing, tasks>>
    BY <1>2 DEF next_task
  <2>2. global \in Seq(Tasks) /\ Distinct(global)
    BY DEF TypeOK, TaskTypeOK, QueueInv
  <2>3. /\ Distinct(global') /\ h \in Tasks /\ In(global, h)
        /\ \A u : In(global', u) <=> In(global, u) /\ u # h
    BY <1>2, <2>1, <2>2, TailHeader
  <2>4. CurInv'
    BY <2>1 DEF CurInv
  <2>5. ASSUME NEW u \in Tasks PROVE (HeaderInv(u) /\ HandInv(u) /\ BodyInv(u))'
    <3>1. HeaderInv(u) /\ HandInv(u) /\ BodyInv(u) /\ cur = {}
      BY <2>1 DEF QueueInv, CurInv
    <3>2. In(global', u) <=> In(global, u) /\ u # h
      BY <2>3, SMTT(60)
    <3>3. HeaderInv(u)'
      BY <2>1, <2>3, <3>1, <3>2, SMTT(60) DEF HeaderInv, InHand
    <3>4. HandInv(u)' /\ BodyInv(u)'
      BY <2>1, <3>1 DEF HandInv, BodyInv
    <3> QED
      BY <3>3, <3>4
  <2> QED
    BY <2>3, <2>4, <2>5 DEF QueueInv
<1> QED
  BY <1>1, <1>2

\* The steps on the header in hand leave the queue and the pushes alone.
LEMMA HandStep ==
    ASSUME TypeOK, QueueInv, NEW t \in Tasks, t \in cur, TaskPart(t)
    PROVE  QueueInv'
<1> USE DEF hdrVars, joinVars, futureVars, wakerVars, Go
<1>0. UNCHANGED <<global, pushing>> /\ (cur' = cur \/ cur' = {})
  <2>1. CASE load_state(t) BY <2>1 DEF load_state
  <2>2. CASE cancel_task(t) BY <2>2 DEF cancel_task, cancel_body
  <2>3. CASE start_poll(t) BY <2>3 DEF start_poll, poll_task_run
  <2>4. CASE poll_body(t) BY <2>4 DEF poll_body, poll_body_pending, poll_body_ready
  <2>5. CASE end_poll(t) BY <2>5 DEF end_poll, poll_task_idle, poll_task_completed
  <2>6. CASE wake_joiner(t) BY <2>6 DEF wake_joiner, take_join_waker
  <2> QED BY <2>1, <2>2, <2>3, <2>4, <2>5, <2>6, SMTT(60) DEF TaskPart
<1>1. cur = {t} /\ CurInv
  BY DEF QueueInv, CurInv
<1>2. /\ state \in [Tasks -> States] /\ body_ptr \in [Tasks -> BOOLEAN]
      /\ tasks \subseteq Tasks
  BY DEF TypeOK, TaskTypeOK
<1>3. Distinct(global)'
  BY <1>0, SMTT(60) DEF QueueInv, Distinct
<1>4. ASSUME NEW u \in Tasks
      PROVE  (HeaderInv(u) /\ HandInv(u) /\ BodyInv(u))' /\ CurInv'
  <2>1. HeaderInv(u) /\ HandInv(u) /\ BodyInv(u) /\ HeaderInv(t) /\ HandInv(t) /\ BodyInv(t)
    BY DEF QueueInv
  <2>2. In(global', u) <=> In(global, u)
    BY <1>0, SMTT(60)
  <2> USE <1>0, <1>1, <1>2, <2>1, <2>2 DEF HeaderInv, HandInv, BodyInv, InHand, CurInv, States, Final
  <2>3. CASE load_state(t)
    <3>1. /\ pc = "load" /\ UNCHANGED <<state, body_ptr>>
          /\ tasks' = IF state[t] \in Final THEN tasks \ {t} ELSE tasks
      BY <2>3, SMTT(60) DEF load_state
    <3>2. CASE t \notin tasks \/ state[t] = "COMPLETED"
      <4>1. pc' = "drain" /\ cur' = {}
        BY <2>3, <3>2, SMTT(60) DEF load_state
      <4> QED
        BY <3>1, <3>2, <4>1, SMTT(60)
    <3>3. CASE t \in tasks /\ state[t] = "CANCELLED"
      <4>1. pc' = "cancel" /\ cur' = cur
        BY <2>3, <3>3, SMTT(60) DEF load_state
      <4> QED
        BY <3>1, <3>3, <4>1, SMTT(60)
    <3>4. CASE t \in tasks /\ state[t] \notin Final
      <4>1. pc' = "run" /\ cur' = cur
        BY <2>3, <3>4, SMTT(60) DEF load_state
      <4> QED
        BY <3>1, <3>4, <4>1, SMTT(60)
    <3> QED
      BY <3>2, <3>3, <3>4, ZenonT(60)
  <2>4. CASE cancel_task(t)
    BY <2>4, SMTT(60) DEF cancel_task, cancel_body
  <2>5. CASE start_poll(t)
    BY <2>5, SMTT(60) DEF start_poll, poll_task_run
  <2>6. CASE poll_body(t)
    <3>1. CASE Go("poll", "idle") /\ poll_body_pending(t)
      BY <2>6, <3>1, ZenonT(60) DEF poll_body, poll_body_pending
    <3>2. CASE Go("poll", "complete") /\ poll_body_ready(t)
      BY <2>6, <3>2, ZenonT(60) DEF poll_body, poll_body_ready
    <3> QED
      BY <2>6, <3>1, <3>2, ZenonT(60) DEF poll_body
  <2>7. CASE end_poll(t)
    <3>1. CASE Go("idle", "drain") /\ poll_task_idle(t) /\ cur' = {}
      BY <2>7, <3>1, SMTT(60) DEF end_poll, poll_task_idle
    <3>2. CASE Go("complete", "wakejoin") /\ poll_task_completed(t) /\ UNCHANGED cur
      BY <2>7, <3>2, SMTT(60) DEF end_poll, poll_task_completed
    <3> QED
      BY <2>7, <3>1, <3>2, ZenonT(60) DEF end_poll
  <2>8. CASE wake_joiner(t)
    BY <2>8, Zenon DEF wake_joiner, take_join_waker
  <2> QED
    BY <2>3, <2>4, <2>5, <2>6, <2>7, <2>8, ZenonT(60) DEF TaskPart
<1> QED
  BY <1>3, <1>4 DEF QueueInv

\* Executor::spawn queues the header of a task that had none.
LEMMA SpawnStep ==
    ASSUME TypeOK, QueueInv, NEW t \in Tasks, spawn(t)
    PROVE  QueueInv'
<1> USE DEF joinVars, futureVars, wakerVars, loopVars
<1>1. /\ state[t] = "NEW" /\ state' = [state EXCEPT ![t] = "SCHEDULED"]
      /\ body_ptr' = [body_ptr EXCEPT ![t] = TRUE]
      /\ global' = Append(global, t) /\ tasks' = tasks \cup {t}
      /\ UNCHANGED <<pushing, pc, cur>>
      /\ pc \in {"poll", "root"}
  BY DEF spawn, task_new
<1>2. /\ state \in [Tasks -> States] /\ body_ptr \in [Tasks -> BOOLEAN]
      /\ global \in Seq(Tasks) /\ HeaderInv(t) /\ HandInv(t) /\ BodyInv(t)
  BY SMTT(60) DEF TypeOK, TaskTypeOK, QueueInv
<1>3. ~In(global, t) /\ ~pushing[t] /\ ~InHand(t) /\ t \notin cur
  BY <1>1, <1>2 DEF HeaderInv, HandInv, InHand, QueueInv, CurInv
<1>4. Distinct(global') /\ \A u : In(global', u) <=> In(global, u) \/ u = t
  BY <1>1, <1>2, <1>3, AppendHeader DEF QueueInv
<1>5. CurInv'
  BY <1>1, SMTT(60) DEF CurInv, QueueInv
<1>6. ASSUME NEW u \in Tasks PROVE (HeaderInv(u) /\ HandInv(u) /\ BodyInv(u))'
  <2>1. HeaderInv(u) /\ HandInv(u) /\ BodyInv(u) /\ (In(global', u) <=> In(global, u) \/ u = t)
    BY <1>4 DEF QueueInv
  <2> QED
    BY <1>1, <1>2, <1>3, <2>1 DEF HeaderInv, HandInv, BodyInv, InHand
<1> QED
  BY <1>4, <1>5, <1>6 DEF QueueInv

\* A waker on this thread: schedule_task to its end.
LEMMA LocalEventStep ==
    ASSUME TypeOK, QueueInv, NEW t \in Tasks, local_event(t)
    PROVE  QueueInv'
<1> USE DEF joinVars, wakerVars, loopVars
<1>1. CASE ~(armed[t] /\ state[t] = "IDLE")
  BY <1>1, QuietStep, SMTT(60) DEF local_event
<1>2. CASE armed[t] /\ state[t] = "IDLE"
  <2>1. /\ state[t] = "IDLE" /\ state' = [state EXCEPT ![t] = "SCHEDULED"]
        /\ global' = Append(global, t)
        /\ UNCHANGED <<body_ptr, tasks, pushing, pc, cur>>
    BY <1>2 DEF local_event
  <2>2. /\ state \in [Tasks -> States] /\ global \in Seq(Tasks) /\ HeaderInv(t)
    BY DEF TypeOK, TaskTypeOK, QueueInv
  <2>3. ~In(global, t) /\ ~pushing[t] /\ ~InHand(t)
    BY <2>1, <2>2 DEF HeaderInv
  <2>4. Distinct(global') /\ \A u : In(global', u) <=> In(global, u) \/ u = t
    BY <2>1, <2>2, <2>3, AppendHeader, SMTT(60) DEF QueueInv
  <2>5. CurInv'
    BY <2>1, SMTT(60) DEF CurInv, QueueInv
  <2>6. ASSUME NEW u \in Tasks PROVE (HeaderInv(u) /\ HandInv(u) /\ BodyInv(u))'
    <3>1. HeaderInv(u) /\ HandInv(u) /\ BodyInv(u) /\ (In(global', u) <=> In(global, u) \/ u = t)
      BY <2>4 DEF QueueInv
    <3> QED
      BY <2>1, <2>2, <2>3, <3>1, SMTT(60) DEF HeaderInv, HandInv, BodyInv, InHand, Final
  <2> QED
    BY <2>4, <2>5, <2>6 DEF QueueInv
<1> QED
  BY <1>1, <1>2, SMTT(60)

\* A waker on any thread: the compare_exchange of schedule_task, then its push_header.
LEMMA WakeStepInv ==
    ASSUME TypeOK, QueueInv, NEW t \in Tasks, WakeStep(t), UNCHANGED loopVars
    PROVE  QueueInv'
<1> USE DEF hdrVars, joinVars, futureVars, loopVars
<1>0. /\ state \in [Tasks -> States] /\ global \in Seq(Tasks) /\ pushing \in [Tasks -> BOOLEAN]
      /\ HeaderInv(t) /\ Distinct(global) /\ CurInv'
  BY DEF TypeOK, TaskTypeOK, QueueInv, CurInv
<1>1. CASE schedule_task_cas(t) /\ state[t] # "IDLE"
  BY <1>1, QuietStep DEF schedule_task_cas
<1>2. CASE schedule_task_cas(t) /\ state[t] = "IDLE"
  <2>1. /\ state' = [state EXCEPT ![t] = "SCHEDULED"] /\ pushing' = [pushing EXCEPT ![t] = TRUE]
        /\ UNCHANGED <<body_ptr, tasks, global, pc, cur>>
    BY <1>2, SMTT(60) DEF schedule_task_cas
  <2>2. ASSUME NEW u \in Tasks PROVE (HeaderInv(u) /\ HandInv(u) /\ BodyInv(u))'
    <3>1. HeaderInv(u) /\ HandInv(u) /\ BodyInv(u) /\ (In(global', u) <=> In(global, u))
      BY <2>1 DEF QueueInv
    <3> QED
      BY <1>0, <1>2, <2>1, <3>1, SMTT(60) DEF HeaderInv, HandInv, BodyInv, InHand, Final
  <2> QED
    BY <1>0, <2>1, <2>2, SMTT(60) DEF QueueInv
<1>3. CASE schedule_task_push(t)
  <2>1. /\ pushing[t] /\ pushing' = [pushing EXCEPT ![t] = FALSE] /\ global' = Append(global, t)
        /\ UNCHANGED <<state, body_ptr, tasks, pc, cur>>
    BY <1>3, SMTT(60) DEF schedule_task_push
  <2>2. Distinct(global') /\ \A u : In(global', u) <=> In(global, u) \/ u = t
    BY <1>0, <2>1, AppendHeader, SMTT(60) DEF HeaderInv
  <2>3. ASSUME NEW u \in Tasks PROVE (HeaderInv(u) /\ HandInv(u) /\ BodyInv(u))'
    <3>1. HeaderInv(u) /\ HandInv(u) /\ BodyInv(u) /\ (In(global', u) <=> In(global, u) \/ u = t)
      BY <2>2 DEF QueueInv
    <3> QED
      BY <1>0, <2>1, <3>1 DEF HeaderInv, HandInv, BodyInv, InHand
  <2> QED
    BY <1>0, <2>2, <2>3, SMTT(60) DEF QueueInv
<1> QED
  BY <1>1, <1>2, <1>3, SMTT(60) DEF WakeStep

\* The two compare_exchanges of abort, from IDLE and from SCHEDULED.
LEMMA AbortStepInv ==
    ASSUME TypeOK, QueueInv, NEW t \in Tasks, AbortStep(t), UNCHANGED loopVars
    PROVE  QueueInv'
<1> USE DEF joinVars, futureVars, wakerVars, loopVars
<1>1. /\ \/ UNCHANGED state
         \/ state[t] \in {"IDLE", "SCHEDULED"} /\ state' = [state EXCEPT ![t] = "CANCELLED"]
      /\ UNCHANGED <<body_ptr, tasks, global, pushing, pc, cur>>
  BY DEF AbortStep, abort_idle, abort_scheduled, TypeOK, TaskTypeOK
<1>2. state \in [Tasks -> States] /\ Distinct(global') /\ CurInv'
  BY <1>1, SMTT(60) DEF TypeOK, TaskTypeOK, QueueInv, CurInv
<1>3. ASSUME NEW u \in Tasks PROVE (HeaderInv(u) /\ HandInv(u) /\ BodyInv(u))'
  <2>1. HeaderInv(u) /\ HandInv(u) /\ BodyInv(u) /\ (In(global', u) <=> In(global, u))
    BY <1>1 DEF QueueInv
  <2> QED
    BY <1>1, <1>2, <2>1, ZenonT(60) DEF HeaderInv, HandInv, BodyInv, InHand, Final
<1> QED
  BY <1>2, <1>3, SMTT(60) DEF QueueInv

LEMMA NextQueueInv == TypeOK /\ QueueInv /\ [Next]_vars => QueueInv'
<1> SUFFICES ASSUME TypeOK, QueueInv, [Next]_vars PROVE QueueInv'
  BY SMTT(60)
<1> USE DEF hdrVars, joinVars, futureVars, wakerVars, taskVars, loopVars, Go
<1>1. CASE tick_timers \/ poll_root \/ check_exit \/ recheck_exit \/ park \/ root_event
  BY <1>1, QuietStep DEF tick_timers, poll_root, check_exit, recheck_exit, park, root_event, Between
<1>2. CASE next_task
  BY <1>2, PopStep
<1>3. ASSUME NEW t \in cur, TaskPart(t) PROVE QueueInv'
  BY <1>3, HandStep DEF TypeOK
<1>4. ASSUME NEW t \in Tasks, spawn(t) PROVE QueueInv'
  BY <1>4, SpawnStep
<1>5. ASSUME NEW t \in Tasks, local_event(t) PROVE QueueInv'
  BY <1>5, LocalEventStep, SMTT(60)
<1>6. ASSUME NEW t \in Tasks, remote_event(t) PROVE QueueInv'
  BY <1>6, QuietStep DEF remote_event, fire
<1>7. ASSUME NEW t \in Tasks, WakeStep(t) \/ AbortStep(t), UNCHANGED loopVars PROVE QueueInv'
  BY <1>7, WakeStepInv, AbortStepInv
<1>8. ASSUME NEW t \in Tasks, JoinStep(t), UNCHANGED loopVars PROVE QueueInv'
  <2>1. UNCHANGED <<state, body_ptr, global, pushing, tasks, cur, pc>>
    BY <1>8 DEF JoinStep, join_poll_fast, join_poll_recheck, join_poll_store
  <2> QED
    BY <2>1, QuietStep, SMTT(60)
<1>9. CASE UNCHANGED vars
  BY <1>9, QuietStep, SMTT(60) DEF vars
<1> QED
  BY <1>1, <1>2, <1>3, <1>4, <1>5, <1>6, <1>7, <1>8, <1>9, ZenonT(60)
     DEF Next, Loop, Around, Terminating

LEMMA InitQueueInv == Init => QueueInv
<1> SUFFICES ASSUME Init PROVE QueueInv
  OBVIOUS
<1>1. global = <<>> /\ cur = {} /\ pc = "tick" /\ tasks = {}
      /\ \A t \in Tasks : state[t] = "NEW" /\ body_ptr[t] = FALSE /\ pushing[t] = FALSE
  BY SMTT(60) DEF Init, TaskInit
<1>2. Distinct(global) /\ \A t : ~In(global, t)
  BY <1>1 DEF Distinct, In
<1> QED
  BY <1>1, <1>2 DEF QueueInv, CurInv, HeaderInv, HandInv, BodyInv, InHand, Final

\* The inductive invariant of the executor's queue: where each header is, what the loop knows
\* of the one in hand (next_task, block_on) and who owns a task's future.
THEOREM ExecutorQueueInv == Spec => []QueueInv
<1>1. TypeOK /\ QueueInv /\ [Next]_vars => (TypeOK /\ QueueInv)'
  BY NextTypeOK, NextQueueInv, SMTT(60)
<1> QED
  BY InitTypeOK, InitQueueInv, <1>1, PTL DEF Spec

LEMMA QueueInvGivesScheduled == TypeOK /\ QueueInv => ScheduledIsQueued
<1> SUFFICES ASSUME TypeOK, QueueInv PROVE ScheduledIsQueued
  BY SMTT(60)
<1>1. ASSUME NEW t \in Tasks
      PROVE  /\ Headers(t) <= 1
             /\ state[t] = "SCHEDULED" => Headers(t) = 1
             /\ state[t] = "IDLE" => Headers(t) = 0
  <2>1. Queued(t) = IF In(global, t) THEN 1 ELSE 0
    BY QueuedOnce DEF QueueInv
  <2>2. HeaderInv(t)
    BY SMTT(60) DEF QueueInv
  <2> QED
    BY <2>1, <2>2 DEF HeaderInv, InHand, Headers
<1>2. ASSUME pc \in {"run", "poll"}, NEW t \in cur PROVE body_ptr[t]
  <2>1. t \in Tasks /\ HandInv(t) /\ BodyInv(t)
    BY <1>2 DEF TypeOK, QueueInv
  <2> QED
    BY <1>2, <2>1 DEF HandInv, BodyInv
<1>3. ASSUME NEW t \in Tasks, state[t] # "NEW", t \notin tasks, ~(pc = "cancel" /\ t \in cur)
      PROVE  ~body_ptr[t]
  BY <1>3 DEF QueueInv, BodyInv
<1> QED
  BY <1>1, <1>2, <1>3 DEF ScheduledIsQueued

\* The queue discipline of schedule_task, next_task and abort for any number of tasks and
\* events, whichever threads call wakers and handles: one header while a task is scheduled, none
\* while it is idle, and a future in every task that is polled.
THEOREM ExecutorScheduledIsQueued == Spec => []ScheduledIsQueued
<1>1. TypeOK /\ QueueInv => ScheduledIsQueued
  BY QueueInvGivesScheduled
<1> QED
  BY ExecutorTypeOK, ExecutorQueueInv, <1>1, PTL
-----------------------------------------------------------------------------
(* What a finished task and a waker on this thread can rely on               *)

\* JoinHandle::poll reads COMPLETED and takes the output: no store of the loop, no waker and no
\* abort brings a completed task back.
THEOREM ExecutorCompletedIsFinal ==
    Spec => [][\A t \in Tasks : state[t] = "COMPLETED" => state'[t] = "COMPLETED"]_vars
<1>1. ASSUME TypeOK, QueueInv, [Next]_vars, NEW t \in Tasks, state[t] = "COMPLETED"
      PROVE  state'[t] = "COMPLETED"
  <2> USE DEF hdrVars, joinVars, futureVars, wakerVars, taskVars, loopVars, Go
  <2>1. /\ state \in [Tasks -> States]
        /\ HeaderInv(t) /\ HandInv(t)
    BY <1>1 DEF TypeOK, TaskTypeOK, QueueInv
  <2>2. CASE UNCHANGED state
    BY <1>1, <2>2
  <2>3. ASSUME NEW u \in Tasks, u \in cur, TaskPart(u) PROVE state'[t] = "COMPLETED"
    <3>1. CASE load_state(u) \/ poll_body(u) \/ wake_joiner(u)
      BY <1>1, <3>1, SMTT(60) DEF load_state, poll_body, poll_body_pending, poll_body_ready, wake_joiner,
                        take_join_waker
    <3>2. CASE cancel_task(u)
      BY <1>1, <2>1, <2>3, <3>2, SMTT(60) DEF cancel_task, cancel_body, HandInv
    <3>3. CASE start_poll(u)
      BY <1>1, <2>1, <2>3, <3>3, SMTT(60) DEF start_poll, poll_task_run, HeaderInv, InHand
    <3>4. CASE end_poll(u)
      BY <1>1, <2>1, <2>3, <3>4, SMTT(60) DEF end_poll, poll_task_idle, poll_task_completed, HandInv
    <3> QED
      BY <2>3, <3>1, <3>2, <3>3, <3>4, SMTT(60) DEF TaskPart
  <2>4. ASSUME NEW u \in Tasks, Around(u) PROVE state'[t] = "COMPLETED"
    BY <1>1, <2>1, <2>4, ZenonT(60)
       DEF Around, spawn, task_new, local_event, remote_event, fire, WakeStep, schedule_task_cas,
           schedule_task_push, AbortStep, abort_idle, abort_scheduled, JoinStep, join_poll_fast,
           join_poll_recheck, join_poll_store
  <2>5. CASE tick_timers \/ poll_root \/ check_exit \/ next_task \/ recheck_exit \/ park
             \/ root_event \/ UNCHANGED vars
    BY <2>2, <2>5 DEF tick_timers, poll_root, check_exit, next_task, recheck_exit, park,
                      root_event, vars
  <2>6. cur \subseteq Tasks
    BY <1>1 DEF TypeOK
  <2> QED
    BY <1>1, <2>3, <2>4, <2>5, <2>6, SMTT(60) DEF Next, Loop, Terminating
<1>2. TypeOK /\ QueueInv /\ [Next]_vars
      => [\A t \in Tasks : state[t] = "COMPLETED" => state'[t] = "COMPLETED"]_vars
  BY <1>1, SMTT(60)
<1> QED
  BY ExecutorTypeOK, ExecutorQueueInv, <1>2, PTL DEF Spec

\* A task whose wakers are called on this thread, outside its own poll, has left its waker
\* with its event source and seen every event when it becomes idle.
IdleInv ==
    \A t \in Tasks \ Racing :
        state[t] = "IDLE" \/ (pc = "idle" /\ t \in cur) => armed[t] /\ seen[t] = fired[t]

LEMMA NextIdleInv == TypeOK /\ QueueInv /\ IdleInv /\ [Next]_vars => IdleInv'
<1> SUFFICES ASSUME TypeOK, QueueInv, IdleInv, [Next]_vars, NEW u \in Tasks \ Racing
             PROVE  (state[u] = "IDLE" \/ (pc = "idle" /\ u \in cur)
                     => armed[u] /\ seen[u] = fired[u])'
  BY ZenonT(60) DEF IdleInv
<1> USE DEF hdrVars, joinVars, futureVars, wakerVars, taskVars, loopVars, Go
<1>1. /\ state \in [Tasks -> States] /\ armed \in [Tasks -> BOOLEAN]
      /\ seen \in [Tasks -> Nat] /\ fired \in [Tasks -> Nat] /\ cur \subseteq Tasks
      /\ u \in Tasks /\ u \notin Racing
      /\ HandInv(u) /\ CurInv
      /\ state[u] = "IDLE" \/ (pc = "idle" /\ u \in cur) => armed[u] /\ seen[u] = fired[u]
  BY DEF TypeOK, TaskTypeOK, QueueInv, IdleInv
<1>2. CASE /\ UNCHANGED <<fired, seen, armed>>
           /\ state'[u] = "IDLE" => state[u] = "IDLE"
           /\ pc' = "idle" => pc = "idle" /\ cur' = cur
  BY <1>1, <1>2, SMTT(60)
<1>3. CASE tick_timers \/ poll_root \/ check_exit \/ next_task \/ recheck_exit \/ park
           \/ root_event \/ UNCHANGED vars
  BY <1>2, <1>3, ZenonT(60) DEF tick_timers, poll_root, check_exit, next_task, recheck_exit, park,
                    root_event, vars
<1>4. ASSUME NEW t \in cur, TaskPart(t)
      PROVE  (state[u] = "IDLE" \/ (pc = "idle" /\ u \in cur) => armed[u] /\ seen[u] = fired[u])'
  <2>1. CASE load_state(t) \/ cancel_task(t) \/ start_poll(t) \/ wake_joiner(t)
    BY <1>1, <1>2, <2>1, SMTT(60) DEF load_state, cancel_task, cancel_body, start_poll, poll_task_run,
                            wake_joiner, take_join_waker
  <2>2. CASE poll_body(t)
    BY <1>1, <1>4, <2>2, SMTT(60) DEF poll_body, poll_body_pending, poll_body_ready, HandInv, CurInv
  <2>3. CASE end_poll(t)
    BY <1>1, <1>4, <2>3, SMTT(60) DEF end_poll, poll_task_idle, poll_task_completed
  <2> QED
    BY <1>4, <2>1, <2>2, <2>3, ZenonT(60) DEF TaskPart
<1>5. ASSUME NEW t \in Tasks, spawn(t) \/ WakeStep(t) \/ AbortStep(t) \/ JoinStep(t),
             UNCHANGED loopVars
      PROVE  (state[u] = "IDLE" \/ (pc = "idle" /\ u \in cur) => armed[u] /\ seen[u] = fired[u])'
  <2>1. CASE spawn(t) \/ AbortStep(t)
    BY <1>1, <1>2, <1>5, <2>1, SMTT(60) DEF spawn, task_new, AbortStep, abort_idle, abort_scheduled
  <2>2. CASE WakeStep(t)
    BY <1>1, <1>2, <1>5, <2>2, SMTT(60) DEF WakeStep, schedule_task_cas, schedule_task_push
  <2>3. CASE JoinStep(t)
    BY <1>1, <1>2, <1>5, <2>3, SMTT(60) DEF JoinStep, join_poll_fast, join_poll_recheck, join_poll_store
  <2>. QED
    BY <1>5, <2>1, <2>2, <2>3, Zenon
<1>6. ASSUME NEW t \in Tasks, local_event(t)
      PROVE  (state[u] = "IDLE" \/ (pc = "idle" /\ u \in cur) => armed[u] /\ seen[u] = fired[u])'
  BY <1>1, <1>6, SMTT(60) DEF local_event, InUserCode
<1>7. ASSUME NEW t \in Tasks, remote_event(t)
      PROVE  (state[u] = "IDLE" \/ (pc = "idle" /\ u \in cur) => armed[u] /\ seen[u] = fired[u])'
  BY <1>1, <1>7 DEF remote_event, fire
<1>8. ASSUME NEW t \in Tasks, spawn(t) PROVE UNCHANGED loopVars
  BY <1>8 DEF spawn
<1> QED
  BY <1>1, <1>3, <1>4, <1>5, <1>6, <1>7, <1>8, ZenonT(60) DEF Next, Loop, Around, Terminating

\* schedule_task's "it will be re-polled automatically", where it holds: no wake of a source on
\* the executor's own thread is lost.  The tasks in Racing are the ones that may lose one.
THEOREM ExecutorLocalWakes == Spec => [](\A t \in Tasks \ Racing : WakeSeen(t))
<1>1. Init => IdleInv
  BY DEF Init, TaskInit, IdleInv
<1>2. IdleInv => \A t \in Tasks \ Racing : WakeSeen(t)
  BY DEF IdleInv, WakeSeen
<1> QED
  BY ExecutorTypeOK, ExecutorQueueInv, NextIdleInv, <1>1, <1>2, PTL DEF Spec
=============================================================================
