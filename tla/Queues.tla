------------------------------- MODULE Queues --------------------------------
(***************************************************************************)
(* The run queues: LocalQueue, a ring with LIFO pop and FIFO drain whose     *)
(* indices wrap, StealableQueue, a ring behind a Mutex, WorkStealingPool and *)
(* GlobalQueue; and WorkerThread::next_task, which takes from them in turn.  *)
(* The executors push to GlobalQueue only, so here the rings are driven as   *)
(* their unit tests drive them.                                              *)
(***************************************************************************)
EXTENDS Integers, Sequences, Functions

CONSTANTS QWorkers,   \* the workers, numbered from 1
          Headers,    \* task headers, each enqueued once
          CAPACITY,   \* slots of a ring: 256 in the code
          Wrap,       \* the indices are modulo this multiple of CAPACITY: 2^64 in the code
          BATCH       \* taken at once from the stealable queue, at most CAPACITY: 16 in the code

ASSUME QueuesAssumption ==
    /\ QWorkers \subseteq Nat
    /\ CAPACITY \in Nat \ {0} /\ BATCH \in 1..CAPACITY
    /\ Wrap \in Nat /\ Wrap > CAPACITY /\ Wrap % CAPACITY = 0

VARIABLES local,      \* each worker's LocalQueue
          stealable,  \* each worker's StealableQueue
          injected,   \* GlobalQueue
          enqueued,   \* headers pushed so far
          taken       \* headers given to a worker to run

queueVars == <<local, stealable, injected, enqueued, taken>>

None == "none"

new_ring == [buf |-> [i \in 0..(CAPACITY - 1) |-> None], head |-> 0, tail |-> 0]

QInit ==
    /\ local = [w \in QWorkers |-> new_ring]
    /\ stealable = [w \in QWorkers |-> new_ring]
    /\ injected = <<>> /\ enqueued = {} /\ taken = {}

-----------------------------------------------------------------------------
(* LocalQueue.                                                                *)

len(q) == (q.tail - q.head) % Wrap

push(q, h) ==
    IF len(q) = CAPACITY THEN [q |-> q, over |-> <<h>>]
    ELSE [q    |-> [buf  |-> [q.buf EXCEPT ![q.tail % CAPACITY] = h],
                    head |-> q.head,
                    tail |-> (q.tail + 1) % Wrap],
          over |-> <<>>]

\* of a ring that is not empty
pop(q) ==
    LET t == (q.tail - 1) % Wrap
    IN [q |-> [buf |-> [q.buf EXCEPT ![t % CAPACITY] = None], head |-> q.head, tail |-> t],
        h |-> q.buf[t % CAPACITY]]

\* variant: the slots are read from the back
drain_front_Back(q, count) ==
    LET n == IF count < len(q) THEN count ELSE len(q)
    IN [q     |-> [buf |-> q.buf, head |-> (q.head + n) % Wrap, tail |-> q.tail],
        items |-> [i \in 1..n |-> q.buf[((q.tail - i) % Wrap) % CAPACITY]]]

drain_front(q, count) ==
    LET n     == IF count < len(q) THEN count ELSE len(q)
        at(i) == ((q.head + i - 1) % Wrap) % CAPACITY
    IN [q     |-> [buf  |-> [s \in DOMAIN q.buf |->
                                IF \E i \in 1..n : s = at(i) THEN None ELSE q.buf[s]],
                   head |-> (q.head + n) % Wrap,
                   tail |-> q.tail],
        items |-> [i \in 1..n |-> q.buf[at(i)]]]

\* a loop of pushes: the first items fill the ring, the others are given back
push_all(q, items) ==
    LET room  == CAPACITY - len(q)
        n     == IF Len(items) < room THEN Len(items) ELSE room
        at(i) == ((q.tail + i - 1) % Wrap) % CAPACITY
    IN [q    |-> [buf  |-> [s \in DOMAIN q.buf |->
                               IF \E i \in 1..n : s = at(i)
                               THEN items[CHOOSE i \in 1..n : s = at(i)] ELSE q.buf[s]],
                  head |-> q.head,
                  tail |-> (q.tail + n) % Wrap],
        over |-> SubSeq(items, n + 1, Len(items))]

-----------------------------------------------------------------------------
(* Stealing.                                                                  *)

\* half of the victim's ring, from the front; what does not fit is spilled
steal_from(v, w) ==
    LET d == drain_front(stealable[v], len(stealable[v]) \div 2)
        p == push_all(local[w], d.items)
    IN [victim |-> d.q, local |-> p.q, spilled |-> p.over]

Victims(w) == {v \in QWorkers \ {w} : len(stealable[v]) \div 2 > 0}

\* the first other worker that has something to steal
Victim(w) == CHOOSE v \in Victims(w) : \A u \in Victims(w) : v <= u

steal_one(w) ==
    /\ Victims(w) # {}
    /\ LET v == Victim(w)
           s == steal_from(v, w)
       IN /\ stealable' = [stealable EXCEPT ![v] = s.victim]
          /\ local' = [local EXCEPT ![w] = s.local]
          /\ injected' = injected \o s.spilled
    /\ UNCHANGED <<enqueued, taken>>

-----------------------------------------------------------------------------
Enqueue(h) == h \notin enqueued /\ enqueued' = enqueued \cup {h}

push_header(h) ==
    /\ Enqueue(h)
    /\ injected' = Append(injected, h)
    /\ UNCHANGED <<local, stealable, taken>>

\* an owner's push; a full ring gives the header back and it is injected
push_stealable(w, h) ==
    /\ Enqueue(h)
    /\ LET p == push(stealable[w], h)
       IN stealable' = [stealable EXCEPT ![w] = p.q] /\ injected' = injected \o p.over
    /\ UNCHANGED <<local, taken>>

\* gives the newest header of ring q to worker w
Run(w, q) ==
    /\ local' = [local EXCEPT ![w] = pop(q).q]
    /\ taken' = taken \cup {pop(q).h}
    /\ UNCHANGED enqueued

\* local, then a batch of the own stealable queue, then global, then a steal
next_task(w) ==
    \/ /\ len(local[w]) > 0
       /\ Run(w, local[w])
       /\ UNCHANGED <<stealable, injected>>
    \/ /\ len(local[w]) = 0 /\ len(stealable[w]) > 0
       /\ LET d == drain_front(stealable[w], BATCH)
          IN /\ Run(w, push_all(local[w], d.items).q)
             /\ stealable' = [stealable EXCEPT ![w] = d.q]
       /\ UNCHANGED injected
    \/ /\ len(local[w]) = 0 /\ len(stealable[w]) = 0 /\ injected # <<>>
       /\ taken' = taken \cup {Head(injected)}
       /\ injected' = Tail(injected)
       /\ UNCHANGED <<local, stealable, enqueued>>
    \/ /\ len(local[w]) = 0 /\ len(stealable[w]) = 0 /\ injected = <<>> /\ Victims(w) # {}
       /\ LET v == Victim(w)
              s == steal_from(v, w)
          IN /\ Run(w, s.local)
             /\ stealable' = [stealable EXCEPT ![v] = s.victim]
             /\ injected' = s.spilled

QNext ==
    \/ \E h \in Headers : push_header(h) \/ \E w \in QWorkers : push_stealable(w, h)
    \/ \E w \in QWorkers : steal_one(w) \/ next_task(w)

QSpec == QInit /\ [][QNext]_queueVars

-----------------------------------------------------------------------------
\* the headers of a ring, oldest first, by its indices
Items(q) == [i \in 1..len(q) |-> q.buf[((q.head + i - 1) % Wrap) % CAPACITY]]

\* the queues, and the headers in each of them
QueueIds == ({"local", "stealable"} \X QWorkers) \cup {<<"global", 0>>}
Queued(a) == CASE a[1] = "local"     -> Items(local[a[2]])
               [] a[1] = "stealable" -> Items(stealable[a[2]])
               [] a[1] = "global"    -> injected

\* Every header that was enqueued is in exactly one place of one queue or has been run:
\* nothing is lost or duplicated by a push, a pop, a drain or a steal, with full
\* rings and wrapping indices (LocalQueue, StealableQueue::steal_from,
\* WorkerThread::next_task).
NoHeaderLost ==
    /\ taken \cup UNION {Range(Queued(a)) : a \in QueueIds} = enqueued
    /\ \A a \in QueueIds : IsInjective(Queued(a)) /\ Range(Queued(a)) \cap taken = {}
    /\ \A a, b \in QueueIds : a # b => Range(Queued(a)) \cap Range(Queued(b)) = {}
=============================================================================
