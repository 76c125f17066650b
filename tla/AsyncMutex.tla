----------------------------- MODULE AsyncMutex -----------------------------
(***************************************************************************)
(* sync::mutex: the async Mutex.  LockFuture::poll and the two Drops run    *)
(* inside the std Mutex around Inner, so each is one step.  A waker is the  *)
(* pair of the task and the number of the lock() call it registered for.    *)
(***************************************************************************)
EXTENDS Naturals, Sequences

CONSTANTS Contenders,  \* the tasks that lock the Mutex
          MaxLocks     \* lock() calls each makes

ASSUME MutexAssumption == MaxLocks \in Nat

VARIABLES
    lock_composed,    \* the futures are combined with others in their tasks, so they may be
                 \* polled without a wake-up and dropped before they resolve
    locked,      \* Inner.locked
    waiters,     \* Inner.waiters
    calls,       \* lock() calls begun, per task
    lock_fut,         \* the task's LockFuture, or "held" for its MutexGuard
    lock_registered,  \* LockFuture.registered_waker is Some
    lock_woken        \* the task was woken since its last poll

mutexVars == <<lock_composed, locked, waiters, calls, lock_fut, lock_registered, lock_woken>>

MutexInit ==
    /\ lock_composed \in BOOLEAN
    /\ locked = FALSE /\ waiters = <<>>
    /\ calls = [t \in Contenders |-> 0]
    /\ lock_fut = [t \in Contenders |-> "none"]
    /\ lock_registered = [t \in Contenders |-> FALSE]
    /\ lock_woken = [t \in Contenders |-> FALSE]

\* Mutex::lock makes the future
lock(t) ==
    /\ lock_fut[t] = "none" /\ calls[t] < MaxLocks
    /\ lock_fut' = [lock_fut EXCEPT ![t] = "new"]
    /\ calls' = [calls EXCEPT ![t] = @ + 1]
    /\ UNCHANGED <<lock_composed, locked, waiters, lock_registered, lock_woken>>

\* when the executor polls a future: it is new, its task was woken, or a sibling was
polled(t) == lock_fut[t] = "new" \/ (lock_fut[t] = "pending" /\ (lock_woken[t] \/ lock_composed))

\* LockFuture::poll, the lock is free; a waker queued by this future stays in waiters
poll_acquire(t) ==
    /\ polled(t) /\ ~locked
    /\ locked' = TRUE
    /\ lock_fut' = [lock_fut EXCEPT ![t] = "held"]
    /\ lock_registered' = [lock_registered EXCEPT ![t] = FALSE]
    /\ lock_woken' = [lock_woken EXCEPT ![t] = FALSE]
    /\ UNCHANGED <<lock_composed, waiters, calls>>

\* LockFuture::poll, the lock is held: the waker is queued the first time; later the
\* stale one is replaced where it stands, if it is still there
poll_wait(t) ==
    /\ polled(t) /\ locked
    /\ lock_fut' = [lock_fut EXCEPT ![t] = "pending"]
    /\ lock_registered' = [lock_registered EXCEPT ![t] = TRUE]
    /\ lock_woken' = [lock_woken EXCEPT ![t] = FALSE]
    /\ waiters' = IF lock_registered[t] THEN waiters ELSE Append(waiters, <<t, calls[t]>>)
    /\ UNCHANGED <<lock_composed, locked, calls>>

\* Drop for LockFuture before it resolved
cancel(t) ==
    /\ lock_composed /\ lock_fut[t] \in {"new", "pending"}
    /\ lock_fut' = [lock_fut EXCEPT ![t] = "none"]
    /\ lock_registered' = [lock_registered EXCEPT ![t] = FALSE]
    /\ lock_woken' = [lock_woken EXCEPT ![t] = FALSE]
    /\ waiters' = IF lock_registered[t] THEN SelectSeq(waiters, LAMBDA w : w # <<t, calls[t]>>)
                  ELSE waiters
    /\ UNCHANGED <<lock_composed, locked, calls>>

\* variant: no waiter is woken
unlock_NoWake(t) ==
    /\ lock_fut[t] = "held"
    /\ lock_fut' = [lock_fut EXCEPT ![t] = "none"]
    /\ locked' = FALSE
    /\ UNCHANGED <<lock_composed, waiters, calls, lock_registered, lock_woken>>

\* Drop for MutexGuard: unlock and wake the first waiter
unlock(t) ==
    /\ lock_fut[t] = "held"
    /\ lock_fut' = [lock_fut EXCEPT ![t] = "none"]
    /\ locked' = FALSE
    /\ IF waiters # <<>>
       THEN /\ waiters' = Tail(waiters)
            /\ lock_woken' = [lock_woken EXCEPT ![Head(waiters)[1]] = TRUE]
       ELSE UNCHANGED <<waiters, lock_woken>>
    /\ UNCHANGED <<lock_composed, calls, lock_registered>>

Step(t) == lock(t) \/ poll_acquire(t) \/ poll_wait(t) \/ cancel(t) \/ unlock(t)

MutexNext == \E t \in Contenders : Step(t)

MutexSpec == MutexInit /\ [][MutexNext]_mutexVars

\* A future is polled when it is made and after every wake-up, and guards are dropped.
MutexFairSpec ==
    /\ MutexSpec
    /\ \A t \in Contenders :
          /\ WF_mutexVars((lock_fut[t] = "new" \/ lock_woken[t]) /\ (poll_acquire(t) \/ poll_wait(t)))
          /\ WF_mutexVars(unlock(t))

-----------------------------------------------------------------------------

\* At most one guard exists, and locked tells whether one does: this is what makes the
\* unsafe dereferences of MutexGuard::value_ptr exclusive.
GuardExclusive ==
    /\ \A t, u \in Contenders : (lock_fut[t] = "held" /\ lock_fut[u] = "held") => t = u
    /\ locked <=> \E t \in Contenders : lock_fut[t] = "held"

\* LockFuture::poll found the lock taken again after its wake-up and did not queue its
\* waker anew, so nothing will wake it.
LockForgotten(t) ==
    /\ lock_fut[t] = "pending" /\ ~lock_woken[t]
    /\ \A i \in 1..Len(waiters) : waiters[i] # <<t, calls[t]>>

\* A lock() that is awaited to the end resumes once every guard is dropped in the end.
LockResumes ==
    \A t \in Contenders : (~lock_composed /\ lock_fut[t] = "pending") ~> (lock_fut[t] = "held")

\* The same, unless the future is forgotten: a waker that is in waiters is always reached.
QueuedLockResumes ==
    \A t \in Contenders :
        (~lock_composed /\ lock_fut[t] = "pending") ~> (lock_fut[t] = "held" \/ LockForgotten(t))
=============================================================================
