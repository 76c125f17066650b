------------------------------- MODULE Signal --------------------------------
(***************************************************************************)
(* Signal futures over the self-pipe: the handler writes the signal number   *)
(* into the pipe, the executor's park sees the pipe's event in its reactor   *)
(* and calls on_signal_readable, which moves the signals to the pending list *)
(* and wakes the waiters.  The pipe is registered once, by the thread that   *)
(* made the first signal() call, and nothing re-arms it.                     *)
(*                                                                           *)
(* A background worker gives its own self-pipe the token of the signal pipe, *)
(* so its first wakeup also calls on_signal_readable.                        *)
(***************************************************************************)
EXTENDS Reactor, Sequences

CONSTANTS SignalTasks,   \* tasks, each awaiting one Signal
          MaxSignals     \* bound: signals delivered to the process

ASSUME SignalAssumption == IsFiniteSet(SignalTasks)

VARIABLES sigBackend,
          mainReactor,     \* of the thread that initialises the pipe
          workReactor,     \* of a background worker
          sigReady,        \* the kernel: the pipes that have bytes in them
          pipe,            \* signal numbers in the signal pipe
          signal_state,    \* SIGNAL_STATE: unset, ready, or the dummy of a failed init
          pending,         \* the signals read from the pipe
          signal_waiters,  \* wakers, each with the kind it waits for, none twice
          signal_fut,      \* each task's future
          sigDue,          \* tasks that are scheduled
          signals          \* signals the handler has put in the pipe

sigVars == <<sigBackend, mainReactor, workReactor, sigReady, pipe, signal_state,
             pending, signal_waiters, signal_fut, sigDue, signals>>

SignalKinds == {"Interrupt", "Terminate"}

SIGNAL_TOKEN == 99
SignalFd     == 1
WorkerFd     == 2  \* wake_rx of the worker, registered under the same token

Pipes == {SignalFd, WorkerFd}

SigInit ==
    /\ sigBackend \in Backends
    /\ sigReady = [fd \in Pipes |-> {}]
    /\ mainReactor = new_reactor
    /\ workReactor = register(sigBackend, new_reactor, WorkerFd, SIGNAL_TOKEN, READABLE, sigReady).r
    /\ pipe = <<>> /\ signal_state = "unset"
    /\ pending = <<>> /\ signal_waiters = {}
    /\ signal_fut = [t \in SignalTasks |-> [kind |-> "none", at |-> "none"]]
    /\ sigDue = {}
    /\ signals = [k \in SignalKinds |-> 0]

-----------------------------------------------------------------------------
\* the pipe is made and registered once; if that fails a dummy state is kept
ensure_init ==
    \/ /\ signal_state = "unset" /\ signal_state' = "ready"
       /\ mainReactor' = register(sigBackend, mainReactor, SignalFd, SIGNAL_TOKEN, READABLE, sigReady).r
    \/ signal_state = "unset" /\ signal_state' = "dummy" /\ UNCHANGED mainReactor
    \/ signal_state # "unset" /\ UNCHANGED <<signal_state, mainReactor>>

\* signal(kind): only the call whose ensure_init fails returns the error
signal(t, kind) ==
    /\ signal_fut[t].at = "none"
    /\ ensure_init
    /\ IF signal_state = "unset" /\ signal_state' = "dummy" THEN UNCHANGED <<signal_fut, sigDue>>
       ELSE /\ signal_fut' = [signal_fut EXCEPT ![t] = [kind |-> kind, at |-> "waiting"]]
            /\ sigDue' = sigDue \cup {t}
    /\ UNCHANGED <<sigBackend, workReactor, sigReady, pipe, pending, signal_waiters, signals>>

\* the kernel runs the handler, which writes one byte
signal_handler(kind) ==
    /\ signal_state = "ready"
    /\ signals["Interrupt"] + signals["Terminate"] < MaxSignals
    /\ signals' = [signals EXCEPT ![kind] = @ + 1]
    /\ pipe' = Append(pipe, kind)
    /\ sigReady' = [sigReady EXCEPT ![SignalFd] = READABLE]
    /\ mainReactor' = notified(mainReactor, SignalFd, "r")
    /\ UNCHANGED <<sigBackend, workReactor, signal_state, pending, signal_waiters, signal_fut, sigDue>>

\* variant: the signals nobody waits for are not kept
on_signal_readable_Discards ==
    LET hit == {p \in signal_waiters : p[1] \in Range(pipe)}
    IN  /\ pending' = SelectSeq(pipe, LAMBDA k : \E p \in signal_waiters : p[1] = k)
        /\ pipe' = <<>>
        /\ signal_waiters' = signal_waiters \ hit
        /\ sigDue' = sigDue \cup {p[2] : p \in hit}

\* drains the pipe, appends to pending, wakes and removes every waiter whose
\* kind is pending
on_signal_readable ==
    IF signal_state # "ready" THEN UNCHANGED <<pending, pipe, signal_waiters, sigDue>>
    ELSE LET hit == {p \in signal_waiters : p[1] \in Range(pending \o pipe)}
         IN  /\ pending' = pending \o pipe
             /\ pipe' = <<>>
             /\ signal_waiters' = signal_waiters \ hit
             /\ sigDue' = sigDue \cup {p[2] : p \in hit}

\* Executor::park: poll, then signal_fired
park_main ==
    /\ SignalFd \in DOMAIN mainReactor.reg
    /\ mainReactor' = poll(sigBackend, mainReactor, sigReady).r
    /\ IF hits(mainReactor, SignalFd, sigReady) # {}
       THEN on_signal_readable /\ sigReady' = [sigReady EXCEPT ![SignalFd] = {}]
       ELSE UNCHANGED <<pending, pipe, signal_waiters, sigDue, sigReady>>
    /\ UNCHANGED <<sigBackend, workReactor, signal_state, signal_fut, signals>>

\* the notifier writes to the worker's self-pipe
notify_worker ==
    /\ sigReady[WorkerFd] = {}
    /\ sigReady' = [sigReady EXCEPT ![WorkerFd] = READABLE]
    /\ workReactor' = notified(workReactor, WorkerFd, "r")
    /\ UNCHANGED <<sigBackend, mainReactor, pipe, signal_state, pending, signal_waiters, signal_fut, sigDue, signals>>

\* WorkerThread::park: the self-pipe is drained whatever the events say
park_worker ==
    /\ sigReady[WorkerFd] # {}
    /\ workReactor' = poll(sigBackend, workReactor, sigReady).r
    /\ IF hits(workReactor, WorkerFd, sigReady) # {} /\ signal_state = "ready"
       THEN on_signal_readable /\ sigReady' = [fd \in Pipes |-> {}]
       ELSE /\ sigReady' = [sigReady EXCEPT ![WorkerFd] = {}]
            /\ UNCHANGED <<pending, pipe, signal_waiters, sigDue>>
    /\ UNCHANGED <<sigBackend, mainReactor, signal_state, signal_fut, signals>>

\* Vec::remove
remove(vec, i) == [j \in 1..Len(vec) - 1 |-> IF j < i THEN vec[j] ELSE vec[j + 1]]

\* Signal::poll: the first pending signal of the kind is taken, or the waker is registered
poll_signal(t) ==
    LET k  == signal_fut[t].kind
        at == {i \in DOMAIN pending : pending[i] = k}
    IN
    /\ t \in sigDue
    /\ sigDue' = sigDue \ {t}
    /\ IF at # {}
       THEN /\ pending' = remove(pending, CHOOSE i \in at : \A j \in at : i <= j)
            /\ signal_fut' = [signal_fut EXCEPT ![t].at = "done"]
            /\ UNCHANGED signal_waiters
       ELSE /\ signal_waiters' = signal_waiters \cup {<<k, t>>}
            /\ UNCHANGED <<pending, signal_fut>>
    /\ UNCHANGED <<sigBackend, mainReactor, workReactor, sigReady, pipe, signal_state, signals>>

SigNext ==
    \/ \E t \in SignalTasks : (\E k \in SignalKinds : signal(t, k)) \/ poll_signal(t)
    \/ \E k \in SignalKinds : signal_handler(k)
    \/ park_main \/ notify_worker \/ park_worker

SigSpec == SigInit /\ [][SigNext]_sigVars

-----------------------------------------------------------------------------
Resolved(k) == {t \in SignalTasks : signal_fut[t] = [kind |-> k, at |-> "done"]}

Count(vec, k) == Cardinality({i \in DOMAIN vec : vec[i] = k})

\* No signal is lost or counted twice between the handler and the futures: each
\* one received is in the pipe, is pending, or has resolved one Signal, and a
\* future that waits while a signal of its kind is pending is scheduled
\* (on_signal_readable, Signal::poll).
SignalsConserved ==
    /\ \A k \in SignalKinds :
         signals[k] = Count(pipe, k) + Count(pending, k) + Cardinality(Resolved(k))
    /\ \A t \in SignalTasks :
         (signal_fut[t].at = "waiting" /\ signal_fut[t].kind \in Range(pending)) => t \in sigDue
=============================================================================
