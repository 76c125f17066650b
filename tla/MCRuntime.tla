----------------------------- MODULE MCRuntime -----------------------------
(***************************************************************************)
(* Small instances of the runtime's primitives for TLC: the channels, the   *)
(* Mutex, the timer wheel, Interval, the reactor with its sockets and       *)
(* signals, the run queues and task locals.  They share nothing, so a       *)
(* behaviour runs one of them, part, and leaves the others as they began.   *)
(***************************************************************************)
EXTENDS Oneshot, Mpsc, AsyncMutex, TimerWheel, Interval, Net, Signal, Queues, TaskLocal, TLC

CONSTANTS v1, v2, s1, s2, c1, c2, c3, t1, t2, m, wk, h1, h2, h3, h4

VARIABLE part

vars == <<part, oneshotVars, mpscVars, mutexVars, timerVars, intervalVars, netVars, sigVars, queueVars, scopeVars>>

\* half milliseconds around the edges of a revolution of level 0 and of level 1
Edges == {0, 1, 125, 126, 127, 128, 129, 256, 8192, 8400}

\* three tasks whose scopes share keys
Scopes == "a" :> <<<<"k", "a1">>, <<"k", "a2">>>> @@ "b" :> <<<<"k", "b1">>, <<"j", "b2">>>>
          @@ "c" :> <<<<"j", "c1">>, <<"k", "c2">>, <<"j", "c3">>>>

\* bound: two tasks make few calls, on two fds; or one task makes MaxCalls calls
\* on one fd, which is then closed and reused, and connects to nothing
FewCalls == 3

\* the threads are alike, and so are the tasks: where nothing tells two of them apart, the
\* first one acts
FirstActs ==
    /\ (\A th \in Threads : reactors[th] = new_reactor /\ dropping[th] = {})
          => reactors'[wk] = new_reactor /\ dropping'[wk] = {}
    /\ (due = {} /\ \A t \in NetTasks : op[t] = NoOp
                   /\ \A th \in Threads : t \notin Range(reactors[th].rw) \cup Range(reactors[th].ww))
          => op'[t2] = NoOp

NetBounds ==
    \/ part = "net" /\ net_calls' <= FewCalls /\ FirstActs
    \/ part = "reuse" /\ op'[t2] = NoOp /\ op'[t1].k # "connect" /\ socks'[2] = NoSock

Init ==
    /\ part \in {"oneshot", "mpsc", "mutex", "timer", "interval", "net", "reuse", "signal", "queues", "local"}
    /\ OneshotInit /\ MpscInit /\ MutexInit /\ TwInit /\ IvInit
    /\ NetInit /\ SigInit /\ QInit /\ TlInit
    /\ part # "mpsc" => bounded /\ composed
    /\ part # "mutex" => lock_composed
    /\ part \notin {"net", "reuse"} => backend = "epoll"
    /\ part # "signal" => sigBackend = "epoll"

Next ==
    \/ /\ part = "oneshot" /\ OneshotNext
       /\ UNCHANGED <<part, mpscVars, mutexVars, timerVars, intervalVars, netVars, sigVars, queueVars, scopeVars>>
    \/ /\ part = "mpsc" /\ MpscNext
       /\ UNCHANGED <<part, oneshotVars, mutexVars, timerVars, intervalVars, netVars, sigVars, queueVars, scopeVars>>
    \/ /\ part = "mutex" /\ MutexNext
       /\ UNCHANGED <<part, oneshotVars, mpscVars, timerVars, intervalVars, netVars, sigVars, queueVars, scopeVars>>
    \/ /\ part = "timer" /\ TwNext
       /\ UNCHANGED <<part, oneshotVars, mpscVars, mutexVars, intervalVars, netVars, sigVars, queueVars, scopeVars>>
    \/ /\ part = "interval" /\ IvNext
       /\ UNCHANGED <<part, oneshotVars, mpscVars, mutexVars, timerVars, netVars, sigVars, queueVars, scopeVars>>
    \/ /\ part \in {"net", "reuse"} /\ NetNext /\ NetBounds
       /\ UNCHANGED <<part, oneshotVars, mpscVars, mutexVars, timerVars, intervalVars, sigVars, queueVars, scopeVars>>
    \/ /\ part = "signal" /\ SigNext
       /\ UNCHANGED <<part, oneshotVars, mpscVars, mutexVars, timerVars, intervalVars, netVars, queueVars, scopeVars>>
    \/ /\ part = "queues" /\ QNext
       /\ UNCHANGED <<part, oneshotVars, mpscVars, mutexVars, timerVars, intervalVars, netVars, sigVars, scopeVars>>
    \/ /\ part = "local" /\ TlNext
       /\ UNCHANGED <<part, oneshotVars, mpscVars, mutexVars, timerVars, intervalVars, netVars, sigVars, queueVars>>

\* the fairness of MpscFairSpec and MutexFairSpec, in behaviours of those parts
Spec ==
    /\ Init /\ [][Next]_vars
    /\ \A s \in Senders :
          /\ WF_mpscVars(part = "mpsc" /\ (fut[s] = "new" \/ woken[s]) /\ send_poll(s))
          /\ WF_mpscVars(part = "mpsc" /\ drop_sender(s))
    /\ WF_mpscVars(part = "mpsc" /\ (rx = "idle" \/ rx_woken) /\ recv_poll)
    /\ \A t \in Contenders :
          /\ WF_mutexVars(part = "mutex" /\ (lock_fut[t] = "new" \/ lock_woken[t])
                           /\ (poll_acquire(t) \/ poll_wait(t)))
          /\ WF_mutexVars(part = "mutex" /\ unlock(t))
=============================================================================
