--------------------------------- MODULE Net ---------------------------------
(***************************************************************************)
(* TcpListener, TcpStream, ConnectFuture and UdpSocket over the reactors of  *)
(* the runtime's threads.  An operation first tries its system call; only    *)
(* when that would block does it poll a fresh readable() or writable()       *)
(* future of its IoSource, which stores the task's waker in the reactor of   *)
(* the thread that runs the poll and re-arms the fd there.                   *)
(*                                                                           *)
(* Payloads and addresses are left out.  A task has at most one operation;   *)
(* a TcpStream is polled through &mut self, so by one task at a time, the    *)
(* listener and the UDP socket through &self, so by any.                     *)
(***************************************************************************)
EXTENDS Reactor

CONSTANTS Fds, NetTasks, Threads,
          MaxToken, \* bound: IoSources and connects a behaviour creates
          MaxCalls  \* bound: calls into the network API in a behaviour

ASSUME NetAssumption == 0 \notin Fds  \* 0 stands for no fd

VARIABLES backend,   \* which backend was compiled in
          reactors,  \* each thread's REACTOR
          ready,     \* the kernel: the directions in which each fd is ready
          socks,     \* what owns each fd
          op,        \* the operation each task is in
          due,       \* tasks that are scheduled
          next_tok,  \* TOKEN_COUNTER
          dropping,  \* thread -> the IoSource it has closed but not deregistered
          newest,    \* fd -> the <<direction, task>> that armed it last
          net_calls,     \* calls made so far
          enoent     \* a reregister has found its fd not registered

netVars == <<backend, reactors, ready, socks, op, due, next_tok, dropping, newest, net_calls, enoent>>

NoSock == [kind |-> "free", token |-> 0, conn |-> "none"]
NoOp   == [k |-> "none", fd |-> 0]

\* operations and the direction they wait for
Direction == [accept |-> "r", read |-> "r", recv_from |-> "r", write |-> "w", send_to |-> "w"]
Uses      == [accept |-> "listener", read |-> "tcp", write |-> "tcp",
              recv_from |-> "udp", send_to |-> "udp"]

NetInit ==
    /\ backend \in Backends
    /\ reactors = [th \in Threads |-> new_reactor]
    /\ ready = [fd \in Fds |-> {}]
    /\ socks = [fd \in Fds |-> NoSock]
    /\ op = [t \in NetTasks |-> NoOp]
    /\ due = {} /\ next_tok = 1
    /\ dropping = [th \in Threads |-> {}]
    /\ newest = [fd \in Fds |-> {}]
    /\ net_calls = 0 /\ enoent = FALSE

-----------------------------------------------------------------------------
(* File descriptors.                                                          *)

Free == {fd \in Fds : socks[fd].kind = "free"}

\* what socket and accept return: the lowest free fd, if there is one
Lowest == {fd \in Free : \A other \in Free : fd <= other}

\* what a fresh socket of each kind is ready for
Fresh == [listener |-> {}, tcp |-> WRITABLE, udp |-> WRITABLE, connecting |-> {}]

Running(th) == dropping[th] = {}

Call == net_calls < MaxCalls /\ net_calls' = net_calls + 1

\* the interest an IoSource is registered with when it is created
FirstInterest == [listener |-> READABLE, tcp |-> Dirs, udp |-> Dirs, connecting |-> WRITABLE]

next_token == next_tok + 1

\* IoSource::new, when the kernel has left rdy ready
new_source(fd, kind, rdy) ==
    /\ next_tok <= MaxToken
    /\ next_tok' = next_token
    /\ ready' = [rdy EXCEPT ![fd] = IF socks[fd].kind = "connecting" THEN @ ELSE Fresh[kind]]
    /\ socks' = [socks EXCEPT ![fd] = [kind |-> kind, token |-> next_tok,
                                       conn |-> IF kind = "connecting" THEN "pending" ELSE "none"]]

new_registration(th, fd, kind) ==
    register(backend, reactors[th], fd, next_tok, FirstInterest[kind], [ready EXCEPT ![fd] = Fresh[kind]]).r

\* a step fails after the fd was opened and `?` returns without closing it
leak(fd) == socks' = [socks EXCEPT ![fd] = [NoSock EXCEPT !.kind = "leaked"]]

\* socket, set_nonblocking, (SO_REUSEADDR,) bind, (listen,) IoSource::new
bind(th, kind) ==
    /\ Call
    /\ Running(th)
    /\ \E new \in Lowest :
         \/ /\ new_source(new, kind, ready)
            /\ reactors' = [reactors EXCEPT ![th] = new_registration(th, new, kind)]
         \/ leak(new) /\ UNCHANGED <<reactors, ready, next_tok>>
    /\ UNCHANGED <<backend, op, due, dropping, newest, enoent>>

bind_listener(th) == bind(th, "listener")
bind_udp(th)      == bind(th, "udp")

\* close(fd), then the IoSource field is dropped
drop_socket(th, fd, kind) ==
    /\ Call
    /\ Running(th) /\ socks[fd].kind = kind
    /\ \A t \in NetTasks : op[t].fd # fd
    /\ reactors' = [r \in Threads |-> closed(reactors[r], fd)]
    /\ dropping' = [dropping EXCEPT ![th] = {<<fd, socks[fd].token>>}]
    /\ socks' = [socks EXCEPT ![fd] = NoSock]
    /\ ready' = [ready EXCEPT ![fd] = {}]
    /\ newest' = [newest EXCEPT ![fd] = {}]
    /\ UNCHANGED <<backend, op, due, next_tok, enoent>>

drop_listener(th, fd) == drop_socket(th, fd, "listener")
drop_stream(th, fd)   == drop_socket(th, fd, "tcp")
drop_udp(th, fd)      == drop_socket(th, fd, "udp")

drop_source(th) ==
    /\ \E p \in dropping[th] :
         reactors' = [reactors EXCEPT ![th] = deregister_with_token(backend, @, p[1], p[2])]
    /\ dropping' = [dropping EXCEPT ![th] = {}]
    /\ UNCHANGED <<backend, ready, socks, op, due, next_tok, newest, enoent, net_calls>>

-----------------------------------------------------------------------------
(* Operations.                                                                *)

\* op[t] is over
Finished(t) ==
    /\ op' = [op EXCEPT ![t] = NoOp]
    /\ due' = due \ {t}
    /\ newest' = [fd \in Fds |-> {p \in newest[fd] : p[2] # t}]

start(t, k) ==
    /\ Call
    /\ op[t] = NoOp
    /\ \E fd \in Fds :
         /\ socks[fd].kind = Uses[k]
         /\ socks[fd].kind = "tcp" => \A u \in NetTasks : op[u].fd # fd
         /\ op' = [op EXCEPT ![t] = [k |-> k, fd |-> fd]]
    /\ due' = due \cup {t}
    /\ UNCHANGED <<backend, reactors, ready, socks, next_tok, dropping, newest, enoent>>

accept(t)    == start(t, "accept")
recv_from(t) == start(t, "recv_from")
send_to(t)   == start(t, "send_to")

\* a future is dropped, or the task with it; nothing is undone
drop_op(t, th) ==
    /\ Call
    /\ Running(th) /\ op[t].k \in DOMAIN Direction
    /\ Finished(t)
    /\ UNCHANGED <<reactors, ready, socks, backend, next_tok, dropping, enoent>>

\* a ConnectFuture in progress deregisters and closes its fd
drop_connect(t, th) ==
    /\ Call
    /\ Running(th) /\ op[t].k = "connect"
    /\ Finished(t)
    /\ IF op[t].fd # 0
       THEN LET fd == op[t].fd IN
            /\ reactors' = [r \in Threads |-> closed(
                   IF r = th THEN deregister_with_token(backend, reactors[r], fd, socks[fd].token)
                   ELSE reactors[r], fd)]
            /\ socks' = [socks EXCEPT ![fd] = NoSock]
            /\ ready' = [ready EXCEPT ![fd] = {}]
       ELSE UNCHANGED <<reactors, ready, socks>>
    /\ UNCHANGED <<backend, next_tok, dropping, enoent>>

\* variant: the waker is stored, the interest is left as it was
arm_NoRearm(t, th, fd, d) ==
    LET token == socks[fd].token IN
    /\ reactors' = [reactors EXCEPT ![th] =
                      IF d = "r" THEN set_read_waker(@, token, t) ELSE set_write_waker(@, token, t)]
    /\ due' = due \ {t}
    /\ newest' = [newest EXCEPT ![fd] = {<<d, t>>}]
    /\ UNCHANGED <<op, enoent>>

\* ReadableFuture::poll and WritableFuture::poll of a fresh future, after the
\* system call would have blocked
arm(t, th, fd, d) ==
    LET token == socks[fd].token
        r1    == IF d = "r" THEN set_read_waker(reactors[th], token, t)
                 ELSE set_write_waker(reactors[th], token, t)
        res   == reregister(backend, r1, fd, token, {d}, ready)
    IN /\ reactors' = [reactors EXCEPT ![th] = res.r]
       /\ enoent' = (enoent \/ ~res.ok)
       /\ IF res.ok
          THEN /\ due' = due \ {t}
               /\ newest' = [newest EXCEPT ![fd] =
                     {<<d, t>>} \cup (IF backend = "kqueue" THEN {p \in @ : p[1] # d} ELSE {})]
               /\ UNCHANGED op
          ELSE Finished(t)  \* the operation returns the error

\* what a system call in direction d may leave of the readiness of fd
after_call(fd, d) == {ready, [ready EXCEPT ![fd] = @ \ {d}]}

\* the system call, and the IoSource's future when it would block
poll_io(t, th, k) ==
    LET fd == op[t].fd
        d  == Direction[k]
    IN /\ Running(th) /\ t \in due /\ op[t].k = k
       /\ IF d \in ready[fd]
          THEN /\ ready' \in after_call(fd, d)
               /\ Finished(t) /\ UNCHANGED <<reactors, enoent>>
          ELSE arm(t, th, fd, d) /\ UNCHANGED ready
       /\ UNCHANGED <<backend, socks, next_tok, dropping, net_calls>>

poll_read(t, th)      == poll_io(t, th, "read")
poll_write(t, th)     == poll_io(t, th, "write")
poll_recv_from(t, th) == poll_io(t, th, "recv_from")
poll_send_to(t, th)   == poll_io(t, th, "send_to")

\* AcceptFuture: the accepted fd becomes a stream of this thread's reactor; any
\* error of accept but EAGAIN ends the operation, EMFILE when no fd is free too
poll_accept(t, th) ==
    LET fd == op[t].fd IN
    /\ Running(th) /\ t \in due /\ op[t].k = "accept"
    /\ \/ /\ Finished(t) /\ ready' \in after_call(fd, "r")
          /\ UNCHANGED <<reactors, socks, next_tok, enoent>>
       \/ /\ "r" \in ready[fd] /\ Finished(t)
          /\ \E new \in Lowest, rdy \in after_call(fd, "r") :
               \/ /\ new_source(new, "tcp", rdy)
                  /\ reactors' = [reactors EXCEPT ![th] = new_registration(th, new, "tcp")]
               \/ leak(new) /\ ready' = rdy /\ UNCHANGED <<reactors, next_tok>>
          /\ UNCHANGED enoent
       \/ "r" \notin ready[fd] /\ arm(t, th, fd, "r") /\ UNCHANGED <<ready, socks, next_tok>>
    /\ UNCHANGED <<backend, dropping, net_calls>>

-----------------------------------------------------------------------------
(* ConnectFuture.                                                             *)

connect(t) ==
    /\ Call
    /\ op[t] = NoOp
    /\ op' = [op EXCEPT ![t] = [k |-> "connect", fd |-> 0]]
    /\ due' = due \cup {t}
    /\ UNCHANGED <<backend, reactors, ready, socks, next_tok, dropping, newest, enoent>>

\* ConnectState::Init: start_connect fails, leaves its fd open, connects at
\* once, or is in progress and goes on to the Connecting arm
poll_connect_init(t, th) ==
    /\ Running(th) /\ t \in due /\ op[t] = [k |-> "connect", fd |-> 0]
    /\ \/ Finished(t) /\ UNCHANGED <<reactors, ready, socks, next_tok>>
       \/ \E new \in Lowest :
            \/ Finished(t) /\ leak(new) /\ UNCHANGED <<reactors, ready, next_tok>>
            \/ /\ Finished(t)
               /\ new_source(new, "tcp", ready)
               /\ reactors' = [reactors EXCEPT ![th] = new_registration(th, new, "tcp")]
            \/ /\ new_source(new, "connecting", ready)
               /\ reactors' = [reactors EXCEPT ![th] =
                                 set_write_waker(new_registration(th, new, "connecting"), next_tok, t)]
               /\ op' = [op EXCEPT ![t].fd = new]
               /\ due' = due \ {t} /\ UNCHANGED newest
    /\ UNCHANGED <<backend, dropping, enoent, net_calls>>

\* what getsockopt(SO_ERROR) may give: its own failure, the connect's error, or no error
get_so_error(fd) == {"fails", IF socks[fd].conn = "refused" THEN "errno" ELSE "none"}

\* poll(POLLOUT) with no timeout
is_writable_now(fd) == socks[fd].conn = "ok"

\* ConnectState::Connecting: the waker, SO_ERROR, then is_writable_now
poll_connect(t, th) ==
    LET fd    == op[t].fd
        token == socks[fd].token
        gone  == deregister_with_token(backend, reactors[th], fd, token)
    IN /\ Running(th) /\ t \in due /\ op[t].k = "connect" /\ fd # 0
       /\ \/ /\ "fails" \in get_so_error(fd)
             /\ Finished(t)
             /\ reactors' = [reactors EXCEPT ![th] = gone]
             /\ leak(fd) /\ UNCHANGED <<ready, next_tok>>
          \/ /\ "errno" \in get_so_error(fd)
             /\ Finished(t)
             /\ reactors' = [r \in Threads |-> closed(IF r = th THEN gone ELSE reactors[r], fd)]
             /\ socks' = [socks EXCEPT ![fd] = NoSock]
             /\ ready' = [ready EXCEPT ![fd] = {}]
             /\ UNCHANGED next_tok
          \/ /\ "none" \in get_so_error(fd) /\ is_writable_now(fd)
             /\ Finished(t)
             /\ new_source(fd, "tcp", ready)
             /\ reactors' = [reactors EXCEPT ![th] =
                    register(backend, gone, fd, next_tok, Dirs, ready).r]
          \/ /\ "none" \in get_so_error(fd) /\ ~is_writable_now(fd)
             /\ reactors' = [reactors EXCEPT ![th] = set_write_waker(@, token, t)]
             /\ due' = due \ {t}
             /\ UNCHANGED <<ready, socks, next_tok, op, newest>>
       /\ UNCHANGED <<backend, dropping, enoent, net_calls>>

-----------------------------------------------------------------------------
(* The kernel and the executor.                                               *)

Notify(fd, d) ==
    /\ ready' = [ready EXCEPT ![fd] = @ \cup {d}]
    /\ reactors' = [th \in Threads |-> notified(reactors[th], fd, d)]
    /\ UNCHANGED <<backend, op, due, next_tok, dropping, newest, enoent, net_calls>>

\* data, a connection or buffer space arrives
arrive(fd, d) ==
    /\ socks[fd].kind \in {"tcp", "udp"} \/ (socks[fd].kind = "listener" /\ d = "r")
    /\ d \notin ready[fd]
    /\ Notify(fd, d) /\ UNCHANGED socks

connect_ends(fd) ==
    /\ socks[fd].conn = "pending"
    /\ \E how \in {"ok", "refused"} : socks' = [socks EXCEPT ![fd].conn = how]
    /\ Notify(fd, "w")

\* the task is scheduled for another reason
wake_other(t) ==
    /\ Call
    /\ op[t] # NoOp /\ t \notin due
    /\ due' = due \cup {t}
    /\ UNCHANGED <<backend, reactors, ready, socks, op, next_tok, dropping, newest, enoent>>

\* the executor parks on its reactor
park(th) ==
    /\ Running(th)
    /\ LET res == poll(backend, reactors[th], ready)
       IN reactors' = [reactors EXCEPT ![th] = res.r] /\ due' = due \cup res.woken
    /\ UNCHANGED <<backend, ready, socks, op, next_tok, dropping, newest, enoent, net_calls>>

-----------------------------------------------------------------------------
poll_task(t, th) ==
    \/ poll_read(t, th) \/ poll_write(t, th)
    \/ poll_recv_from(t, th) \/ poll_send_to(t, th)
    \/ poll_accept(t, th)
    \/ poll_connect_init(t, th) \/ poll_connect(t, th)

NetNext ==
    \/ \E th \in Threads :
         \/ bind_listener(th) \/ bind_udp(th)
         \/ \E fd \in Fds : drop_listener(th, fd) \/ drop_stream(th, fd) \/ drop_udp(th, fd)
         \/ drop_source(th)
         \/ park(th)
         \/ \E t \in NetTasks : poll_task(t, th) \/ drop_op(t, th) \/ drop_connect(t, th)
    \/ \E t \in NetTasks :
         \/ accept(t) \/ recv_from(t) \/ send_to(t)
         \/ \E k \in {"read", "write"} : start(t, k)
         \/ connect(t)
         \/ wake_other(t)
    \/ \E fd \in Fds : (\E d \in Dirs : arrive(fd, d)) \/ connect_ends(fd)

NetSpec == NetInit /\ [][NetNext]_netVars

-----------------------------------------------------------------------------
(* Properties.                                                                *)

\* reactor r will wake t when fd is ready in direction d: the waker is stored
\* under the socket's token, the interest is armed, and if fd is ready already
\* the kernel has the event
Armed(r, fd, d, t) ==
    LET w == IF d = "r" THEN r.rw ELSE r.ww
    IN /\ socks[fd].token \in DOMAIN w /\ w[socks[fd].token] = t
       /\ fd \in DOMAIN r.reg /\ r.reg[fd].token = socks[fd].token
       /\ d \in r.reg[fd].mask
       /\ d \in ready[fd] => d \in r.reg[fd].active

\* A task that waits for a socket, and was the last to arm it, is not forgotten,
\* whatever sockets were closed and fds reused meanwhile; nor is a task whose
\* connect is in progress, although its fd is armed only once (IoSource,
\* WakerRegistry and Reactor::poll; ConnectFuture::poll never re-arms).
WaiterArmed ==
    \A t \in NetTasks \ due :
        /\ \A fd \in Fds : \A d \in Dirs :
             <<d, t>> \in newest[fd] => \E th \in Threads : Armed(reactors[th], fd, d, t)
        /\ (op[t].k = "connect" /\ op[t].fd # 0)
             => \E th \in Threads : Armed(reactors[th], op[t].fd, "w", t)
=============================================================================
