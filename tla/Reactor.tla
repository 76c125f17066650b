------------------------------- MODULE Reactor -------------------------------
(***************************************************************************)
(* A thread's reactor: the backend (epoll on Linux, kqueue on macOS and      *)
(* FreeBSD), the WakerRegistry, and the poll that turns the events of the    *)
(* one into wakes of the other.  A reactor is a record                       *)
(*     reg  registered fd -> [token, mask, active]                           *)
(*     rw   token -> task waiting for read-readiness                         *)
(*     ww   token -> task waiting for write-readiness                        *)
(* where mask is the interest that is armed and active the part of it the    *)
(* kernel has an event for.  A set of directions is an Interest.  The        *)
(* kernel's side (what epoll_ctl, kevent and epoll_wait do) is external.     *)
(***************************************************************************)
EXTENDS Integers, FiniteSets, Functions

Backends == {"epoll", "kqueue"}

READABLE == {"r"}
WRITABLE == {"w"}
Dirs     == READABLE \cup WRITABLE

With(f, k, x) == [i \in DOMAIN f \cup {k} |-> IF i = k THEN x ELSE f[i]]
Without(f, k) == Restrict(f, DOMAIN f \ {k})

new_reactor == [reg |-> <<>>, rw |-> <<>>, ww |-> <<>>]

-----------------------------------------------------------------------------
(* The backends.  Each operation returns whether it succeeded and the reactor *)
(* after it; ready is the kernel's view of each fd.                           *)

Ok(r)  == [ok |-> TRUE, r |-> r]
Err(r) == [ok |-> FALSE, r |-> r]

\* EPOLLET | EPOLLONESHOT: one mask per fd, replaced as a whole
epoll_entry(fd, token, interest, ready) ==
    [token |-> token, mask |-> interest, active |-> interest \cap ready[fd]]

epoll_register(r, fd, token, interest, ready) ==
    IF fd \in DOMAIN r.reg THEN Err(r)  \* EEXIST
    ELSE Ok([r EXCEPT !.reg = With(@, fd, epoll_entry(fd, token, interest, ready))])

epoll_reregister(r, fd, token, interest, ready) ==
    IF fd \notin DOMAIN r.reg THEN Err(r)  \* ENOENT
    ELSE Ok([r EXCEPT !.reg[fd] = epoll_entry(fd, token, interest, ready)])

\* EV_ADD | EV_CLEAR and EV_DELETE of one filter
make_add_event(fd, d, token) == [ev |-> "add", fd |-> fd, filter |-> d, token |-> token]
make_del_event(fd, d)        == [ev |-> "delete", fd |-> fd, filter |-> d]

\* the changes of one fd: added filters join those it has, deleted ones leave
kevent_submit(r, changes, ready) ==
    LET fd  == (CHOOSE c \in changes : TRUE).fd
        add == {c \in changes : c.ev = "add"}
        on  == {c.filter : c \in add}
        off == {c.filter : c \in changes \ add}
        old == IF fd \in DOMAIN r.reg THEN r.reg[fd] ELSE [token |-> 0, mask |-> {}, active |-> {}]
        new == [token  |-> IF add = {} THEN old.token ELSE (CHOOSE c \in add : TRUE).token,
                mask   |-> (old.mask \ off) \cup on,
                active |-> (old.active \ off) \cup (on \cap ready[fd])]
    IN [r EXCEPT !.reg = IF new.mask = {} THEN Without(@, fd) ELSE With(@, fd, new)]

kqueue_register(r, fd, token, interest, ready) ==
    Ok(kevent_submit(r, {make_add_event(fd, d, token) : d \in interest}, ready))

register(b, r, fd, token, interest, ready) ==
    IF b = "epoll" THEN epoll_register(r, fd, token, interest, ready)
    ELSE kqueue_register(r, fd, token, interest, ready)

reregister(b, r, fd, token, interest, ready) ==
    IF b = "epoll" THEN epoll_reregister(r, fd, token, interest, ready)
    ELSE kqueue_register(r, fd, token, interest, ready)

\* EPOLL_CTL_DEL; an fd that is not registered is an error that callers ignore
epoll_deregister(r, fd) == [r EXCEPT !.reg = Without(@, fd)]

\* both filters, one at a time, ENOENT ignored
kqueue_deregister(r, fd) ==
    kevent_submit(kevent_submit(r, {make_del_event(fd, "r")}, [f \in {fd} |-> {}]), {make_del_event(fd, "w")}, [f \in {fd} |-> {}])

deregister(b, r, fd) ==
    IF b = "epoll" THEN epoll_deregister(r, fd) ELSE kqueue_deregister(r, fd)

-----------------------------------------------------------------------------
(* The kernel.                                                                *)

\* close(fd) takes the fd out of every epoll instance or kqueue
closed(r, fd) == [r EXCEPT !.reg = Without(@, fd)]

\* fd becomes ready in direction d, or gets more of what made it ready
notified(r, fd, d) ==
    IF fd \in DOMAIN r.reg /\ d \in r.reg[fd].mask
    THEN [r EXCEPT !.reg[fd].active = @ \cup {d}] ELSE r

\* the events epoll_wait or kevent returns: those that still hold
hits(r, fd, ready) == r.reg[fd].active \cap ready[fd]

-----------------------------------------------------------------------------
(* WakerRegistry.                                                             *)

set_read_waker(r, token, t)  == [r EXCEPT !.rw = With(@, token, t)]
set_write_waker(r, token, t) == [r EXCEPT !.ww = With(@, token, t)]

remove_token(r, token) == [r EXCEPT !.rw = Without(@, token), !.ww = Without(@, token)]

\* for the tokens of a poll's readable and of its writable events; a waker is
\* removed before it is fired
wake_token(r, readable, writable) ==
    [r     |-> [r EXCEPT !.rw = Restrict(@, DOMAIN @ \ readable),
                         !.ww = Restrict(@, DOMAIN @ \ writable)],
     woken |-> {r.rw[k] : k \in readable \cap DOMAIN r.rw}
          \cup {r.ww[k] : k \in writable \cap DOMAIN r.ww}]

deregister_with_token(b, r, fd, token) == deregister(b, remove_token(r, token), fd)

-----------------------------------------------------------------------------
(* Polling.  The events of a backend are the fds it reports and what is left  *)
(* of the registrations.                                                      *)

Fired(r, ready, d) == {fd \in DOMAIN r.reg : d \in hits(r, fd, ready)}

\* the one-shot mask is spent as a whole by an event of either direction
epoll_poll(r, ready) ==
    [fd \in DOMAIN r.reg |->
        IF hits(r, fd, ready) # {} THEN [r.reg[fd] EXCEPT !.active = {}, !.mask = {}]
        ELSE [r.reg[fd] EXCEPT !.active = {}]]

\* the filters stay and only forget the edge
kqueue_poll(r, ready) == [fd \in DOMAIN r.reg |-> [r.reg[fd] EXCEPT !.active = {}]]

\* Reactor::poll: the backend's events, then wake_token for each of them
poll(b, r, ready) ==
    LET toks(d) == {r.reg[fd].token : fd \in Fired(r, ready, d)}
        left    == IF b = "epoll" THEN epoll_poll(r, ready) ELSE kqueue_poll(r, ready)
    IN wake_token([r EXCEPT !.reg = left], toks("r"), toks("w"))
=============================================================================
