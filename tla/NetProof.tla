------------------------------ MODULE NetProof ------------------------------
(***************************************************************************)
(* Proofs about sockets over the reactors, for any number of fds, tasks and *)
(* threads, and for both backends.                                          *)
(***************************************************************************)
EXTENDS Net, TLAPS

-----------------------------------------------------------------------------
(* The inductive invariant.  Its first half is about sockets and reactors.    *)

Entries == {e \in [token : Nat, mask : SUBSET Dirs, active : SUBSET Dirs] : e.active \subseteq e.mask}

\* r is a reactor
ReactorOK(r) ==
    /\ r = [reg |-> r.reg, rw |-> r.rw, ww |-> r.ww]
    /\ r.reg \in [DOMAIN r.reg -> Entries]

Kinds == {"listener", "tcp", "udp", "connecting"}
Socks == [kind : Kinds \cup {"free", "leaked"}, token : Nat,
          conn : {"none", "pending", "ok", "refused"}]

NetTypes ==
    /\ backend \in Backends
    /\ next_tok \in Nat \ {0}
    /\ ready \in [Fds -> SUBSET Dirs]
    /\ socks \in [Fds -> Socks]
    /\ dropping \in [Threads -> SUBSET (Fds \X Nat)]
    /\ reactors = [th \in Threads |-> reactors[th]]
    /\ \A th \in Threads : ReactorOK(reactors[th])

\* Every socket has a token of its own, and no direction is ready before a connect has ended.
SockInv ==
    /\ \A f \in Fds : /\ socks[f].token < next_tok
                      /\ socks[f].kind \in Kinds => socks[f].token # 0
                      /\ socks[f].conn # "none" <=> socks[f].kind = "connecting"
                      /\ socks[f].conn = "pending" => ready[f] = {}
    /\ \A f, g \in Fds : socks[f].token = socks[g].token /\ socks[f].token # 0 => f = g

\* What is registered is an open fd, under a token that no other fd's socket has.
RegInv ==
    \A th \in Threads : \A g \in DOMAIN reactors[th].reg :
        /\ g \in Fds /\ socks[g].kind # "free"
        /\ reactors[th].reg[g].token # 0 /\ reactors[th].reg[g].token < next_tok
        /\ \A f \in Fds : socks[f].token = reactors[th].reg[g].token => f = g

\* An IoSource that is yet to be deregistered: its thread knows neither the fd, which may have
\* been reused elsewhere, nor is its token in use.
DropInv ==
    \A th \in Threads : \A p \in dropping[th] :
        /\ p[1] \notin DOMAIN reactors[th].reg
        /\ p[2] # 0 /\ p[2] < next_tok
        /\ \A f \in Fds : socks[f].token # p[2]

NetSocks == NetTypes /\ SockInv /\ RegInv /\ DropInv

(* The second half is about tasks.                                            *)

\* Some reactor will wake t; with epoll nothing else can spend the one-shot mask.
Holds(f, d, t) ==
    \E th \in Threads : /\ Armed(reactors[th], f, d, t)
                        /\ backend = "epoll" => reactors[th].reg[f].mask = {d}

Connecting(t) == op[t].k = "connect" /\ op[t].fd # 0

TaskOK(t) ==
    /\ op[t].fd \in Fds \cup {0}
    /\ op[t].k = "none" => op[t].fd = 0
    /\ op[t].k \in DOMAIN Direction => op[t].fd \in Fds /\ socks[op[t].fd].kind = Uses[op[t].k]
    /\ Connecting(t) => /\ socks[op[t].fd].kind = "connecting"
                        /\ \A u \in NetTasks : op[u].fd = op[t].fd => u = t
                        /\ t \notin due \/ socks[op[t].fd].conn = "pending" => Holds(op[t].fd, "w", t)
    /\ \A f \in Fds : \A d \in Dirs : <<d, t>> \in newest[f] =>
          /\ op[t].k \in DOMAIN Direction /\ Direction[op[t].k] = d /\ op[t].fd = f
          /\ t \notin due => Holds(f, d, t)

TaskTypes ==
    /\ op = [t \in NetTasks |-> op[t]]
    /\ \A t \in NetTasks : op[t].k \in {"none", "connect"} \cup DOMAIN Direction
                           /\ op[t] = [k |-> op[t].k, fd |-> op[t].fd]
    /\ newest \in [Fds -> SUBSET (Dirs \X NetTasks)]

NetIInv == NetSocks /\ TaskTypes /\ \A t \in NetTasks : TaskOK(t)

-----------------------------------------------------------------------------
(* What the operations of a reactor change.                                   *)

\* r2 has what r has of fd f, whose socket has token k.
Kept(r, r2, f, k) ==
    f \in DOMAIN r.reg => /\ f \in DOMAIN r2.reg /\ r2.reg[f] = r.reg[f]
                          /\ k \in DOMAIN r.rw => k \in DOMAIN r2.rw /\ r2.rw[k] = r.rw[k]
                          /\ k \in DOMAIN r.ww => k \in DOMAIN r2.ww /\ r2.ww[k] = r.ww[k]

\* r2 is a reactor that differs from r at most in fd g.
OnlyFd(r, r2, g) ==
    /\ ReactorOK(r2) /\ DOMAIN r2.reg \subseteq DOMAIN r.reg \cup {g}
    /\ \A f \in DOMAIN r.reg \ {g} : f \in DOMAIN r2.reg /\ r2.reg[f] = r.reg[f]

SameWakers(r, r2) == r2.rw = r.rw /\ r2.ww = r.ww

LEMMA SetReg ==
    ASSUME NEW r, ReactorOK(r), NEW x
    PROVE  LET r2 == [r EXCEPT !.reg = x]
           IN  r2 = [reg |-> x, rw |-> r.rw, ww |-> r.ww]
  BY DEF ReactorOK

LEMMA WithEntry ==
    ASSUME NEW r, ReactorOK(r), NEW g, NEW e \in Entries
    PROVE  LET r2 == [r EXCEPT !.reg = With(@, g, e)]
           IN  /\ OnlyFd(r, r2, g) /\ SameWakers(r, r2)
               /\ g \in DOMAIN r2.reg /\ r2.reg[g] = e
<1>. DEFINE x == With(r.reg, g, e)
            r2 == [reg |-> x, rw |-> r.rw, ww |-> r.ww]
<1>1. [r EXCEPT !.reg = With(@, g, e)] = r2
  BY SetReg, Zenon
<1>2. DOMAIN x = DOMAIN r.reg \cup {g} /\ x[g] = e /\ \A f \in DOMAIN r.reg \ {g} : x[f] = r.reg[f]
  BY Zenon DEF With
<1>3. x \in [DOMAIN x -> Entries]
  BY Zenon DEF With, ReactorOK
<1>. HIDE DEF x
<1>4. ReactorOK(r2)
  BY <1>3, Zenon DEF ReactorOK
<1>. QED
  BY <1>1, <1>2, <1>4, Zenon DEF OnlyFd, SameWakers

LEMMA WithoutEntry ==
    ASSUME NEW r, ReactorOK(r), NEW g
    PROVE  LET r2 == [r EXCEPT !.reg = Without(@, g)]
           IN  /\ OnlyFd(r, r2, g) /\ SameWakers(r, r2)
               /\ g \notin DOMAIN r2.reg
<1>. DEFINE x == Without(r.reg, g)
            r2 == [reg |-> x, rw |-> r.rw, ww |-> r.ww]
<1>1. [r EXCEPT !.reg = Without(@, g)] = r2
  BY SetReg, Zenon
<1>2. DOMAIN x = DOMAIN r.reg \ {g} /\ \A f \in DOMAIN r.reg \ {g} : x[f] = r.reg[f]
  BY Zenon DEF Without, Restrict
<1>3. x \in [DOMAIN x -> Entries]
  BY Zenon DEF Without, Restrict, ReactorOK
<1>. HIDE DEF x
<1>4. ReactorOK(r2)
  BY <1>3, Zenon DEF ReactorOK
<1>. QED
  BY <1>1, <1>2, <1>4, Zenon DEF OnlyFd, SameWakers

\* kevent with EV_ADD for a set of filters of one fd
LEMMA KqueueAdd ==
    ASSUME NEW r, ReactorOK(r), NEW g, NEW k \in Nat, NEW i \in (SUBSET Dirs) \ {{}}, NEW rdy
    PROVE  LET r2  == kqueue_register(r, g, k, i, rdy).r
               old == IF g \in DOMAIN r.reg THEN r.reg[g] ELSE [token |-> 0, mask |-> {}, active |-> {}]
           IN  /\ kqueue_register(r, g, k, i, rdy).ok
               /\ OnlyFd(r, r2, g) /\ SameWakers(r, r2)
               /\ g \in DOMAIN r2.reg
               /\ r2.reg[g] = [token |-> k, mask |-> old.mask \cup i,
                               active |-> old.active \cup (i \cap rdy[g])]
<1>. DEFINE changes == {make_add_event(g, d, k) : d \in i}
            old == IF g \in DOMAIN r.reg THEN r.reg[g] ELSE [token |-> 0, mask |-> {}, active |-> {}]
            new == [token |-> k, mask |-> old.mask \cup i, active |-> old.active \cup (i \cap rdy[g])]
<1>1. \A c \in changes : c.ev = "add" /\ c.fd = g /\ c.token = k /\ c.filter \in i
  BY DEF make_add_event
<1>2. \A d \in i : \E c \in changes : c.filter = d
  <2>. SUFFICES ASSUME NEW d \in i PROVE \E c \in changes : c.filter = d
    BY Zenon
  <2>1. make_add_event(g, d, k) \in changes /\ make_add_event(g, d, k).filter = d
    BY Zenon DEF make_add_event
  <2>. QED
    BY <2>1, Zenon
<1>3. changes # {}
  BY Zenon
<1>. HIDE DEF changes
<1>4. {c \in changes : c.ev = "add"} = changes /\ changes \ changes = {}
  BY <1>1, Zenon
<1>5. (CHOOSE c \in changes : TRUE) \in changes
  BY <1>3, Zenon
<1>6. {c.filter : c \in changes} = i
  BY <1>1, <1>2, Zenon
<1>7. old \in Entries
  <2>1. [token |-> 0, mask |-> {}, active |-> {}] \in Entries
    BY Zenon DEF Entries
  <2>. QED
    BY <2>1, Zenon DEF ReactorOK
<1>8. old.mask \in SUBSET Dirs /\ old.active \in SUBSET old.mask
  BY <1>7, Zenon DEF Entries
<1>. HIDE DEF old
<1>9. new \in Entries
  BY <1>8, Zenon DEF Entries
<1>10. kevent_submit(r, changes, rdy) = [r EXCEPT !.reg = With(@, g, new)]
  <2>1. old.mask \ {} = old.mask /\ old.active \ {} = old.active /\ {c.filter : c \in {}} = {}
    BY Zenon
  <2>2. new.mask # {}
    BY Zenon
  <2>. QED
    BY <1>1, <1>3, <1>4, <1>5, <1>6, <2>1, <2>2, ZenonT(60) DEF kevent_submit, old
<1>11. kqueue_register(r, g, k, i, rdy) = [ok |-> TRUE, r |-> kevent_submit(r, changes, rdy)]
  BY Zenon DEF kqueue_register, Ok, changes
<1>. HIDE DEF new
<1>12. LET r2 == kevent_submit(r, changes, rdy)
       IN  OnlyFd(r, r2, g) /\ SameWakers(r, r2) /\ g \in DOMAIN r2.reg /\ r2.reg[g] = new
  BY <1>9, <1>10, WithEntry
<1>. QED
  BY <1>11, <1>12 DEF new, old

\* Registering an fd that this reactor does not know.
LEMMA RegisterNew ==
    ASSUME NEW b \in Backends, NEW r, ReactorOK(r), NEW g, g \notin DOMAIN r.reg,
           NEW k \in Nat, NEW i \in (SUBSET Dirs) \ {{}}, NEW rdy
    PROVE  LET r2 == register(b, r, g, k, i, rdy).r
           IN  /\ OnlyFd(r, r2, g) /\ SameWakers(r, r2)
               /\ g \in DOMAIN r2.reg
               /\ r2.reg[g] = [token |-> k, mask |-> i, active |-> i \cap rdy[g]]
<1>1. CASE b = "epoll"
  <2>1. epoll_entry(g, k, i, rdy) \in Entries
    BY Zenon DEF epoll_entry, Entries
  <2>2. register(b, r, g, k, i, rdy) = [ok |-> TRUE, r |-> [r EXCEPT !.reg = With(@, g, epoll_entry(g, k, i, rdy))]]
    BY <1>1, Zenon DEF register, epoll_register, Ok
  <2>3. register(b, r, g, k, i, rdy).r = [r EXCEPT !.reg = With(@, g, epoll_entry(g, k, i, rdy))]
    BY <2>2
  <2>. QED
    BY <2>1, <2>3, WithEntry DEF epoll_entry
<1>2. CASE b # "epoll"
  <2>1. register(b, r, g, k, i, rdy) = kqueue_register(r, g, k, i, rdy)
    BY <1>2, Zenon DEF register
  <2>. DEFINE old == [token |-> 0, mask |-> {}, active |-> {}]
  <2>2. old.mask \cup i = i /\ old.active \cup (i \cap rdy[g]) = i \cap rdy[g]
    BY Zenon
  <2>. QED
    BY <2>1, <2>2, KqueueAdd
<1>. QED
  BY <1>1, <1>2, Zenon

\* reregister for one direction
Rearmed(b, r, g, k, d, rdy) == reregister(b, r, g, k, {d}, rdy)

\* Re-arming an fd for direction d fails only where epoll does not know it.
LEMMA Rearm ==
    ASSUME NEW b \in Backends, NEW r, ReactorOK(r), NEW g, NEW k \in Nat, NEW d \in Dirs, NEW rdy,
           d \notin rdy[g]
    PROVE  LET res == Rearmed(b, r, g, k, d, rdy)
           IN  /\ res.ok => /\ OnlyFd(r, res.r, g) /\ SameWakers(r, res.r)
                            /\ g \in DOMAIN res.r.reg
                            /\ res.r.reg[g].token = k /\ d \in res.r.reg[g].mask
                            /\ b = "epoll" => res.r.reg[g].mask = {d}
                            /\ b # "epoll" /\ g \in DOMAIN r.reg
                                 => /\ res.r.reg[g].mask = r.reg[g].mask \cup {d}
                                    /\ res.r.reg[g].active = r.reg[g].active
               /\ ~res.ok => res.r = r /\ g \notin DOMAIN r.reg
<1>. USE DEF Rearmed
<1>1. {d} \in (SUBSET Dirs) \ {{}} /\ {d} \cap rdy[g] = {}
  BY Zenon
<1>2. CASE b = "epoll"
  <2>. DEFINE e == epoll_entry(g, k, {d}, rdy)
  <2>1. e \in Entries /\ e.token = k /\ e.mask = {d}
    BY Zenon DEF epoll_entry, Entries
  <2>. HIDE DEF e
  <2>2. CASE g \in DOMAIN r.reg
    <3>1. reregister(b, r, g, k, {d}, rdy) = [ok |-> TRUE, r |-> [r EXCEPT !.reg[g] = e]]
      BY <1>2, <2>2, Zenon DEF reregister, epoll_reregister, Ok, e
    <3>2. [r EXCEPT !.reg[g] = e] = [r EXCEPT !.reg = With(@, g, e)]
      <4>1. [r.reg EXCEPT ![g] = e] = With(r.reg, g, e)
        BY <2>2, Zenon DEF With, ReactorOK
      <4>2. [r EXCEPT !.reg[g] = e] = [r EXCEPT !.reg = [r.reg EXCEPT ![g] = e]]
        BY Zenon DEF ReactorOK
      <4>. QED
        BY <4>1, <4>2, Zenon
    <3>. DEFINE r2 == [r EXCEPT !.reg = With(@, g, e)]
    <3>3. OnlyFd(r, r2, g) /\ SameWakers(r, r2) /\ g \in DOMAIN r2.reg /\ r2.reg[g] = e
      BY <2>1, WithEntry
    <3>. HIDE DEF r2
    <3>4. reregister(b, r, g, k, {d}, rdy) = [ok |-> TRUE, r |-> r2]
      BY <3>1, <3>2, Zenon DEF r2
    <3>5. reregister(b, r, g, k, {d}, rdy).ok /\ reregister(b, r, g, k, {d}, rdy).r = r2
      BY <3>4
    <3>6. r2.reg[g].token = k /\ r2.reg[g].mask = {d} /\ d \in {d}
      BY <2>1, <3>3, Zenon
    <3>. QED
      BY <1>2, <3>3, <3>5, <3>6, Zenon
  <2>3. CASE g \notin DOMAIN r.reg
    <3>1. reregister(b, r, g, k, {d}, rdy) = [ok |-> FALSE, r |-> r]
      BY <1>2, <2>3, Zenon DEF reregister, epoll_reregister, Err
    <3>. QED
      BY <2>3, <3>1
  <2>. QED
    BY <2>2, <2>3, Zenon
<1>3. CASE b # "epoll"
  <2>1. reregister(b, r, g, k, {d}, rdy) = kqueue_register(r, g, k, {d}, rdy)
    BY <1>3, Zenon DEF reregister
  <2>. DEFINE old == IF g \in DOMAIN r.reg THEN r.reg[g] ELSE [token |-> 0, mask |-> {}, active |-> {}]
              r2 == kqueue_register(r, g, k, {d}, rdy).r
  <2>2. /\ kqueue_register(r, g, k, {d}, rdy).ok
        /\ OnlyFd(r, r2, g) /\ SameWakers(r, r2) /\ g \in DOMAIN r2.reg
        /\ r2.reg[g] = [token |-> k, mask |-> old.mask \cup {d},
                        active |-> old.active \cup ({d} \cap rdy[g])]
    BY <1>1, KqueueAdd
  <2>. HIDE DEF r2
  <2>3. /\ r2.reg[g].token = k /\ r2.reg[g].mask = old.mask \cup {d} /\ r2.reg[g].active = old.active
    BY <1>1, <2>2
  <2>. QED
    BY <1>3, <2>1, <2>2, <2>3, Zenon DEF r2
<1>. QED
  BY <1>2, <1>3, Zenon

\* kevent with EV_DELETE for one filter
Delete(r, g, d) == kevent_submit(r, {make_del_event(g, d)}, [f \in {g} |-> {}])

LEMMA KqueueDelete ==
    ASSUME NEW r, ReactorOK(r), NEW g, NEW d \in Dirs
    PROVE  LET r2 == Delete(r, g, d)
           IN  /\ OnlyFd(r, r2, g) /\ SameWakers(r, r2)
               /\ g \in DOMAIN r2.reg => /\ g \in DOMAIN r.reg
                                         /\ r2.reg[g].mask = r.reg[g].mask \ {d}
                                         /\ r2.reg[g].mask # {}
<1>. DEFINE c == make_del_event(g, d)
            old == IF g \in DOMAIN r.reg THEN r.reg[g] ELSE [token |-> 0, mask |-> {}, active |-> {}]
            new == [token |-> old.token, mask |-> old.mask \ {d}, active |-> old.active \ {d}]
            rdy == [f \in {g} |-> {}]
            r2 == kevent_submit(r, {c}, rdy)
<1>1. c.ev = "delete" /\ c.fd = g /\ c.filter = d
  BY Zenon DEF make_del_event
<1>. HIDE DEF c
<1>2. {x \in {c} : x.ev = "add"} = {} /\ (CHOOSE x \in {c} : TRUE) = c
  BY <1>1, Zenon
<1>3. {x.filter : x \in {c} \ {}} = {d} /\ {x.filter : x \in {}} = {}
  BY <1>1, Zenon
<1>4. old \in Entries
  <2>1. [token |-> 0, mask |-> {}, active |-> {}] \in Entries
    BY Zenon DEF Entries
  <2>. QED
    BY <2>1, Zenon DEF ReactorOK
<1>5. old.token \in Nat /\ old.mask \in SUBSET Dirs /\ old.active \in SUBSET old.mask
  BY <1>4, Zenon DEF Entries
<1>6. r2 = [r EXCEPT !.reg = IF new.mask = {} THEN Without(@, g) ELSE With(@, g, new)]
  <2>1. /\ (old.mask \ {d}) \cup {} = old.mask \ {d}
        /\ (old.active \ {d}) \cup ({} \cap rdy[g]) = old.active \ {d}
    BY Zenon
  <2>. QED
    BY <1>1, <1>2, <1>3, <2>1, ZenonT(60) DEF kevent_submit
<1>. HIDE DEF old
<1>7. new \in Entries
  BY <1>5, Zenon DEF Entries
<1>. SUFFICES /\ OnlyFd(r, r2, g) /\ SameWakers(r, r2)
              /\ g \in DOMAIN r2.reg => /\ g \in DOMAIN r.reg
                                        /\ r2.reg[g].mask = r.reg[g].mask \ {d}
                                        /\ r2.reg[g].mask # {}
  BY Zenon DEF c, Delete
<1>. HIDE DEF r2
<1>8. CASE new.mask = {}
  <2>1. r2 = [r EXCEPT !.reg = Without(@, g)]
    BY <1>6, <1>8, Zenon
  <2>. QED
    BY <2>1, WithoutEntry, Zenon
<1>9. CASE new.mask # {}
  <2>1. r2 = [r EXCEPT !.reg = With(@, g, new)]
    BY <1>6, <1>9, Zenon
  <2>2. OnlyFd(r, r2, g) /\ SameWakers(r, r2) /\ r2.reg[g] = new
    BY <1>7, <2>1, WithEntry
  <2>3. g \in DOMAIN r.reg
    BY <1>9, Zenon DEF old
  <2>4. r2.reg[g].mask = old.mask \ {d} /\ old.mask \ {d} # {}
    BY <1>9, <2>2
  <2>5. old.mask = r.reg[g].mask
    BY <2>3, Zenon DEF old
  <2>. QED
    BY <2>2, <2>3, <2>4, <2>5, Zenon
<1>. QED
  BY <1>8, <1>9, Zenon

LEMMA Forget ==
    ASSUME NEW b \in Backends, NEW r, ReactorOK(r), NEW g
    PROVE  LET r2 == deregister(b, r, g)
           IN  OnlyFd(r, r2, g) /\ SameWakers(r, r2) /\ g \notin DOMAIN r2.reg
<1>1. CASE b = "epoll"
  BY <1>1, WithoutEntry, Zenon DEF deregister, epoll_deregister
<1>2. CASE b # "epoll"
  <2>. DEFINE r1 == Delete(r, g, "r")
              r2 == Delete(r1, g, "w")
  <2>0. "r" \in Dirs /\ "w" \in Dirs
    BY Zenon DEF Dirs, READABLE, WRITABLE
  <2>1. deregister(b, r, g) = r2
    BY <1>2, Zenon DEF deregister, kqueue_deregister, Delete
  <2>2. /\ OnlyFd(r, r1, g) /\ SameWakers(r, r1)
        /\ g \in DOMAIN r1.reg => /\ g \in DOMAIN r.reg /\ r1.reg[g].mask = r.reg[g].mask \ {"r"}
    BY <2>0, KqueueDelete
  <2>. HIDE DEF r1
  <2>3. ReactorOK(r1)
    BY <2>2, Zenon DEF OnlyFd
  <2>4. /\ OnlyFd(r1, r2, g) /\ SameWakers(r1, r2)
        /\ g \in DOMAIN r2.reg => /\ g \in DOMAIN r1.reg /\ r2.reg[g].mask = r1.reg[g].mask \ {"w"}
                                  /\ r2.reg[g].mask # {}
    BY <2>0, <2>3, KqueueDelete
  <2>. HIDE DEF r2
  <2>5. g \in DOMAIN r.reg => r.reg[g].mask \subseteq {"r", "w"}
    BY Zenon DEF ReactorOK, Entries, Dirs, READABLE, WRITABLE
  <2>6. g \notin DOMAIN r2.reg
    BY <2>2, <2>4, <2>5, Zenon
  <2>7. OnlyFd(r, r2, g) /\ SameWakers(r, r2)
    BY <2>2, <2>4, Zenon DEF OnlyFd, SameWakers
  <2>. QED
    BY <2>1, <2>6, <2>7, Zenon
<1>. QED
  BY <1>1, <1>2, Zenon

\* r2 has the wakers that r has under other tokens than k.
OtherWakers(r, r2, k) ==
    \A x : x # k => /\ x \in DOMAIN r.rw => x \in DOMAIN r2.rw /\ r2.rw[x] = r.rw[x]
                    /\ x \in DOMAIN r.ww => x \in DOMAIN r2.ww /\ r2.ww[x] = r.ww[x]

LEMMA OthersKept ==
    ASSUME NEW r, NEW r2, NEW g, NEW k, OnlyFd(r, r2, g), OtherWakers(r, r2, k)
    PROVE  \A f, x : f # g /\ x # k => Kept(r, r2, f, x)
  BY Zenon DEF OnlyFd, OtherWakers, Kept

LEMMA SameOthers == \A r, r2, k : SameWakers(r, r2) => OtherWakers(r, r2, k)
  BY Zenon DEF SameWakers, OtherWakers

LEMMA SetWakers ==
    ASSUME NEW r, ReactorOK(r), NEW x, NEW y
    PROVE  [r EXCEPT !.rw = x, !.ww = y] = [reg |-> r.reg, rw |-> x, ww |-> y]
<1>. DEFINE p == [r EXCEPT !.rw = x]
<1>1. p = [reg |-> r.reg, rw |-> x, ww |-> r.ww]
  BY DEF ReactorOK
<1>2. [r EXCEPT !.rw = x, !.ww = y] = [p EXCEPT !.ww = y]
  BY Zenon
<1>. HIDE DEF p
<1>3. p = [reg |-> p.reg, rw |-> p.rw, ww |-> p.ww] /\ p.reg = r.reg /\ p.rw = x
  BY <1>1, Zenon
<1>4. [p EXCEPT !.ww = y] = [reg |-> p.reg, rw |-> p.rw, ww |-> y]
  BY <1>3
<1>. QED
  BY <1>2, <1>3, <1>4, Zenon

\* IoSource::drop and the ConnectFuture: the wakers go first, then the fd.
LEMMA Deregister ==
    ASSUME NEW b \in Backends, NEW r, ReactorOK(r), NEW g, NEW k
    PROVE  LET r2 == deregister_with_token(b, r, g, k)
           IN  OnlyFd(r, r2, g) /\ OtherWakers(r, r2, k) /\ g \notin DOMAIN r2.reg
<1>. DEFINE r1 == [reg |-> r.reg, rw |-> Without(r.rw, k), ww |-> Without(r.ww, k)]
            r2 == deregister(b, r1, g)
<1>1. remove_token(r, k) = r1
  BY SetWakers, Zenon DEF remove_token
<1>2. ReactorOK(r1)
  BY Zenon DEF ReactorOK
<1>3. OtherWakers(r, r1, k)
  BY Zenon DEF OtherWakers, Without, Restrict
<1>4. deregister_with_token(b, r, g, k) = r2
  BY <1>1, Zenon DEF deregister_with_token
<1>5. r1.reg = r.reg
  BY Zenon
<1>. HIDE DEF r1
<1>6. OnlyFd(r1, r2, g) /\ SameWakers(r1, r2) /\ g \notin DOMAIN r2.reg
  BY <1>2, Forget, Zenon
<1>. HIDE DEF r2
<1>7. OnlyFd(r, r2, g)
  BY <1>5, <1>6, Zenon DEF OnlyFd
<1>8. OtherWakers(r, r2, k)
  BY <1>3, <1>6, Zenon DEF OtherWakers, SameWakers
<1>. QED
  BY <1>4, <1>6, <1>7, <1>8, Zenon

LEMMA Close ==
    ASSUME NEW r, ReactorOK(r), NEW g
    PROVE  LET r2 == closed(r, g)
           IN  OnlyFd(r, r2, g) /\ SameWakers(r, r2) /\ g \notin DOMAIN r2.reg
  BY WithoutEntry, Zenon DEF closed

\* Storing the waker of t for direction d.
set_waker(r, d, k, t) == IF d = "r" THEN set_read_waker(r, k, t) ELSE set_write_waker(r, k, t)

WakerOf(r, d) == IF d = "r" THEN r.rw ELSE r.ww

LEMMA SetWaker ==
    ASSUME NEW r, ReactorOK(r), NEW d \in Dirs, NEW k, NEW t
    PROVE  LET r2 == set_waker(r, d, k, t)
           IN  /\ ReactorOK(r2) /\ r2.reg = r.reg /\ OtherWakers(r, r2, k)
               /\ k \in DOMAIN WakerOf(r2, d) /\ WakerOf(r2, d)[k] = t
               /\ \A e \in Dirs \ {d} : WakerOf(r2, e) = WakerOf(r, e)
<1>0. Dirs = {"r", "w"}
  BY Zenon DEF Dirs, READABLE, WRITABLE
<1>1. CASE d = "r"
  <2>. DEFINE x == With(r.rw, k, t)
              r2 == [reg |-> r.reg, rw |-> x, ww |-> r.ww]
  <2>1. set_waker(r, d, k, t) = r2
    BY <1>1, Zenon DEF set_waker, set_read_waker, ReactorOK
  <2>2. k \in DOMAIN x /\ x[k] = t /\ \A y \in DOMAIN r.rw : y # k => y \in DOMAIN x /\ x[y] = r.rw[y]
    BY Zenon DEF With
  <2>. HIDE DEF x
  <2>3. ReactorOK(r2)
    BY Zenon DEF ReactorOK
  <2>4. OtherWakers(r, r2, k)
    BY <2>2, Zenon DEF OtherWakers
  <2>. QED
    BY <1>0, <1>1, <2>1, <2>2, <2>3, <2>4 DEF WakerOf
<1>2. CASE d # "r"
  <2>. DEFINE x == With(r.ww, k, t)
              r2 == [reg |-> r.reg, rw |-> r.rw, ww |-> x]
  <2>1. set_waker(r, d, k, t) = r2
    BY <1>2, Zenon DEF set_waker, set_write_waker, ReactorOK
  <2>2. k \in DOMAIN x /\ x[k] = t /\ \A y \in DOMAIN r.ww : y # k => y \in DOMAIN x /\ x[y] = r.ww[y]
    BY Zenon DEF With
  <2>. HIDE DEF x
  <2>3. ReactorOK(r2)
    BY Zenon DEF ReactorOK
  <2>4. OtherWakers(r, r2, k)
    BY <2>2, Zenon DEF OtherWakers
  <2>. QED
    BY <1>0, <1>2, <2>1, <2>2, <2>3, <2>4 DEF WakerOf
<1>. QED
  BY <1>1, <1>2, Zenon

\* The kernel has more for fd g.
LEMMA Notification ==
    ASSUME NEW r, ReactorOK(r), NEW g, NEW d \in Dirs
    PROVE  LET r2 == notified(r, g, d)
           IN  /\ OnlyFd(r, r2, g) /\ SameWakers(r, r2) /\ DOMAIN r2.reg = DOMAIN r.reg
               /\ g \in DOMAIN r.reg => /\ r2.reg[g].token = r.reg[g].token
                                        /\ r2.reg[g].mask = r.reg[g].mask
                                        /\ r.reg[g].active \subseteq r2.reg[g].active
                                        /\ d \in r.reg[g].mask => d \in r2.reg[g].active
<1>1. CASE g \in DOMAIN r.reg /\ d \in r.reg[g].mask
  <2>. DEFINE e == [token |-> r.reg[g].token, mask |-> r.reg[g].mask,
                    active |-> r.reg[g].active \cup {d}]
              x == [r.reg EXCEPT ![g] = e]
              r2 == [reg |-> x, rw |-> r.rw, ww |-> r.ww]
  <2>1. r.reg[g] \in Entries
    BY <1>1, Zenon DEF ReactorOK
  <2>2. e \in Entries /\ [r.reg[g] EXCEPT !.active = @ \cup {d}] = e
    BY <1>1, <2>1, SMTT(60) DEF Entries
  <2>3. notified(r, g, d) = [r EXCEPT !.reg = [r.reg EXCEPT ![g] = [r.reg[g] EXCEPT !.active = @ \cup {d}]]]
    BY <1>1, Zenon DEF notified
  <2>4. notified(r, g, d) = r2
    BY <2>2, <2>3, SetReg, Zenon
  <2>5. e.token = r.reg[g].token /\ e.mask = r.reg[g].mask /\ e.active = r.reg[g].active \cup {d}
    BY Zenon
  <2>. HIDE DEF e
  <2>6. /\ DOMAIN x = DOMAIN r.reg /\ x[g] = e
        /\ \A f \in DOMAIN r.reg \ {g} : x[f] = r.reg[f]
        /\ x \in [DOMAIN x -> Entries]
    BY <1>1, <2>2, Zenon DEF ReactorOK
  <2>. HIDE DEF x
  <2>7. ReactorOK(r2)
    BY <2>6, Zenon DEF ReactorOK
  <2>. QED
    BY <2>4, <2>5, <2>6, <2>7 DEF OnlyFd, SameWakers
<1>2. CASE ~(g \in DOMAIN r.reg /\ d \in r.reg[g].mask)
  <2>1. notified(r, g, d) = r
    BY <1>2, Zenon DEF notified
  <2>. QED
    BY <1>2, <2>1, Zenon DEF OnlyFd, SameWakers
<1>. QED
  BY <1>1, <1>2, Zenon

\* r will wake t when g, which has token k, is ready in direction d.
Waits(b, r, g, d, k, t) ==
    /\ k \in DOMAIN WakerOf(r, d) /\ WakerOf(r, d)[k] = t
    /\ g \in DOMAIN r.reg /\ r.reg[g].token = k
    /\ d \in r.reg[g].mask
    /\ b = "epoll" => r.reg[g].mask = {d}

\* Reactor::poll wakes a task whose socket is ready, and leaves one whose socket is not as it was.
LEMMA Poll ==
    ASSUME NEW b \in Backends, NEW r, ReactorOK(r), NEW rdy
    PROVE  LET res == poll(b, r, rdy)
           IN  /\ ReactorOK(res.r) /\ DOMAIN res.r.reg = DOMAIN r.reg
               /\ \A g \in DOMAIN r.reg : res.r.reg[g].token = r.reg[g].token
               /\ \A g, d, k, t :
                    /\ Waits(b, r, g, d, k, t) /\ d \in Dirs
                    /\ d \in rdy[g] => d \in r.reg[g].active
                    /\ \A f \in DOMAIN r.reg : r.reg[f].token = k => f = g
                    => IF d \in rdy[g] THEN t \in res.woken ELSE Waits(b, res.r, g, d, k, t)
<1>. DEFINE left == IF b = "epoll" THEN epoll_poll(r, rdy) ELSE kqueue_poll(r, rdy)
            rt == {r.reg[f].token : f \in Fired(r, rdy, "r")}
            wt == {r.reg[f].token : f \in Fired(r, rdy, "w")}
            nr == Restrict(r.rw, DOMAIN r.rw \ rt)
            nw == Restrict(r.ww, DOMAIN r.ww \ wt)
            r2 == [reg |-> left, rw |-> nr, ww |-> nw]
            woken == {r.rw[k] : k \in rt \cap DOMAIN r.rw} \cup {r.ww[k] : k \in wt \cap DOMAIN r.ww}
            r1 == [reg |-> left, rw |-> r.rw, ww |-> r.ww]
<1>1. \A g \in DOMAIN r.reg : /\ r.reg[g] \in Entries
                              /\ left[g].token = r.reg[g].token /\ left[g].active = {}
                              /\ left[g].mask = IF b = "epoll" /\ hits(r, g, rdy) # {} THEN {}
                                                ELSE r.reg[g].mask
                              /\ left[g] \in Entries
  BY Zenon DEF ReactorOK, Entries, epoll_poll, kqueue_poll
<1>2. DOMAIN left = DOMAIN r.reg /\ left = [g \in DOMAIN r.reg |-> left[g]]
  BY Zenon DEF epoll_poll, kqueue_poll
<1>3. poll(b, r, rdy) = wake_token(r1, rt, wt)
  BY SetReg, Zenon DEF poll
<1>. HIDE DEF left
<1>4. ReactorOK(r1) /\ ReactorOK(r2)
  BY <1>1, <1>2, Zenon DEF ReactorOK
<1>5. wake_token(r1, rt, wt) = [r |-> r2, woken |-> woken]
  <2>. HIDE DEF rt, wt, nr, nw
  <2>1. r1.reg = left /\ r1.rw = r.rw /\ r1.ww = r.ww
    BY Zenon
  <2>. HIDE DEF r1
  <2>2. [r1 EXCEPT !.rw = nr, !.ww = nw] = r2
    BY <1>4, <2>1, SetWakers, ZenonT(60)
  <2>. HIDE DEF r2
  <2>. QED
    BY <2>1, <2>2, Zenon DEF wake_token, nr, nw
<1>6. DOMAIN nr = DOMAIN r.rw \ rt /\ \A k \in DOMAIN nr : nr[k] = r.rw[k]
  BY Zenon DEF Restrict
<1>7. DOMAIN nw = DOMAIN r.ww \ wt /\ \A k \in DOMAIN nw : nw[k] = r.ww[k]
  BY Zenon DEF Restrict
<1>. HIDE DEF nr, nw
<1>8. ASSUME NEW g, NEW d \in Dirs, NEW k, NEW t, Waits(b, r, g, d, k, t),
             d \in rdy[g] => d \in r.reg[g].active,
             \A f \in DOMAIN r.reg : r.reg[f].token = k => f = g
      PROVE  IF d \in rdy[g] THEN t \in woken ELSE Waits(b, r2, g, d, k, t)
  <2>1. g \in DOMAIN r.reg /\ r.reg[g].token = k /\ d \in {"r", "w"}
    BY <1>8, Zenon DEF Waits, Dirs, READABLE, WRITABLE
  <2>2. CASE d \in rdy[g]
    <3>1. g \in Fired(r, rdy, d)
      BY <1>8, <2>1, <2>2, Zenon DEF Fired, hits
    <3>2. k \in IF d = "r" THEN rt ELSE wt
      BY <2>1, <3>1, Zenon
    <3>. QED
      BY <1>8, <2>1, <2>2, <3>2, Zenon DEF Waits, WakerOf
  <2>3. CASE d \notin rdy[g]
    <3>1. k \notin IF d = "r" THEN rt ELSE wt
      BY <1>8, <2>1, <2>3, Zenon DEF Fired, hits
    <3>2. left[g].mask = r.reg[g].mask
      BY <1>1, <1>8, <2>1, <2>3 DEF Waits, hits, Entries
    <3>. HIDE DEF rt, wt
    <3>3. k \in DOMAIN WakerOf(r2, d) /\ WakerOf(r2, d)[k] = t
      BY <1>6, <1>7, <1>8, <2>1, <3>1, Zenon DEF WakerOf, Waits
    <3>. QED
      BY <1>1, <1>2, <1>8, <2>1, <2>3, <3>2, <3>3, Zenon DEF Waits
  <2>. QED
    BY <2>2, <2>3, Zenon
<1>. HIDE DEF r2, woken, rt, wt
<1>9. poll(b, r, rdy).r = r2 /\ poll(b, r, rdy).woken = woken
  BY <1>3, <1>5
<1>10. r2.reg = left
  BY Zenon DEF r2
<1>. QED
  BY <1>1, <1>2, <1>4, <1>8, <1>9, <1>10, SMTT(60)

-----------------------------------------------------------------------------
(* What a step must keep, for sockets and for tasks.                          *)

\* What the invariant says of a task's operation is kept with what it says of its socket.
SocketKept(f) ==
    /\ socks'[f] = socks[f] /\ ready'[f] \subseteq ready[f]
    /\ \A th \in Threads : Kept(reactors[th], reactors'[th], f, socks[f].token)

\* Task u goes on as it was, or is scheduled, or is no longer the last to have armed a socket.
SameTask(u) ==
    /\ op'[u] = op[u] /\ (u \in due => u \in due')
    /\ \A f \in Fds : \A d \in Dirs : <<d, u>> \in newest'[f] => <<d, u>> \in newest[f]
    /\ Connecting(u) => \A v \in NetTasks : op'[v].fd = op[u].fd => v = u

LEMMA HoldsKept ==
    ASSUME NEW f, NEW d \in Dirs, NEW t, Holds(f, d, t), backend' = backend, SocketKept(f)
    PROVE  Holds(f, d, t)'
<1>1. PICK th \in Threads : /\ Armed(reactors[th], f, d, t)
                            /\ backend = "epoll" => reactors[th].reg[f].mask = {d}
  BY Zenon DEF Holds
<1>2. Kept(reactors[th], reactors'[th], f, socks[f].token)
  BY Zenon DEF SocketKept
<1>3. /\ socks'[f].token = socks[f].token
      /\ d \in ready'[f] => d \in ready[f]
  BY Zenon DEF SocketKept
<1>4. Armed(reactors[th], f, d, t)'
  BY <1>1, <1>2, <1>3, Zenon DEF Armed, Kept
<1>5. backend' = "epoll" => reactors'[th].reg[f].mask = {d}
  BY <1>1, <1>2, Zenon DEF Armed, Kept
<1>. QED
  BY <1>4, <1>5, Zenon DEF Holds

LEMMA TaskKept ==
    ASSUME NEW u \in NetTasks, TaskOK(u), SameTask(u), backend' = backend,
           op[u].fd \in Fds => SocketKept(op[u].fd)
    PROVE  TaskOK(u)'
<1>0. "w" \in Dirs
  BY Zenon DEF Dirs, READABLE, WRITABLE
<1>1. op'[u] = op[u]
  BY Zenon DEF SameTask
<1>2. op[u].fd \in Fds \cup {0} /\ (op[u].k = "none" => op[u].fd = 0)
  BY Zenon DEF TaskOK
<1>3. op[u].k \in DOMAIN Direction => op[u].fd \in Fds /\ socks'[op[u].fd].kind = Uses[op[u].k]
  BY Zenon DEF TaskOK, SocketKept
<1>4. ASSUME Connecting(u)
      PROVE  /\ socks'[op[u].fd].kind = "connecting"
             /\ \A v \in NetTasks : op'[v].fd = op[u].fd => v = u
             /\ u \notin due' \/ socks'[op[u].fd].conn = "pending" => Holds(op[u].fd, "w", u)'
  <2>1. op[u].fd \in Fds
    BY <1>2, <1>4, Zenon DEF Connecting
  <2>2. socks'[op[u].fd] = socks[op[u].fd]
    BY <2>1, Zenon DEF SocketKept
  <2>3. ASSUME u \notin due' \/ socks'[op[u].fd].conn = "pending"
        PROVE  Holds(op[u].fd, "w", u)'
    <3>1. Holds(op[u].fd, "w", u)
      BY <1>4, <2>2, <2>3, Zenon DEF TaskOK, SameTask
    <3>. QED
      BY <1>0, <1>1, <2>1, <3>1, HoldsKept, Zenon
  <2>. QED
    BY <1>4, <2>2, <2>3, Zenon DEF TaskOK, SameTask
<1>5. ASSUME NEW f \in Fds, NEW d \in Dirs, <<d, u>> \in newest'[f]
      PROVE  /\ op[u].k \in DOMAIN Direction /\ Direction[op[u].k] = d /\ op[u].fd = f
             /\ u \notin due' => Holds(f, d, u)'
  <2>1. /\ op[u].k \in DOMAIN Direction /\ Direction[op[u].k] = d /\ op[u].fd = f
        /\ u \notin due => Holds(f, d, u)
    BY <1>5, Zenon DEF TaskOK, SameTask
  <2>2. u \notin due' => Holds(f, d, u)'
    BY <2>1, HoldsKept, Zenon DEF SameTask
  <2>. QED
    BY <2>1, <2>2, Zenon
<1>6. Connecting(u)' <=> Connecting(u)
  BY <1>1, Zenon DEF Connecting
<1>. QED
  BY <1>1, <1>2, <1>3, <1>4, <1>5, <1>6 DEF TaskOK

\* A task whose operation is over.
LEMMA TaskOver ==
    ASSUME NEW t \in NetTasks, op'[t] = NoOp, \A f \in Fds : \A d \in Dirs : <<d, t>> \notin newest'[f]
    PROVE  TaskOK(t)'
  BY SMTT(60) DEF TaskOK, NoOp, Connecting, Direction

\* Tokens are handed out once: only n may get a new one.
TokensStep(n) ==
    \A f \in Fds : \/ socks'[f].token \in {0, socks[f].token}
                   \/ f = n /\ socks'[f].token = next_tok /\ next_tok < next_tok'

SocketsOK ==
    \A f \in Fds : /\ socks[f].kind \in Kinds => socks[f].token # 0
                   /\ socks[f].conn # "none" <=> socks[f].kind = "connecting"
                   /\ socks[f].conn = "pending" => ready[f] = {}

\* What is registered was so before, or is registered under its socket's token.
RegistrationsStep ==
    \A th \in Threads : \A g \in DOMAIN reactors'[th].reg :
        /\ g \in Fds /\ socks'[g].kind # "free"
        /\ \/ /\ g \in DOMAIN reactors[th].reg
              /\ reactors'[th].reg[g].token = reactors[th].reg[g].token
           \/ /\ reactors'[th].reg[g].token = socks'[g].token
              /\ socks'[g].token # 0

\* An IoSource is dropped after its fd was closed.
DroppingStep ==
    \A th \in Threads : \A p \in dropping'[th] :
        /\ p[1] \notin DOMAIN reactors'[th].reg
        /\ \/ p \in dropping[th]
           \/ p[2] # 0 /\ p[2] < next_tok /\ \A f \in Fds : socks'[f].token # p[2]

LEMMA SocksStep ==
    ASSUME NetSocks, NetTypes', next_tok <= next_tok', NEW n, TokensStep(n), SocketsOK',
           RegistrationsStep, DroppingStep
    PROVE  NetSocks'
<1>. USE DEF TokensStep, SocketsOK, RegistrationsStep, DroppingStep
<1>. USE DEF NetSocks
<1>1. next_tok \in Nat /\ next_tok # 0 /\ next_tok' \in Nat
  BY Zenon DEF NetTypes
<1>2. \A f \in Fds : socks[f].token \in Nat /\ socks'[f].token \in Nat
  BY Zenon DEF NetTypes, Socks
<1>3. \A f \in Fds : socks'[f].token < next_tok'
  BY <1>1, <1>2, SMTT(60) DEF SockInv
<1>4. ASSUME NEW f \in Fds, NEW g \in Fds, socks'[f].token = socks'[g].token, socks'[f].token # 0
      PROVE  f = g
  BY <1>1, <1>2, <1>4, SMTT(60) DEF SockInv
<1>5. SockInv'
  BY <1>3, <1>4, Zenon DEF SockInv
<1>6. ASSUME NEW th \in Threads, NEW g \in DOMAIN reactors'[th].reg
      PROVE  /\ g \in Fds /\ socks'[g].kind # "free"
             /\ reactors'[th].reg[g].token # 0 /\ reactors'[th].reg[g].token < next_tok'
             /\ \A f \in Fds : socks'[f].token = reactors'[th].reg[g].token => f = g
  <2>1. CASE g \in DOMAIN reactors[th].reg /\ reactors'[th].reg[g].token = reactors[th].reg[g].token
    <3>. DEFINE k == reactors[th].reg[g].token
    <3>1. k # 0 /\ k < next_tok /\ k \in Nat /\ \A f \in Fds : socks[f].token = k => f = g
      BY <2>1, SMTT(60) DEF RegInv, NetTypes, ReactorOK, Entries
    <3>. HIDE DEF k
    <3>2. reactors'[th].reg[g].token = k
      BY <2>1, Zenon DEF k
    <3>3. k < next_tok'
      BY <1>1, <3>1, SMTT(60)
    <3>4. \A f \in Fds : socks'[f].token = k => f = g
      BY <1>1, <1>2, <3>1, SMTT(60)
    <3>. QED
      BY <3>1, <3>2, <3>3, <3>4, Zenon
  <2>2. CASE reactors'[th].reg[g].token = socks'[g].token /\ socks'[g].token # 0
    BY <1>3, <1>4, <2>2, SMTT(60)
  <2>. QED
    BY <2>1, <2>2, ZenonT(60)
<1>7. RegInv'
  BY <1>6, Zenon DEF RegInv
<1>8. ASSUME NEW th \in Threads, NEW p \in dropping'[th]
      PROVE  /\ p[1] \notin DOMAIN reactors'[th].reg
             /\ p[2] # 0 /\ p[2] < next_tok'
             /\ \A f \in Fds : socks'[f].token # p[2]
  <2>1. p[2] \in Nat
    BY DEF NetTypes
  <2>2. p[2] # 0 /\ p[2] < next_tok /\ \A f \in Fds : socks'[f].token # p[2]
    <3>1. CASE p \in dropping[th]
      <4>1. p[2] # 0 /\ p[2] < next_tok /\ \A f \in Fds : socks[f].token # p[2]
        BY <3>1, Zenon DEF DropInv
      <4>. QED
        BY <1>1, <1>2, <2>1, <4>1, SMTT(60)
    <3>2. CASE p[2] # 0 /\ p[2] < next_tok /\ \A f \in Fds : socks'[f].token # p[2]
      BY <3>2, Zenon
    <3>. QED
      BY <3>1, <3>2, Zenon
  <2>. QED
    BY <1>1, <2>1, <2>2
<1>9. DropInv'
  BY <1>8, Zenon DEF DropInv
<1>. QED
  BY <1>5, <1>7, <1>9, Zenon

\* No reactor changes other than in fd g and in the wakers of token k.
Touch(g, k) ==
    /\ reactors' = [th \in Threads |-> reactors'[th]]
    /\ \A th \in Threads : /\ OnlyFd(reactors[th], reactors'[th], g)
                           /\ OtherWakers(reactors[th], reactors'[th], k)

LEMMA TouchOne ==
    ASSUME NetTypes, NEW th \in Threads, NEW x, NEW g, NEW k,
           reactors' = [reactors EXCEPT ![th] = x],
           OnlyFd(reactors[th], x, g), OtherWakers(reactors[th], x, k)
    PROVE  Touch(g, k) /\ \A s \in Threads : reactors'[s] = IF s = th THEN x ELSE reactors[s]
<1>1. \A s \in Threads : reactors'[s] = IF s = th THEN x ELSE reactors[s]
  BY Zenon DEF NetTypes
<1>2. reactors' = [s \in Threads |-> reactors'[s]]
  BY Zenon DEF NetTypes
<1>3. \A s \in Threads : OnlyFd(reactors[s], reactors[s], g) /\ OtherWakers(reactors[s], reactors[s], k)
  BY Zenon DEF NetTypes, OnlyFd, OtherWakers
<1>. QED
  BY <1>1, <1>2, <1>3, Zenon DEF Touch

LEMMA TouchKept ==
    ASSUME NEW g, NEW k, Touch(g, k), NEW f, f # g, socks[f].token # k,
           socks'[f] = socks[f], ready'[f] \subseteq ready[f]
    PROVE  SocketKept(f)
<1>1. \A th \in Threads : Kept(reactors[th], reactors'[th], f, socks[f].token)
  BY OthersKept, Zenon DEF Touch
<1>. QED
  BY <1>1, Zenon DEF SocketKept

LEMMA Untouched ==
    ASSUME reactors' = reactors, NEW f, socks'[f] = socks[f], ready'[f] \subseteq ready[f]
    PROVE  SocketKept(f)
  BY Zenon DEF SocketKept, Kept

\* The end of an operation.
LEMMA Finishes ==
    ASSUME TaskTypes, \A u \in NetTasks : TaskOK(u), NEW t \in NetTasks, Finished(t)
    PROVE  TaskTypes' /\ TaskOK(t)' /\ \A u \in NetTasks \ {t} : SameTask(u)
<1>1. op'[t] = NoOp /\ \A u \in NetTasks \ {t} : op'[u] = op[u]
  BY Zenon DEF Finished, TaskTypes
<1>2. \A f \in Fds : \A d \in Dirs : <<d, t>> \notin newest'[f]
  BY Zenon DEF Finished
<1>3. TaskOK(t)'
  BY <1>1, <1>2, TaskOver, Zenon
<1>4. \A f \in Fds : newest'[f] \subseteq newest[f]
  BY Zenon DEF Finished
<1>5. newest' \in [Fds -> SUBSET (Dirs \X NetTasks)]
  BY Zenon DEF Finished, TaskTypes
<1>6. op' = [u \in NetTasks |-> op'[u]]
  BY Zenon DEF Finished, TaskTypes
<1>7. \A u \in NetTasks : op'[u].k \in {"none", "connect"} \cup DOMAIN Direction
                          /\ op'[u] = [k |-> op'[u].k, fd |-> op'[u].fd]
  BY <1>1 DEF TaskTypes, NoOp
<1>8. ASSUME NEW u \in NetTasks \ {t}
      PROVE  SameTask(u)
  <2>1. ASSUME Connecting(u), NEW v \in NetTasks, op'[v].fd = op[u].fd
        PROVE  v = u
    <3>1. v # t
      BY <1>1, <2>1 DEF NoOp, Connecting
    <3>. QED
      BY <1>1, <2>1, <3>1 DEF TaskOK
  <2>2. u \in due => u \in due'
    BY Zenon DEF Finished
  <2>. QED
    BY <1>1, <1>4, <2>1, <2>2, Zenon DEF SameTask
<1>. QED
  BY <1>3, <1>5, <1>6, <1>7, <1>8, Zenon DEF TaskTypes

-----------------------------------------------------------------------------
(* Steps of tasks that leave sockets and reactors alone.                      *)

LEMMA SameSocks ==
    ASSUME NetSocks, UNCHANGED <<backend, reactors, ready, socks, next_tok, dropping>>
    PROVE  NetSocks' /\ \A f : SocketKept(f)
<1>1. NetTypes' /\ SockInv' /\ RegInv' /\ DropInv'
  BY SMTT(60) DEF NetSocks, NetTypes, SockInv, RegInv, DropInv
<1>2. \A f : SocketKept(f)
  BY Zenon DEF SocketKept, Kept
<1>. QED
  BY <1>1, <1>2, Zenon DEF NetSocks

LEMMA StartStep ==
    ASSUME NetIInv, NEW t \in NetTasks, NEW k \in DOMAIN Direction, start(t, k)
    PROVE  NetIInv'
<1>. USE DEF NetIInv
<1>1. NetSocks' /\ \A f : SocketKept(f)
  BY SameSocks, Zenon DEF start
<1>2. PICK g \in Fds : socks[g].kind = Uses[k] /\ op' = [op EXCEPT ![t] = [k |-> k, fd |-> g]]
  BY Zenon DEF start
<1>3. op[t] = NoOp /\ UNCHANGED <<backend, socks, newest>> /\ due' = due \cup {t}
  BY Zenon DEF start
<1>4. op'[t] = [k |-> k, fd |-> g] /\ \A u \in NetTasks \ {t} : op'[u] = op[u]
  BY <1>2, Zenon DEF TaskTypes
<1>5. TaskTypes'
  <2>1. op' = [u \in NetTasks |-> op'[u]]
    BY <1>2, Zenon DEF TaskTypes
  <2>. QED
    BY <1>3, <1>4, <2>1 DEF TaskTypes
<1>6. Uses[k] # "connecting" /\ k # "none" /\ k # "connect"
  BY SMTT(60) DEF Uses, Direction
<1>7. TaskOK(t)'
  <2>1. \A f \in Fds : \A d \in Dirs : <<d, t>> \notin newest'[f]
    BY <1>3 DEF TaskOK, NoOp, Direction
  <2>. QED
    BY <1>2, <1>3, <1>4, <1>6, <2>1, SMTT(60) DEF TaskOK, Connecting
<1>8. ASSUME NEW u \in NetTasks \ {t}
      PROVE  TaskOK(u)'
  <2>1. ASSUME Connecting(u), NEW v \in NetTasks, op'[v].fd = op[u].fd
        PROVE  v = u
    <3>1. op[u].fd # g
      BY <1>2, <1>6, <2>1, Zenon DEF TaskOK
    <3>. QED
      BY <1>4, <2>1, <3>1, SMTT(60) DEF TaskOK
  <2>2. SameTask(u)
    BY <1>3, <1>4, <2>1, Zenon DEF SameTask
  <2>. QED
    BY <1>1, <1>3, <2>2, TaskKept, ZenonT(60)
<1>. QED
  BY <1>1, <1>5, <1>7, <1>8, Zenon

LEMMA ConnectStep ==
    ASSUME NetIInv, NEW t \in NetTasks, connect(t)
    PROVE  NetIInv'
<1>. USE DEF NetIInv
<1>1. NetSocks' /\ \A f : SocketKept(f)
  BY SameSocks, Zenon DEF connect
<1>2. op[t] = NoOp /\ UNCHANGED <<backend, socks, newest>> /\ due' = due \cup {t}
  BY Zenon DEF connect
<1>3. op'[t] = [k |-> "connect", fd |-> 0] /\ \A u \in NetTasks \ {t} : op'[u] = op[u]
  BY Zenon DEF TaskTypes, connect
<1>4. TaskTypes'
  <2>1. op' = [u \in NetTasks |-> op'[u]]
    BY ZenonT(60) DEF TaskTypes, connect
  <2>. QED
    BY <1>2, <1>3, <2>1 DEF TaskTypes
<1>5. TaskOK(t)'
  <2>1. \A f \in Fds : \A d \in Dirs : <<d, t>> \notin newest'[f]
    BY <1>2 DEF TaskOK, NoOp, Direction
  <2>. QED
    BY <1>3, <2>1, SMTT(60) DEF TaskOK, Connecting, Direction
<1>6. ASSUME NEW u \in NetTasks \ {t}
      PROVE  TaskOK(u)'
  <2>1. SameTask(u)
    BY <1>2, <1>3 DEF SameTask, TaskOK, Connecting
  <2>. QED
    BY <1>1, <1>2, <2>1, TaskKept, ZenonT(60)
<1>. QED
  BY <1>1, <1>4, <1>5, <1>6, Zenon

LEMMA WakeStep ==
    ASSUME NetIInv, NEW t \in NetTasks, wake_other(t)
    PROVE  NetIInv'
<1>. USE DEF NetIInv
<1>1. NetSocks' /\ \A f : SocketKept(f)
  BY SameSocks, Zenon DEF wake_other
<1>2. UNCHANGED <<backend, op, newest>> /\ due' = due \cup {t}
  BY Zenon DEF wake_other
<1>3. TaskTypes'
  BY <1>2, Zenon DEF TaskTypes
<1>4. \A u \in NetTasks : SameTask(u)
  BY <1>2, Zenon DEF SameTask, TaskOK, Connecting
<1>. QED
  BY <1>1, <1>2, <1>3, <1>4, TaskKept, Zenon

LEMMA DropOpStep ==
    ASSUME NetIInv, NEW t \in NetTasks, NEW th, drop_op(t, th)
    PROVE  NetIInv'
<1>. USE DEF NetIInv
<1>1. NetSocks' /\ \A f : SocketKept(f)
  BY SameSocks, Zenon DEF drop_op
<1>2. TaskTypes' /\ TaskOK(t)' /\ \A u \in NetTasks \ {t} : SameTask(u)
  BY Finishes, Zenon DEF drop_op
<1>3. backend' = backend
  BY Zenon DEF drop_op
<1>. QED
  BY <1>1, <1>2, <1>3, TaskKept, Zenon

-----------------------------------------------------------------------------
(* Steps that open or close the socket of one fd.                             *)

\* s is the new socket of g, which gets a new token if it is open.
LEMMA OneSocket ==
    ASSUME NetSocks, NEW g \in Fds, NEW k, Touch(g, k), \A f \in Fds \ {g} : socks[f].token # k,
           NEW s \in Socks, socks' = [socks EXCEPT ![g] = s],
           s.conn # "none" <=> s.kind = "connecting", s.conn = "pending" => ready'[g] = {},
           \/ s.token = 0 /\ s.kind \notin Kinds /\ next_tok' = next_tok
           \/ s.token = next_tok /\ next_tok' = next_tok + 1,
           backend' = backend,
           ready' \in [Fds -> SUBSET Dirs], \A f \in Fds \ {g} : ready'[f] \subseteq ready[f],
           \A th \in Threads : g \in DOMAIN reactors'[th].reg =>
               /\ s.kind # "free"
               /\ \/ /\ g \in DOMAIN reactors[th].reg
                     /\ reactors'[th].reg[g].token = reactors[th].reg[g].token
                  \/ /\ reactors'[th].reg[g].token = s.token /\ s.token # 0
                     /\ dropping'[th] = {},
           dropping' \in [Threads -> SUBSET (Fds \X Nat)],
           \A th \in Threads : \A p \in dropping'[th] :
               \/ p \in dropping[th]
               \/ p = <<g, socks[g].token>> /\ socks[g].token # 0 /\ g \notin DOMAIN reactors'[th].reg
    PROVE  NetSocks' /\ \A f \in Fds \ {g} : SocketKept(f)
<1>1. socks'[g] = s /\ \A f \in Fds \ {g} : socks'[f] = socks[f]
  BY Zenon DEF NetSocks, NetTypes
<1>2. next_tok \in Nat /\ next_tok # 0 /\ next_tok <= next_tok' /\ next_tok' \in Nat \ {0}
  BY SMTT(60) DEF NetSocks, NetTypes
<1>3. NetTypes'
  <2>1. \A th \in Threads : ReactorOK(reactors'[th])
    BY Zenon DEF Touch, OnlyFd
  <2>2. socks' \in [Fds -> Socks]
    BY Zenon DEF NetSocks, NetTypes
  <2>3. reactors' = [th \in Threads |-> reactors'[th]]
    BY Zenon DEF Touch
  <2>. QED
    BY <1>2, <2>1, <2>2, <2>3, Zenon DEF NetSocks, NetTypes
<1>4. TokensStep(g)
  BY <1>1, <1>2, SMTT(60) DEF TokensStep
<1>5. SocketsOK'
  BY <1>1, <1>2, SMTT(60) DEF NetSocks, SockInv, SocketsOK
<1>6. ASSUME NEW th \in Threads, NEW f \in DOMAIN reactors'[th].reg
      PROVE  /\ f \in Fds /\ socks'[f].kind # "free"
             /\ \/ /\ f \in DOMAIN reactors[th].reg
                   /\ reactors'[th].reg[f].token = reactors[th].reg[f].token
                \/ /\ reactors'[th].reg[f].token = socks'[f].token
                   /\ socks'[f].token # 0
  <2>1. CASE f = g
    BY <1>1, <2>1, SMTT(60)
  <2>2. CASE f # g
    <3>1. f \in DOMAIN reactors[th].reg /\ reactors'[th].reg[f] = reactors[th].reg[f]
      BY <1>6, <2>2, SMTT(60) DEF Touch, OnlyFd
    <3>2. f \in Fds /\ socks[f].kind # "free"
      BY <3>1, Zenon DEF NetSocks, RegInv
    <3>. QED
      BY <1>1, <2>2, <3>1, <3>2, ZenonT(60)
  <2>. QED
    BY <2>1, <2>2, Zenon
<1>7. ASSUME NEW th \in Threads, NEW p \in dropping'[th]
      PROVE  /\ p[1] \notin DOMAIN reactors'[th].reg
             /\ \/ p \in dropping[th]
                \/ p[2] # 0 /\ p[2] < next_tok /\ \A f \in Fds : socks'[f].token # p[2]
  <2>1. CASE p \in dropping[th]
    <3>1. p[1] \notin DOMAIN reactors[th].reg
      BY <2>1, Zenon DEF NetSocks, DropInv
    <3>2. DOMAIN reactors'[th].reg \subseteq DOMAIN reactors[th].reg \cup {g}
      BY Zenon DEF Touch, OnlyFd
    <3>. QED
      BY <1>7, <2>1, <3>1, <3>2, Zenon
  <2>2. CASE p = <<g, socks[g].token>> /\ socks[g].token # 0 /\ g \notin DOMAIN reactors'[th].reg
    <3>1. p[1] = g /\ p[2] = socks[g].token
      BY <2>2, Zenon
    <3>2. socks[g].token < next_tok /\ socks[g].token \in Nat
      BY ZenonT(60) DEF NetSocks, NetTypes, SockInv, Socks
    <3>3. \A f \in Fds : socks'[f].token # socks[g].token
      BY <1>1, <1>2, <2>2, <3>2, SMTT(60) DEF NetSocks, SockInv
    <3>. QED
      BY <2>2, <3>1, <3>2, <3>3, Zenon
  <2>. QED
    BY <1>7, <2>1, <2>2, Zenon
<1>8. NetSocks'
  <2>1. RegistrationsStep
    BY <1>6, Zenon DEF RegistrationsStep
  <2>2. DroppingStep
    BY <1>7, Zenon DEF DroppingStep
  <2>. QED
    BY <1>2, <1>3, <1>4, <1>5, <2>1, <2>2, SocksStep, Zenon
<1>9. ASSUME NEW f \in Fds \ {g} PROVE SocketKept(f)
  BY <1>1, TouchKept, ZenonT(60)
<1>. QED
  BY <1>8, <1>9, Zenon

LEMMA NewRegistration ==
    ASSUME NetSocks, NEW th \in Threads, NEW n \in Free, NEW kind \in Kinds
    PROVE  LET x == new_registration(th, n, kind)
           IN  /\ OnlyFd(reactors[th], x, n) /\ SameWakers(reactors[th], x)
               /\ n \in DOMAIN x.reg
               /\ x.reg[n] = [token |-> next_tok, mask |-> FirstInterest[kind],
                              active |-> FirstInterest[kind] \cap Fresh[kind]]
<1>. DEFINE rdy == [ready EXCEPT ![n] = Fresh[kind]]
<1>1. n \in Fds /\ socks[n].kind = "free"
  BY Zenon DEF Free
<1>2. rdy[n] = Fresh[kind]
  BY <1>1, Zenon DEF NetSocks, NetTypes
<1>3. n \notin DOMAIN reactors[th].reg
  BY <1>1, Zenon DEF NetSocks, RegInv
<1>4. FirstInterest[kind] \in (SUBSET Dirs) \ {{}}
  BY DEF Kinds, FirstInterest, Dirs, READABLE, WRITABLE
<1>5. backend \in Backends /\ ReactorOK(reactors[th]) /\ next_tok \in Nat
  BY ZenonT(60) DEF NetSocks, NetTypes
<1>. HIDE DEF rdy
<1>6. LET x == register(backend, reactors[th], n, next_tok, FirstInterest[kind], rdy).r
      IN  /\ OnlyFd(reactors[th], x, n) /\ SameWakers(reactors[th], x)
          /\ n \in DOMAIN x.reg
          /\ x.reg[n] = [token |-> next_tok, mask |-> FirstInterest[kind],
                         active |-> FirstInterest[kind] \cap rdy[n]]
  BY <1>3, <1>4, <1>5, RegisterNew, SMTT(60)
<1>. QED
  BY <1>2, <1>6, Zenon DEF rdy, new_registration

\* The kernel leaves no more ready than it was.
LessReady(rdy) == rdy \in [Fds -> SUBSET Dirs] /\ \A f \in Fds : rdy[f] \subseteq ready[f]

\* x is the new reactor of thread th.
Replaces(th, x) == reactors' = [reactors EXCEPT ![th] = x]

LEMMA Opens ==
    ASSUME NetSocks, NEW th \in Threads, Running(th), NEW n \in Free, NEW kind \in Kinds,
           NEW rdy, LessReady(rdy), new_source(n, kind, rdy), UNCHANGED <<backend, dropping>>,
           NEW x, Replaces(th, x), OnlyFd(reactors[th], x, n),
           OtherWakers(reactors[th], x, next_tok), x.reg[n].token = next_tok
    PROVE  /\ NetSocks' /\ \A f \in Fds \ {n} : SocketKept(f)
           /\ socks'[n].token = next_tok /\ socks'[n].kind = kind
           /\ ready'[n] = Fresh[kind] /\ reactors'[th] = x
<1>. DEFINE s == [kind |-> kind, token |-> next_tok,
                  conn |-> IF kind = "connecting" THEN "pending" ELSE "none"]
<1>1. NetTypes /\ n \in Fds /\ socks[n].kind = "free"
  BY Zenon DEF NetSocks, Free
<1>2. s \in Socks
  BY <1>1, Zenon DEF Socks, NetTypes
<1>3. s.token = next_tok /\ s.kind = kind /\ (s.conn # "none" <=> s.kind = "connecting")
  BY Zenon
<1>4. socks' = [socks EXCEPT ![n] = s] /\ next_tok' = next_tok + 1
  BY Zenon DEF new_source, next_token
<1>. HIDE DEF s
<1>5. Touch(n, next_tok) /\ \A q \in Threads : reactors'[q] = IF q = th THEN x ELSE reactors[q]
  BY <1>1, TouchOne, ZenonT(60) DEF Replaces
<1>6. ready'[n] = Fresh[kind] /\ (\A f \in Fds \ {n} : ready'[f] \subseteq ready[f])
      /\ ready' \in [Fds -> SUBSET Dirs]
  <2>1. ready' = [rdy EXCEPT ![n] = Fresh[kind]]
    BY <1>1, Zenon DEF new_source
  <2>2. Fresh[kind] \in SUBSET Dirs
    BY SMTT(60) DEF Fresh, Kinds, Dirs, READABLE, WRITABLE
  <2>. QED
    BY <1>1, <2>1, <2>2, Zenon DEF LessReady
<1>7. s.conn = "pending" => ready'[n] = {}
  BY <1>3, <1>6, SMTT(60) DEF Fresh
<1>8. \A f \in Fds \ {n} : socks[f].token # next_tok
  BY <1>1 DEF NetSocks, NetTypes, SockInv, Socks
<1>9. dropping'[th] = {} /\ next_tok # 0 /\ dropping' \in [Threads -> SUBSET (Fds \X Nat)]
  BY <1>1, Zenon DEF Running, NetTypes
<1>10. \A q \in Threads : n \in DOMAIN reactors'[q].reg =>
           /\ s.kind # "free"
           /\ \/ /\ n \in DOMAIN reactors[q].reg
                 /\ reactors'[q].reg[n].token = reactors[q].reg[n].token
              \/ /\ reactors'[q].reg[n].token = s.token /\ s.token # 0
                 /\ dropping'[q] = {}
  BY <1>3, <1>5, <1>9, Zenon DEF Kinds
<1>11. NetSocks' /\ \A f \in Fds \ {n} : SocketKept(f)
  BY <1>1, <1>2, <1>3, <1>4, <1>5, <1>6, <1>7, <1>8, <1>9, <1>10, OneSocket, ZenonT(60)
<1>12. socks'[n] = s
  BY <1>1, <1>4, Zenon DEF NetTypes
<1>. QED
  BY <1>3, <1>5, <1>6, <1>11, <1>12, Zenon

\* IoSource::new registers the fd that socket or accept returned.
LEMMA OpensNew ==
    ASSUME NetSocks, NEW th \in Threads, Running(th), NEW n \in Free, NEW kind \in Kinds,
           NEW rdy, LessReady(rdy), new_source(n, kind, rdy), UNCHANGED <<backend, dropping>>,
           reactors' = [reactors EXCEPT ![th] = new_registration(th, n, kind)]
    PROVE  NetSocks' /\ \A f \in Fds \ {n} : SocketKept(f)
<1>. DEFINE x == new_registration(th, n, kind)
<1>1. /\ OnlyFd(reactors[th], x, n) /\ SameWakers(reactors[th], x)
      /\ x.reg[n] = [token |-> next_tok, mask |-> FirstInterest[kind],
                     active |-> FirstInterest[kind] \cap Fresh[kind]]
  BY NewRegistration, ZenonT(60)
<1>. HIDE DEF x
<1>2. x.reg[n].token = next_tok
  BY <1>1, SMTT(60)
<1>3. OtherWakers(reactors[th], x, next_tok)
  BY <1>1, SameOthers, Zenon
<1>4. Replaces(th, x)
  BY Zenon DEF x, Replaces
<1>. QED
  BY <1>1, <1>2, <1>3, <1>4, Opens, Zenon

LEMMA Leaks ==
    ASSUME NetSocks, NEW n \in Free, leak(n), LessReady(ready'),
           UNCHANGED <<backend, reactors, next_tok, dropping>>
    PROVE  NetSocks' /\ \A f \in Fds \ {n} : SocketKept(f)
<1>. DEFINE s == [NoSock EXCEPT !.kind = "leaked"]
<1>1. s \in Socks /\ s.token = 0 /\ s.kind = "leaked" /\ s.conn = "none" /\ s.kind \notin Kinds
  BY Zenon DEF NoSock, Socks, Kinds
<1>2. socks' = [socks EXCEPT ![n] = s]
  BY Zenon DEF leak
<1>. HIDE DEF s
<1>3. NetTypes /\ n \in Fds /\ socks[n].kind = "free"
  BY Zenon DEF NetSocks, Free
<1>4. Touch(n, next_tok)
  BY <1>3, Zenon DEF NetTypes, Touch, OnlyFd, OtherWakers
<1>5. \A f \in Fds \ {n} : socks[f].token # next_tok
  BY <1>3, SMTT(60) DEF NetSocks, NetTypes, SockInv, Socks
<1>6. \A th \in Threads : n \notin DOMAIN reactors'[th].reg
  BY <1>3, Zenon DEF NetSocks, RegInv
<1>7. ready' \in [Fds -> SUBSET Dirs] /\ (\A f \in Fds \ {n} : ready'[f] \subseteq ready[f])
      /\ dropping' \in [Threads -> SUBSET (Fds \X Nat)]
  BY <1>3, Zenon DEF NetTypes, LessReady
<1>. QED
  BY <1>1, <1>2, <1>3, <1>4, <1>5, <1>6, <1>7, OneSocket, ZenonT(60)

\* No task has an operation on a free fd.
LEMMA NotFree ==
    ASSUME NetIInv, NEW u \in NetTasks, op[u].fd \in Fds
    PROVE  op[u].fd \notin Free
<1>1. TaskOK(u) /\ op[u].k \in {"none", "connect"} \cup DOMAIN Direction /\ op[u].fd # 0
  BY NetAssumption, Zenon DEF NetIInv, TaskTypes
<1>2. CASE op[u].k \in DOMAIN Direction
  <2>1. Uses[op[u].k] # "free"
    BY <1>2, SMTT(60) DEF Direction, Uses
  <2>. QED
    BY <1>1, <1>2, <2>1, Zenon DEF TaskOK, Free
<1>3. CASE op[u].k = "connect"
  BY <1>1, <1>3, Zenon DEF TaskOK, Free, Connecting
<1>. QED
  BY <1>1, <1>2, <1>3, Zenon DEF TaskOK

LEMMA BindStep ==
    ASSUME NetIInv, NEW th \in Threads, NEW kind \in Kinds, bind(th, kind)
    PROVE  NetIInv'
<1>0. NetSocks /\ TaskTypes /\ \A u \in NetTasks : TaskOK(u)
  BY Zenon DEF NetIInv
<1>1. Running(th) /\ UNCHANGED <<backend, op, due, dropping, newest>>
  BY Zenon DEF bind
<1>2. PICK n \in Free : NetSocks' /\ \A f \in Fds \ {n} : SocketKept(f)
  <2>1. PICK n \in Free : \/ /\ new_source(n, kind, ready)
                             /\ reactors' = [reactors EXCEPT ![th] = new_registration(th, n, kind)]
                          \/ leak(n) /\ UNCHANGED <<reactors, ready, next_tok>>
    BY Zenon DEF bind, Lowest
  <2>2. LessReady(ready)
    BY <1>0, Zenon DEF LessReady, NetSocks, NetTypes
  <2>. QED
    BY <1>0, <1>1, <2>1, <2>2, OpensNew, Leaks, Zenon
<1>3. TaskTypes'
  BY <1>0, <1>1, Zenon DEF TaskTypes
<1>4. \A u \in NetTasks : SameTask(u)
  BY <1>0, <1>1, Zenon DEF SameTask, TaskOK, Connecting
<1>5. \A u \in NetTasks : op[u].fd \in Fds => SocketKept(op[u].fd)
  BY <1>2, NotFree, Zenon
<1>. QED
  BY <1>0, <1>1, <1>2, <1>3, <1>4, <1>5, TaskKept, Zenon DEF NetIInv

\* The socket of g is gone from every reactor.
LEMMA Closes ==
    ASSUME NetSocks, NEW g \in Fds, NEW k, Touch(g, k), \A f \in Fds \ {g} : socks[f].token # k,
           \A th \in Threads : g \notin DOMAIN reactors'[th].reg,
           socks' = [socks EXCEPT ![g] = NoSock], ready' = [ready EXCEPT ![g] = {}],
           UNCHANGED <<backend, next_tok>>, dropping' \in [Threads -> SUBSET (Fds \X Nat)],
           \A th \in Threads : \A p \in dropping'[th] :
               \/ p \in dropping[th]
               \/ p = <<g, socks[g].token>> /\ socks[g].token # 0
    PROVE  NetSocks' /\ \A f \in Fds \ {g} : SocketKept(f)
<1>1. NoSock \in Socks /\ NoSock.token = 0 /\ NoSock.kind \notin Kinds
      /\ NoSock.conn = "none" /\ NoSock.kind = "free"
  BY Zenon DEF NoSock, Socks, Kinds
<1>2. ready' \in [Fds -> SUBSET Dirs] /\ \A f \in Fds \ {g} : ready'[f] = ready[f]
  BY Zenon DEF NetSocks, NetTypes
<1>. QED
  BY <1>1, <1>2, OneSocket, ZenonT(60)

LEMMA DropSocketStep ==
    ASSUME NetIInv, NEW th \in Threads, NEW g \in Fds, NEW kind \in Kinds, drop_socket(th, g, kind)
    PROVE  NetIInv'
<1>0. NetSocks /\ NetTypes /\ TaskTypes /\ \A u \in NetTasks : TaskOK(u)
  BY Zenon DEF NetIInv, NetSocks
<1>1. /\ socks[g].kind = kind /\ UNCHANGED <<backend, op, due, next_tok>>
      /\ \A u \in NetTasks : op[u].fd # g
      /\ dropping' = [dropping EXCEPT ![th] = {<<g, socks[g].token>>}]
  BY Zenon DEF drop_socket
<1>2. reactors' = [r \in Threads |-> closed(reactors[r], g)]
  BY Zenon DEF drop_socket
<1>3. \A r \in Threads : /\ reactors'[r] = closed(reactors[r], g)
                         /\ OnlyFd(reactors[r], reactors'[r], g)
                         /\ SameWakers(reactors[r], reactors'[r])
                         /\ g \notin DOMAIN reactors'[r].reg
  BY <1>0, <1>2, Close, Zenon DEF NetTypes
<1>4. reactors' = [r \in Threads |-> reactors'[r]]
  BY <1>2, Zenon
<1>5. Touch(g, next_tok)
  BY <1>3, <1>4, SameOthers, Zenon DEF Touch
<1>6. \A f \in Fds \ {g} : socks[f].token # next_tok
  BY <1>0, SMTT(60) DEF NetSocks, NetTypes, SockInv, Socks
<1>7. socks[g].token # 0 /\ socks[g].token \in Nat
  BY <1>0, <1>1, Zenon DEF NetSocks, NetTypes, SockInv, Socks
<1>8. /\ dropping' \in [Threads -> SUBSET (Fds \X Nat)]
      /\ \A r \in Threads : \A p \in dropping'[r] :
            p \in dropping[r] \/ (p = <<g, socks[g].token>> /\ socks[g].token # 0)
  BY <1>0, <1>1, <1>7, SMTT(60) DEF NetTypes
<1>9. NetSocks' /\ \A f \in Fds \ {g} : SocketKept(f)
  <2>1. socks' = [socks EXCEPT ![g] = NoSock] /\ ready' = [ready EXCEPT ![g] = {}]
    BY Zenon DEF drop_socket
  <2>. QED
    BY <1>0, <1>1, <1>3, <1>5, <1>6, <1>8, <2>1, Closes, ZenonT(60)
<1>10. /\ newest' \in [Fds -> SUBSET (Dirs \X NetTasks)]
       /\ \A f \in Fds : newest'[f] \subseteq newest[f]
  BY <1>0, Zenon DEF drop_socket, TaskTypes
<1>11. TaskTypes'
  BY <1>0, <1>1, <1>10, Zenon DEF TaskTypes
<1>12. \A u \in NetTasks : SameTask(u)
  BY <1>0, <1>1, <1>10, Zenon DEF SameTask, TaskOK, Connecting
<1>. QED
  BY <1>0, <1>1, <1>9, <1>11, <1>12, TaskKept, Zenon DEF NetIInv

\* IoSource::drop, late: its fd may have been reused by now, its token cannot.
LEMMA DropSourceStep ==
    ASSUME NetIInv, NEW th \in Threads, drop_source(th)
    PROVE  NetIInv'
<1>0. NetSocks /\ NetTypes /\ TaskTypes /\ \A u \in NetTasks : TaskOK(u)
  BY Zenon DEF NetIInv, NetSocks
<1>1. UNCHANGED <<backend, ready, socks, op, due, next_tok, newest>> /\ dropping' = [dropping EXCEPT ![th] = {}]
  BY Zenon DEF drop_source
<1>2. PICK p \in dropping[th] :
        reactors' = [reactors EXCEPT ![th] = deregister_with_token(backend, reactors[th], p[1], p[2])]
  BY Zenon DEF drop_source
<1>. DEFINE x == deregister_with_token(backend, reactors[th], p[1], p[2])
<1>3. OnlyFd(reactors[th], x, p[1]) /\ OtherWakers(reactors[th], x, p[2]) /\ p[1] \notin DOMAIN x.reg
  BY <1>0, Deregister, Zenon DEF NetTypes
<1>. HIDE DEF x
<1>4. /\ Touch(p[1], p[2])
      /\ \A s \in Threads : reactors'[s] = IF s = th THEN x ELSE reactors[s]
  <2>1. reactors' = [reactors EXCEPT ![th] = x]
    BY <1>2, Zenon DEF x
  <2>. QED
    BY <1>0, <1>3, <2>1, TouchOne, Zenon
<1>5. p[1] \notin DOMAIN reactors[th].reg /\ \A f \in Fds : socks[f].token # p[2]
  BY <1>0, Zenon DEF NetSocks, DropInv
<1>6. \A f \in Fds : SocketKept(f)
  <2>1. ASSUME NEW f \in Fds, f = p[1]
        PROVE  \A s \in Threads : Kept(reactors[s], reactors'[s], f, socks[f].token)
    BY <1>4, <1>5, <2>1, Zenon DEF Kept
  <2>2. ASSUME NEW f \in Fds, f # p[1]
        PROVE  SocketKept(f)
    BY <1>1, <1>4, <1>5, <2>2, TouchKept, ZenonT(60)
  <2>. QED
    BY <1>1, <2>1, <2>2, Zenon DEF SocketKept
<1>7. \A s \in Threads : \A g \in DOMAIN reactors'[s].reg :
          g \in DOMAIN reactors[s].reg /\ reactors'[s].reg[g] = reactors[s].reg[g]
  BY <1>3, <1>4, <1>5 DEF OnlyFd
<1>8. NetSocks'
  <2>1. NetTypes'
    <3>1. dropping' \in [Threads -> SUBSET (Fds \X Nat)]
      BY <1>0, <1>1, Zenon DEF NetTypes
    <3>. QED
      BY <1>0, <1>1, <1>4, <3>1, Zenon DEF NetTypes, Touch, OnlyFd
  <2>2. SockInv'
    BY <1>0, <1>1, ZenonT(60) DEF NetSocks, SockInv
  <2>3. RegInv'
    BY <1>0, <1>1, <1>7 DEF NetSocks, RegInv
  <2>4. \A s \in Threads : dropping'[s] \subseteq dropping[s]
    BY <1>0, <1>1, Zenon DEF NetTypes
  <2>5. DropInv'
    BY <1>0, <1>1, <1>7, <2>4, Zenon DEF NetSocks, DropInv
  <2>. QED
    BY <2>1, <2>2, <2>3, <2>5, Zenon DEF NetSocks
<1>9. TaskTypes' /\ \A u \in NetTasks : SameTask(u)
  BY <1>0, <1>1, Zenon DEF TaskTypes, SameTask, TaskOK, Connecting
<1>. QED
  BY <1>0, <1>1, <1>6, <1>8, <1>9, TaskKept, Zenon DEF NetIInv

-----------------------------------------------------------------------------
(* Steps that end an operation.                                               *)

\* The operation of t ends in a step that leaves the sockets of other operations alone.
LEMMA FinishStep ==
    ASSUME NetIInv, NEW t \in NetTasks, Finished(t), backend' = backend, NetSocks',
           \A u \in NetTasks \ {t} : op[u].fd \in Fds => SocketKept(op[u].fd)
    PROVE  NetIInv'
<1>1. TaskTypes' /\ TaskOK(t)' /\ \A u \in NetTasks \ {t} : SameTask(u)
  BY Finishes, Zenon DEF NetIInv
<1>2. \A u \in NetTasks \ {t} : TaskOK(u)'
  BY <1>1, TaskKept, Zenon DEF NetIInv
<1>. QED
  BY <1>1, <1>2, Zenon DEF NetIInv

LEMMA TouchTwice ==
    ASSUME NEW r, NEW r1, NEW r2, NEW g, NEW k, OnlyFd(r, r1, g), OtherWakers(r, r1, k),
           OnlyFd(r1, r2, g), OtherWakers(r1, r2, k)
    PROVE  OnlyFd(r, r2, g) /\ OtherWakers(r, r2, k)
  BY Zenon DEF OnlyFd, OtherWakers

\* The socket of a connect in progress: its token is its own.
LEMMA ConnectSocket ==
    ASSUME NetIInv, NEW t \in NetTasks, op[t].k = "connect", op[t].fd # 0
    PROVE  /\ op[t].fd \in Fds /\ socks[op[t].fd].kind = "connecting"
           /\ socks[op[t].fd].token # 0 /\ socks[op[t].fd].token \in Nat
           /\ \A f \in Fds \ {op[t].fd} : socks[f].token # socks[op[t].fd].token
           /\ \A u \in NetTasks \ {t} : op[u].fd # op[t].fd
<1>1. TaskOK(t) /\ Connecting(t) /\ NetTypes /\ SockInv
  BY Zenon DEF NetIInv, NetSocks, Connecting
<1>2. /\ op[t].fd \in Fds /\ socks[op[t].fd].kind = "connecting"
      /\ \A u \in NetTasks : op[u].fd = op[t].fd => u = t
  BY <1>1, Zenon DEF TaskOK
<1>. QED
  BY <1>1, <1>2, SMTT(60) DEF NetTypes, SockInv, Socks, Kinds

\* A ConnectFuture deregisters its fd on its thread and closes it.
LEMMA ConnectCloses ==
    ASSUME NetIInv, NEW t \in NetTasks, op[t].k = "connect", op[t].fd # 0,
           NEW g, g = op[t].fd, NEW th \in Threads,
           reactors' = [r \in Threads |-> closed(
               IF r = th THEN deregister_with_token(backend, reactors[r], g, socks[g].token)
               ELSE reactors[r], g)],
           socks' = [socks EXCEPT ![g] = NoSock], ready' = [ready EXCEPT ![g] = {}],
           UNCHANGED <<backend, next_tok, dropping>>, Finished(t)
    PROVE  NetIInv'
<1>. DEFINE k == socks[g].token
            x(r) == IF r = th THEN deregister_with_token(backend, reactors[r], g, k)
                    ELSE reactors[r]
<1>1. /\ g \in Fds /\ socks[g].kind = "connecting" /\ \A f \in Fds \ {g} : socks[f].token # k
      /\ \A u \in NetTasks \ {t} : op[u].fd # g
  BY ConnectSocket, Zenon
<1>2. NetSocks /\ NetTypes
  BY ZenonT(60) DEF NetIInv, NetSocks
<1>3. ASSUME NEW r \in Threads
      PROVE  OnlyFd(reactors[r], reactors'[r], g) /\ OtherWakers(reactors[r], reactors'[r], k)
             /\ g \notin DOMAIN reactors'[r].reg
  <2>1. OnlyFd(reactors[r], x(r), g) /\ OtherWakers(reactors[r], x(r), k)
    <3>1. CASE r = th
      BY <1>2, <3>1, Deregister, Zenon DEF NetTypes
    <3>2. CASE r # th
      BY <1>2, <3>2, Zenon DEF NetTypes, OnlyFd, OtherWakers
    <3>. QED
      BY <3>1, <3>2, Zenon
  <2>2. reactors'[r] = closed(x(r), g)
    BY Zenon
  <2>. HIDE DEF x, k
  <2>3. ReactorOK(x(r))
    BY <2>1, Zenon DEF OnlyFd
  <2>4. OnlyFd(x(r), reactors'[r], g) /\ SameWakers(x(r), reactors'[r]) /\ g \notin DOMAIN reactors'[r].reg
    BY <2>2, <2>3, Close, Zenon
  <2>5. OtherWakers(x(r), reactors'[r], k)
    BY <2>4, SameOthers, Zenon
  <2>. QED
    BY <2>1, <2>4, <2>5, TouchTwice, SMTT(60)
<1>4. reactors' = [r \in Threads |-> reactors'[r]]
  BY Zenon
<1>5. Touch(g, k)
  BY <1>3, <1>4, Zenon DEF Touch
<1>6. dropping' \in [Threads -> SUBSET (Fds \X Nat)]
  BY <1>2, Zenon DEF NetTypes
<1>. HIDE DEF k, x
<1>7. NetSocks' /\ \A f \in Fds \ {g} : SocketKept(f)
  BY <1>1, <1>2, <1>3, <1>5, <1>6, Closes, Zenon
<1>. QED
  BY <1>1, <1>7, FinishStep, Zenon

LEMMA DropConnectStep ==
    ASSUME NetIInv, NEW t \in NetTasks, NEW th \in Threads, drop_connect(t, th)
    PROVE  NetIInv'
<1>1. op[t].k = "connect" /\ Finished(t) /\ UNCHANGED <<backend, next_tok, dropping>>
  BY Zenon DEF drop_connect
<1>2. CASE op[t].fd # 0
  <2>. DEFINE g == op[t].fd
  <2>1. /\ reactors' = [r \in Threads |-> closed(
               IF r = th THEN deregister_with_token(backend, reactors[r], g, socks[g].token)
               ELSE reactors[r], g)]
        /\ socks' = [socks EXCEPT ![g] = NoSock] /\ ready' = [ready EXCEPT ![g] = {}]
    BY <1>2, Zenon DEF drop_connect
  <2>. QED
    BY <1>1, <1>2, <2>1, ConnectCloses, Zenon
<1>3. CASE op[t].fd = 0
  <2>1. NetSocks' /\ \A f : SocketKept(f)
    BY <1>1, <1>3, SameSocks, Zenon DEF drop_connect, NetIInv
  <2>. QED
    BY <1>1, <2>1, FinishStep, Zenon
<1>. QED
  BY <1>2, <1>3, Zenon

-----------------------------------------------------------------------------
(* ReadableFuture::poll and WritableFuture::poll.                             *)

\* What storing the waker and re-arming the fd does to the thread's reactor.
ArmResult(b, r, g, k, d, t, res) ==
    /\ OnlyFd(r, res.r, g) /\ OtherWakers(r, res.r, k)
    /\ res.ok => /\ Waits(b, res.r, g, d, k, t)
                 /\ \A e \in Dirs \ {d} : \A u :
                      b # "epoll" /\ Waits(b, r, g, e, k, u)
                      => /\ Waits(b, res.r, g, e, k, u)
                         /\ res.r.reg[g].active = r.reg[g].active
    /\ ~res.ok => g \notin DOMAIN r.reg /\ res.r.reg = r.reg

LEMMA ArmReactor ==
    ASSUME NEW b \in Backends, NEW r, ReactorOK(r), NEW g, NEW k \in Nat, NEW d \in Dirs, NEW rdy,
           d \notin rdy[g], NEW t
    PROVE  ArmResult(b, r, g, k, d, t, Rearmed(b, set_waker(r, d, k, t), g, k, d, rdy))
<1>. DEFINE r1 == set_waker(r, d, k, t)
            res == Rearmed(b, r1, g, k, d, rdy)
<1>1. /\ ReactorOK(r1) /\ r1.reg = r.reg /\ OtherWakers(r, r1, k)
      /\ k \in DOMAIN WakerOf(r1, d) /\ WakerOf(r1, d)[k] = t
      /\ \A e \in Dirs \ {d} : WakerOf(r1, e) = WakerOf(r, e)
  BY SetWaker, SMTT(60)
<1>. HIDE DEF r1
<1>2. /\ res.ok => /\ OnlyFd(r1, res.r, g) /\ SameWakers(r1, res.r)
                   /\ g \in DOMAIN res.r.reg
                   /\ res.r.reg[g].token = k /\ d \in res.r.reg[g].mask
                   /\ b = "epoll" => res.r.reg[g].mask = {d}
                   /\ b # "epoll" /\ g \in DOMAIN r1.reg
                        => /\ res.r.reg[g].mask = r1.reg[g].mask \cup {d}
                           /\ res.r.reg[g].active = r1.reg[g].active
      /\ ~res.ok => res.r = r1 /\ g \notin DOMAIN r1.reg
  BY <1>1, Rearm, Zenon
<1>. SUFFICES ArmResult(b, r, g, k, d, t, res)
  BY Zenon DEF r1
<1>. USE DEF ArmResult
<1>. HIDE DEF res
<1>3. CASE res.ok
  <2>1. OnlyFd(r, r1, g)
    BY <1>1, Zenon DEF OnlyFd
  <2>2. OnlyFd(r1, res.r, g) /\ OtherWakers(r1, res.r, k)
    BY <1>2, <1>3, SameOthers, Zenon
  <2>3. OnlyFd(r, res.r, g) /\ OtherWakers(r, res.r, k)
    BY <1>1, <2>1, <2>2, TouchTwice, Zenon
  <2>4. \A e : WakerOf(res.r, e) = WakerOf(r1, e)
    BY <1>2, <1>3, Zenon DEF SameWakers, WakerOf
  <2>5. Waits(b, res.r, g, d, k, t)
    BY <1>1, <1>2, <1>3, <2>4, Zenon DEF Waits
  <2>6. ASSUME NEW e \in Dirs \ {d}, NEW u, b # "epoll", Waits(b, r, g, e, k, u)
        PROVE  Waits(b, res.r, g, e, k, u) /\ res.r.reg[g].active = r.reg[g].active
    BY <1>1, <1>2, <1>3, <2>4, <2>6, Zenon DEF Waits
  <2>. QED
    BY <1>3, <2>3, <2>5, <2>6, Zenon
<1>4. CASE ~res.ok
  BY <1>1, <1>2, <1>4, Zenon DEF OnlyFd
<1>. QED
  BY <1>3, <1>4, ZenonT(60)

LEMMA HoldsWaits ==
    ASSUME NEW f, NEW d, NEW t
    PROVE  Holds(f, d, t) <=>
             \E th \in Threads : /\ Waits(backend, reactors[th], f, d, socks[f].token, t)
                                 /\ d \in ready[f] => d \in reactors[th].reg[f].active
  BY Zenon DEF Holds, Armed, Waits, WakerOf

\* The socket of an operation other than connect.
LEMMA OperationSocket ==
    ASSUME NetIInv, NEW t \in NetTasks, op[t].k \in DOMAIN Direction
    PROVE  /\ op[t].fd \in Fds /\ socks[op[t].fd].kind \in {"listener", "tcp", "udp"}
           /\ Direction[op[t].k] \in Dirs
           /\ socks[op[t].fd].token # 0 /\ socks[op[t].fd].token \in Nat
           /\ \A f \in Fds \ {op[t].fd} : socks[f].token # socks[op[t].fd].token
<1>1. TaskOK(t) /\ NetTypes /\ SockInv
  BY Zenon DEF NetIInv, NetSocks
<1>2. op[t].fd \in Fds /\ socks[op[t].fd].kind \in {"listener", "tcp", "udp"}
  <2>1. Uses[op[t].k] \in {"listener", "tcp", "udp"}
    BY SMTT(60) DEF Uses, Direction
  <2>. QED
    BY <1>1, <2>1, Zenon DEF TaskOK
<1>3. Direction[op[t].k] \in Dirs
  BY DEF Direction, Dirs, READABLE, WRITABLE
<1>. QED
  BY <1>1, <1>2, <1>3, SMTT(60) DEF NetTypes, SockInv, Socks, Kinds

\* Any step that leaves the sockets as they are, and registers at most the socket's own fd g.
LEMMA ReactorStep ==
    ASSUME NetSocks, UNCHANGED <<backend, socks, next_tok, dropping>>,
           ready' \in [Fds -> SUBSET Dirs], \A f \in Fds : socks[f].conn = "pending" => ready'[f] = {},
           reactors' = [th \in Threads |-> reactors'[th]], \A th \in Threads : ReactorOK(reactors'[th]),
           NEW n \in Fds, socks[n].kind \in Kinds,
           \A th \in Threads : \A g \in DOMAIN reactors'[th].reg :
               \/ /\ g \in DOMAIN reactors[th].reg
                  /\ reactors'[th].reg[g].token = reactors[th].reg[g].token
               \/ g = n /\ reactors'[th].reg[g].token = socks[n].token /\ Running(th)
    PROVE  NetSocks'
<1>1. NetTypes'
  BY Zenon DEF NetSocks, NetTypes
<1>2. TokensStep(n) /\ next_tok <= next_tok'
  BY SMTT(60) DEF TokensStep, NetSocks, NetTypes
<1>3. SocketsOK'
  BY Zenon DEF SocketsOK, NetSocks, SockInv
<1>4. RegistrationsStep
  <2>1. socks[n].kind # "free" /\ socks[n].token # 0
    BY Zenon DEF NetSocks, SockInv, Kinds
  <2>2. \A th \in Threads : \A g \in DOMAIN reactors[th].reg : g \in Fds /\ socks[g].kind # "free"
    BY Zenon DEF NetSocks, RegInv
  <2>. QED
    BY <2>1, <2>2, Zenon DEF RegistrationsStep
<1>5. DroppingStep
  BY Zenon DEF DroppingStep, NetSocks, DropInv, Running
<1>. QED
  BY <1>1, <1>2, <1>3, <1>4, <1>5, SocksStep, Zenon

LEMMA ArmStep ==
    ASSUME NetIInv, NEW t \in NetTasks, NEW th \in Threads, Running(th), NEW g, NEW d,
           op[t].k \in DOMAIN Direction, d = Direction[op[t].k], g = op[t].fd, d \notin ready[g],
           arm(t, th, g, d), UNCHANGED <<backend, ready, socks, next_tok, dropping>>
    PROVE  NetIInv'
<1>. DEFINE k == socks[g].token
            res == Rearmed(backend, set_waker(reactors[th], d, k, t), g, k, d, ready)
<1>0. NetSocks /\ NetTypes /\ TaskTypes /\ \A u \in NetTasks : TaskOK(u)
  BY Zenon DEF NetIInv, NetSocks
<1>1. /\ g \in Fds /\ socks[g].kind \in {"listener", "tcp", "udp"} /\ d \in Dirs
      /\ k # 0 /\ k \in Nat /\ \A f \in Fds \ {g} : socks[f].token # k
  BY OperationSocket, Zenon
<1>2. /\ reactors' = [reactors EXCEPT ![th] = res.r]
      /\ IF res.ok
         THEN /\ due' = due \ {t}
              /\ newest' = [newest EXCEPT ![g] =
                    {<<d, t>>} \cup (IF backend = "kqueue" THEN {p \in @ : p[1] # d} ELSE {})]
              /\ UNCHANGED op
         ELSE Finished(t)
  BY Zenon DEF arm, set_waker, Rearmed
<1>3. backend \in Backends /\ ReactorOK(reactors[th]) /\ ready \in [Fds -> SUBSET Dirs]
  BY <1>0, Zenon DEF NetTypes
<1>. HIDE DEF k, res
<1>4. /\ OnlyFd(reactors[th], res.r, g) /\ OtherWakers(reactors[th], res.r, k)
      /\ res.ok => /\ Waits(backend, res.r, g, d, k, t)
                   /\ \A e \in Dirs \ {d} : \A u :
                        backend # "epoll" /\ Waits(backend, reactors[th], g, e, k, u)
                        => /\ Waits(backend, res.r, g, e, k, u)
                           /\ res.r.reg[g].active = reactors[th].reg[g].active
      /\ ~res.ok => g \notin DOMAIN reactors[th].reg /\ res.r.reg = reactors[th].reg
  <2>1. ArmResult(backend, reactors[th], g, k, d, t, res)
    BY <1>1, <1>3, ArmReactor, Zenon DEF res
  <2>. QED
    BY <2>1, Zenon DEF ArmResult
<1>5. Touch(g, k) /\ \A s \in Threads : reactors'[s] = IF s = th THEN res.r ELSE reactors[s]
  BY <1>0, <1>2, <1>4, TouchOne, ZenonT(60)
<1>6. \A f \in Fds \ {g} : SocketKept(f)
  BY <1>1, <1>5, TouchKept, Zenon
<1>7. NetSocks'
  <2>1. socks[g].kind \in Kinds
    BY <1>1, Zenon DEF Kinds
  <2>2. \A f \in Fds : socks[f].conn = "pending" => ready'[f] = {}
    BY <1>0, Zenon DEF NetSocks, SockInv
  <2>3. reactors' = [s \in Threads |-> reactors'[s]] /\ \A s \in Threads : ReactorOK(reactors'[s])
    BY <1>5, Zenon DEF Touch, OnlyFd
  <2>4. ASSUME NEW s \in Threads, NEW f \in DOMAIN reactors'[s].reg
        PROVE  \/ /\ f \in DOMAIN reactors[s].reg
                  /\ reactors'[s].reg[f].token = reactors[s].reg[f].token
               \/ f = g /\ reactors'[s].reg[f].token = socks[g].token /\ Running(s)
    <3>1. CASE f # g
      BY <1>5, <2>4, <3>1, SMTT(60) DEF Touch, OnlyFd
    <3>2. CASE f = g /\ s # th
      BY <1>5, <2>4, <3>2, Zenon
    <3>3. CASE f = g /\ s = th
      BY <1>4, <1>5, <2>4, <3>3, Zenon DEF Waits, k
    <3>. QED
      BY <3>1, <3>2, <3>3, Zenon
  <2>. QED
    BY <1>0, <1>1, <1>3, <2>1, <2>2, <2>3, <2>4, ReactorStep, Zenon
<1>8. CASE ~res.ok
  <2>1. SocketKept(g)
    BY <1>4, <1>5, <1>8, Zenon DEF SocketKept, Kept
  <2>. QED
    BY <1>2, <1>6, <1>7, <1>8, <2>1, FinishStep, Zenon
<1>9. CASE res.ok
  <2>1. op' = op /\ due' = due \ {t}
    BY <1>2, <1>9, Zenon
  <2>2. /\ newest' \in [Fds -> SUBSET (Dirs \X NetTasks)]
        /\ \A f \in Fds \ {g} : newest'[f] = newest[f]
        /\ newest'[g] = {<<d, t>>} \cup (IF backend = "kqueue" THEN {p \in newest[g] : p[1] # d} ELSE {})
    <3>. DEFINE z == {<<d, t>>} \cup (IF backend = "kqueue" THEN {p \in newest[g] : p[1] # d} ELSE {})
    <3>1. z \in SUBSET (Dirs \X NetTasks)
      BY <1>0, <1>1, SMTT(60) DEF TaskTypes
    <3>2. newest' = [newest EXCEPT ![g] = z]
      BY <1>2, <1>9, Zenon
    <3>. HIDE DEF z
    <3>3. newest' \in [Fds -> SUBSET (Dirs \X NetTasks)] /\ newest'[g] = z
          /\ \A f \in Fds \ {g} : newest'[f] = newest[f]
      BY <1>0, <1>1, <3>1, <3>2, Zenon DEF TaskTypes
    <3>. QED
      BY <3>3, Zenon DEF z
  <2>3. TaskTypes'
    BY <1>0, <2>1, <2>2, ZenonT(60) DEF TaskTypes
  <2>4. \A u \in NetTasks : \A f \in Fds : \A e \in Dirs :
          <<e, u>> \in newest'[f] => \/ <<e, u>> \in newest[f] /\ (f = g => e # d /\ backend = "kqueue")
                                     \/ u = t /\ e = d /\ f = g
    BY <2>2, SMTT(60)
  <2>5. TaskOK(t)'
    <3>1. Holds(g, d, t)'
      <4>1. Waits(backend', reactors'[th], g, d, socks'[g].token, t) /\ d \notin ready'[g]
        BY <1>4, <1>5, <1>9, ZenonT(60) DEF k
      <4>. QED
        BY <4>1, Zenon DEF Holds, Armed, Waits, WakerOf
    <3>2. \A f \in Fds : \A e \in Dirs : <<e, t>> \in newest'[f] => e = d /\ f = g
      BY <1>0, <2>4, SMTT(60) DEF TaskOK
    <3>3. TaskOK(t) /\ op[t].k # "connect" /\ op[t].k # "none"
      BY <1>0, Zenon DEF Direction
    <3>. QED
      BY <1>1, <2>1, <3>1, <3>2, <3>3, ZenonT(60) DEF TaskOK, Connecting
  <2>6. ASSUME NEW u \in NetTasks \ {t}, op[u].fd # g
        PROVE  TaskOK(u)'
    <3>1. SameTask(u)
      BY <1>0, <2>1, <2>4, <2>6, ZenonT(60) DEF SameTask, TaskOK
    <3>. QED
      BY <1>0, <1>6, <2>6, <3>1, TaskKept, ZenonT(60)
  <2>7. ASSUME NEW u \in NetTasks \ {t}, op[u].fd = g
        PROVE  TaskOK(u)'
    <3>1. TaskOK(u) /\ ~Connecting(u)
      BY <1>0, <1>1, <2>7, Zenon DEF TaskOK
    <3>2. ASSUME NEW f \in Fds, NEW e \in Dirs, <<e, u>> \in newest'[f]
          PROVE  /\ op[u].k \in DOMAIN Direction /\ Direction[op[u].k] = e /\ op[u].fd = f
                 /\ u \notin due' => Holds(f, e, u)'
      <4>1. <<e, u>> \in newest[f] /\ (f = g => e # d /\ backend = "kqueue")
        BY <2>4, <3>2, Zenon
      <4>2. /\ op[u].k \in DOMAIN Direction /\ Direction[op[u].k] = e /\ op[u].fd = f
            /\ u \notin due => Holds(f, e, u)
        BY <3>1, <4>1, Zenon DEF TaskOK
      <4>3. f = g /\ e # d /\ backend # "epoll"
        BY <2>7, <4>1, <4>2, Zenon
      <4>4. ASSUME u \notin due' PROVE Holds(g, e, u)'
        <5>1. Holds(g, e, u)
          BY <2>1, <4>2, <4>3, <4>4, Zenon
        <5>2. PICK s \in Threads : /\ Waits(backend, reactors[s], g, e, k, u)
                                   /\ e \in ready[g] => e \in reactors[s].reg[g].active
          BY <5>1, HoldsWaits, Zenon DEF k
        <5>3. /\ Waits(backend, reactors'[s], g, e, k, u)
              /\ e \in ready[g] => e \in reactors'[s].reg[g].active
          BY <1>4, <1>5, <1>9, <4>3, <5>2, ZenonT(60)
        <5>. QED
          BY <4>3, <5>3, Zenon DEF Holds, Armed, Waits, WakerOf, k
      <4>. QED
        BY <4>2, <4>3, <4>4, Zenon
    <3>. QED
      BY <2>1, <3>1, <3>2, Zenon DEF TaskOK, Connecting
  <2>. QED
    BY <1>7, <2>3, <2>5, <2>6, <2>7, Zenon DEF NetIInv
<1>. QED
  BY <1>8, <1>9, Zenon

LEMMA AfterCall ==
    ASSUME NetTypes, NEW g \in Fds, NEW d
    PROVE  \A rdy \in after_call(g, d) : LessReady(rdy)
  BY SMTT(60) DEF NetTypes, after_call, LessReady

\* A system call that ends the operation, and opens no fd.
LEMMA CallEnds ==
    ASSUME NetIInv, NEW t \in NetTasks, Finished(t), LessReady(ready'),
           op[t].k \in DOMAIN Direction, UNCHANGED <<backend, reactors, socks, next_tok, dropping>>
    PROVE  NetIInv'
<1>. DEFINE g == op[t].fd
<1>0. NetSocks /\ NetTypes
  BY Zenon DEF NetIInv, NetSocks
<1>1. g \in Fds /\ socks[g].kind \in Kinds
  BY OperationSocket, Zenon DEF Kinds
<1>2. ready' \in [Fds -> SUBSET Dirs] /\ \A f \in Fds : ready'[f] \subseteq ready[f]
  BY Zenon DEF LessReady
<1>3. \A f \in Fds : SocketKept(f)
  BY <1>2, Untouched, Zenon
<1>4. NetSocks'
  <2>1. \A f \in Fds : socks[f].conn = "pending" => ready'[f] = {}
    BY <1>0, <1>2, Zenon DEF NetSocks, SockInv
  <2>2. reactors' = [s \in Threads |-> reactors'[s]] /\ \A s \in Threads : ReactorOK(reactors'[s])
    BY <1>0, Zenon DEF NetTypes
  <2>. QED
    BY <1>0, <1>1, <1>2, <2>1, <2>2, ReactorStep, ZenonT(60)
<1>. QED
  BY <1>3, <1>4, FinishStep, Zenon

LEMMA PollIoStep ==
    ASSUME NetIInv, NEW t \in NetTasks, NEW th \in Threads, NEW k \in DOMAIN Direction, poll_io(t, th, k)
    PROVE  NetIInv'
<1>. DEFINE g == op[t].fd
            d == Direction[k]
<1>0. NetSocks /\ NetTypes
  BY Zenon DEF NetIInv, NetSocks
<1>1. Running(th) /\ op[t].k = k /\ UNCHANGED <<backend, socks, next_tok, dropping>>
  BY Zenon DEF poll_io
<1>2. g \in Fds /\ socks[g].kind \in {"listener", "tcp", "udp"}
  BY <1>1, OperationSocket, Zenon
<1>3. CASE d \in ready[g]
  <2>1. /\ ready' \in after_call(g, d)
        /\ Finished(t) /\ UNCHANGED reactors
    BY <1>3, Zenon DEF poll_io
  <2>2. LessReady(ready')
    BY <1>0, <1>2, <2>1, AfterCall, Zenon
  <2>. QED
    BY <1>1, <2>1, <2>2, CallEnds, Zenon
<1>4. CASE d \notin ready[g]
  <2>1. arm(t, th, g, d) /\ UNCHANGED ready
    BY <1>4, Zenon DEF poll_io
  <2>. QED
    BY <1>1, <1>4, <2>1, ArmStep, Zenon
<1>. QED
  BY <1>3, <1>4, Zenon

LEMMA PollAcceptStep ==
    ASSUME NetIInv, NEW t \in NetTasks, NEW th \in Threads, poll_accept(t, th)
    PROVE  NetIInv'
<1>. DEFINE g == op[t].fd
<1>0. NetSocks /\ NetTypes
  BY Zenon DEF NetIInv, NetSocks
<1>1. Running(th) /\ op[t].k = "accept" /\ UNCHANGED <<backend, dropping>>
  BY Zenon DEF poll_accept
<1>2. "accept" \in DOMAIN Direction /\ Direction["accept"] = "r" /\ "tcp" \in Kinds
  BY Zenon DEF Direction, Kinds
<1>3. \A rdy \in after_call(g, "r") : LessReady(rdy)
  BY <1>0, <1>1, <1>2, OperationSocket, AfterCall, Zenon
<1>4. CASE Finished(t) /\ ready' \in after_call(g, "r") /\ UNCHANGED <<reactors, socks, next_tok>>
  BY <1>1, <1>2, <1>3, <1>4, CallEnds, Zenon
<1>5. CASE /\ Finished(t)
           /\ \E new \in Lowest, rdy \in after_call(g, "r") :
                \/ /\ new_source(new, "tcp", rdy)
                   /\ reactors' = [reactors EXCEPT ![th] = new_registration(th, new, "tcp")]
                \/ leak(new) /\ ready' = rdy /\ UNCHANGED <<reactors, next_tok>>
  <2>1. PICK n \in Free, rdy \in after_call(g, "r") :
             \/ /\ new_source(n, "tcp", rdy)
                /\ reactors' = [reactors EXCEPT ![th] = new_registration(th, n, "tcp")]
             \/ leak(n) /\ ready' = rdy /\ UNCHANGED <<reactors, next_tok>>
    BY <1>5, Zenon DEF Lowest
  <2>2. NetSocks' /\ \A f \in Fds \ {n} : SocketKept(f)
    <3>1. LessReady(rdy)
      BY <1>3, Zenon
    <3>2. CASE /\ new_source(n, "tcp", rdy)
               /\ reactors' = [reactors EXCEPT ![th] = new_registration(th, n, "tcp")]
      BY <1>0, <1>1, <1>2, <3>1, <3>2, OpensNew, Zenon
    <3>3. CASE leak(n) /\ ready' = rdy /\ UNCHANGED <<reactors, next_tok>>
      <4>1. LessReady(ready')
        BY <3>1, <3>3, Zenon
      <4>. QED
        BY <1>0, <1>1, <3>3, <4>1, Leaks, Zenon
    <3>. QED
      BY <2>1, <3>2, <3>3, Zenon
  <2>3. \A u \in NetTasks : op[u].fd \in Fds => SocketKept(op[u].fd)
    BY <2>2, NotFree, Zenon
  <2>. QED
    BY <1>1, <1>5, <2>2, <2>3, FinishStep, Zenon
<1>6. CASE "r" \notin ready[g] /\ arm(t, th, g, "r") /\ UNCHANGED <<ready, socks, next_tok>>
  BY <1>1, <1>2, <1>6, ArmStep, Zenon
<1>. QED
  BY <1>4, <1>5, <1>6, Zenon DEF poll_accept

-----------------------------------------------------------------------------
(* ConnectFuture::poll.                                                       *)

\* ConnectState::Init of a connect that is in progress: the fd is armed for writing, before the
\* waker is stored, and it is not ready yet.
LEMMA ConnectBegins ==
    ASSUME NetIInv, NEW t \in NetTasks, NEW th \in Threads, Running(th), NEW n \in Free,
           op[t] = [k |-> "connect", fd |-> 0], new_source(n, "connecting", ready),
           reactors' = [reactors EXCEPT ![th] =
                          set_write_waker(new_registration(th, n, "connecting"), next_tok, t)],
           op' = [op EXCEPT ![t].fd = n], due' = due \ {t},
           UNCHANGED <<backend, dropping, newest>>
    PROVE  NetIInv'
<1>. DEFINE y == new_registration(th, n, "connecting")
            x == set_waker(y, "w", next_tok, t)
<1>0. NetSocks /\ NetTypes /\ TaskTypes /\ \A u \in NetTasks : TaskOK(u)
  BY Zenon DEF NetIInv, NetSocks
<1>1. "connecting" \in Kinds /\ "w" \in Dirs /\ n \in Fds
      /\ FirstInterest["connecting"] = {"w"} /\ Fresh["connecting"] = {}
  BY Zenon DEF Kinds, Dirs, READABLE, WRITABLE, FirstInterest, Fresh, Free
<1>2. Replaces(th, x)
  BY Zenon DEF set_waker, Replaces
<1>3. /\ OnlyFd(reactors[th], y, n) /\ SameWakers(reactors[th], y)
      /\ n \in DOMAIN y.reg
      /\ y.reg[n] = [token |-> next_tok, mask |-> {"w"}, active |-> {"w"} \cap {}]
  BY <1>0, <1>1, NewRegistration, ZenonT(60)
<1>. HIDE DEF y
<1>4. ReactorOK(y) /\ y.reg[n].token = next_tok /\ y.reg[n].mask = {"w"}
      /\ OtherWakers(reactors[th], y, next_tok)
  BY <1>3, SameOthers DEF OnlyFd
<1>5. /\ ReactorOK(x) /\ x.reg = y.reg /\ OtherWakers(y, x, next_tok)
      /\ next_tok \in DOMAIN WakerOf(x, "w") /\ WakerOf(x, "w")[next_tok] = t
  BY <1>1, <1>4, SetWaker
<1>. HIDE DEF x
<1>6. OnlyFd(reactors[th], x, n) /\ OtherWakers(reactors[th], x, next_tok) /\ x.reg[n].token = next_tok
  BY <1>3, <1>4, <1>5 DEF OnlyFd, OtherWakers
<1>7. /\ NetSocks' /\ \A f \in Fds \ {n} : SocketKept(f)
      /\ socks'[n].token = next_tok /\ socks'[n].kind = "connecting"
      /\ ready'[n] = {} /\ reactors'[th] = x
  <2>1. PICK c \in Kinds : c = "connecting"
    BY <1>1, Zenon
  <2>2. /\ NetSocks' /\ \A f \in Fds \ {n} : SocketKept(f)
        /\ socks'[n].token = next_tok /\ socks'[n].kind = c
        /\ ready'[n] = Fresh[c] /\ reactors'[th] = x
    <3>1. new_source(n, c, ready) /\ UNCHANGED <<backend, dropping>>
      BY <2>1, Zenon
    <3>2. LessReady(ready)
      BY <1>0, Zenon DEF LessReady, NetTypes
    <3>. QED
      BY <1>0, <1>2, <1>6, <2>1, <3>1, <3>2, Opens, SMTT(60)
  <2>. QED
    BY <1>1, <2>1, <2>2, Zenon
<1>8. Holds(n, "w", t)'
  <2>1. Waits(backend, x, n, "w", next_tok, t)
    BY <1>3, <1>4, <1>5, Zenon DEF Waits
  <2>. QED
    BY <1>7, <2>1, Zenon DEF Holds, Armed, Waits, WakerOf
<1>9. op'[t] = [k |-> "connect", fd |-> n] /\ \A u \in NetTasks \ {t} : op'[u] = op[u]
  BY <1>0 DEF TaskTypes
<1>10. TaskTypes'
  <2>1. op' = [u \in NetTasks |-> op'[u]]
    BY <1>0, Zenon DEF TaskTypes
  <2>. QED
    BY <1>0, <1>9, <2>1, Zenon DEF TaskTypes
<1>11. \A u \in NetTasks : op[u].fd # n
  BY <1>1, NotFree, Zenon
<1>12. TaskOK(t)'
  <2>1. \A f \in Fds : \A e \in Dirs : <<e, t>> \notin newest'[f]
    BY <1>0 DEF TaskOK, Direction
  <2>2. \A u \in NetTasks : op'[u].fd = n => u = t
    BY <1>9, <1>11, Zenon
  <2>. QED
    BY <1>1, <1>7, <1>8, <1>9, <2>1, <2>2, SMTT(60) DEF TaskOK, Connecting, Direction
<1>13. ASSUME NEW u \in NetTasks \ {t}
       PROVE  TaskOK(u)'
  <2>1. SameTask(u)
    BY <1>0, <1>9, <1>11 DEF SameTask, TaskOK
  <2>. QED
    BY <1>0, <1>7, <1>11, <2>1, TaskKept, ZenonT(60)
<1>. QED
  BY <1>7, <1>10, <1>12, <1>13, Zenon DEF NetIInv

LEMMA PollConnectInitStep ==
    ASSUME NetIInv, NEW t \in NetTasks, NEW th \in Threads, poll_connect_init(t, th)
    PROVE  NetIInv'
<1>0. NetSocks
  BY Zenon DEF NetIInv
<1>1. Running(th) /\ op[t] = [k |-> "connect", fd |-> 0] /\ UNCHANGED <<backend, dropping>>
  BY Zenon DEF poll_connect_init
<1>2. "tcp" \in Kinds
  BY Zenon DEF Kinds
<1>3. CASE Finished(t) /\ UNCHANGED <<reactors, ready, socks, next_tok>>
  <2>1. NetSocks' /\ \A f : SocketKept(f)
    BY <1>0, <1>1, <1>3, SameSocks, Zenon
  <2>. QED
    BY <1>1, <1>3, <2>1, FinishStep, Zenon
<1>4. CASE ~ (Finished(t) /\ UNCHANGED <<reactors, ready, socks, next_tok>>)
  <2>1. PICK n \in Free :
          \/ Finished(t) /\ leak(n) /\ UNCHANGED <<reactors, ready, next_tok>>
          \/ /\ Finished(t)
             /\ new_source(n, "tcp", ready)
             /\ reactors' = [reactors EXCEPT ![th] = new_registration(th, n, "tcp")]
          \/ /\ new_source(n, "connecting", ready)
             /\ reactors' = [reactors EXCEPT ![th] =
                               set_write_waker(new_registration(th, n, "connecting"), next_tok, t)]
             /\ op' = [op EXCEPT ![t].fd = n]
             /\ due' = due \ {t} /\ UNCHANGED newest
    BY <1>4, Zenon DEF poll_connect_init, Lowest
  <2>2. ASSUME Finished(t), NetSocks', \A f \in Fds \ {n} : SocketKept(f)
        PROVE  NetIInv'
    <3>1. \A u \in NetTasks : op[u].fd \in Fds => SocketKept(op[u].fd)
      BY <2>2, NotFree, Zenon
    <3>. QED
      BY <1>1, <2>2, <3>1, FinishStep, Zenon
  <2>3. LessReady(ready)
    BY <1>0, Zenon DEF LessReady, NetSocks, NetTypes
  <2>4. CASE Finished(t) /\ leak(n) /\ UNCHANGED <<reactors, ready, next_tok>>
    BY <1>0, <1>1, <2>2, <2>3, <2>4, Leaks, Zenon
  <2>5. CASE /\ Finished(t)
             /\ new_source(n, "tcp", ready)
             /\ reactors' = [reactors EXCEPT ![th] = new_registration(th, n, "tcp")]
    BY <1>0, <1>1, <1>2, <2>2, <2>3, <2>5, OpensNew, ZenonT(60)
  <2>6. CASE /\ new_source(n, "connecting", ready)
             /\ reactors' = [reactors EXCEPT ![th] =
                               set_write_waker(new_registration(th, n, "connecting"), next_tok, t)]
             /\ op' = [op EXCEPT ![t].fd = n]
             /\ due' = due \ {t} /\ UNCHANGED newest
    BY <1>1, <2>6, ConnectBegins, Zenon
  <2>. QED
    BY <2>1, <2>4, <2>5, <2>6, Zenon
<1>. QED
  BY <1>3, <1>4, Zenon

\* ConnectState::Connecting, when the connect is over or SO_ERROR cannot be read: fd g gets the
\* socket s, and thread th, which has deregistered it, the reactor x.
LEMMA ConnectEnds ==
    ASSUME NetIInv, NEW t \in NetTasks, op[t].k = "connect", op[t].fd # 0, Finished(t),
           NEW g, g = op[t].fd, NEW th \in Threads, Running(th), NEW x, Replaces(th, x),
           OnlyFd(reactors[th], x, g), OtherWakers(reactors[th], x, socks[g].token),
           NEW s \in Socks, socks' = [socks EXCEPT ![g] = s], s.conn = "none",
           s.kind \in {"leaked", "tcp"}, UNCHANGED <<backend, ready, dropping>>,
           \/ s.token = 0 /\ s.kind = "leaked" /\ next_tok' = next_tok /\ g \notin DOMAIN x.reg
           \/ s.token = next_tok /\ next_tok' = next_tok + 1 /\ x.reg[g].token = next_tok
    PROVE  NetIInv'
<1>. DEFINE k == socks[g].token
<1>0. NetSocks /\ NetTypes
  BY Zenon DEF NetIInv, NetSocks
<1>1. /\ g \in Fds /\ socks[g].kind = "connecting" /\ \A f \in Fds \ {g} : socks[f].token # k
      /\ \A u \in NetTasks \ {t} : op[u].fd # g
  BY ConnectSocket, Zenon
<1>. HIDE DEF k
<1>2. Touch(g, k) /\ \A q \in Threads : reactors'[q] = IF q = th THEN x ELSE reactors[q]
  BY <1>0, TouchOne, ZenonT(60) DEF Replaces, k
<1>3. s.kind # "free" /\ s.kind # "connecting" /\ (s.kind = "leaked" => s.kind \notin Kinds)
  BY Zenon DEF Kinds
<1>4. dropping'[th] = {} /\ next_tok # 0 /\ dropping' \in [Threads -> SUBSET (Fds \X Nat)]
      /\ ready' \in [Fds -> SUBSET Dirs]
  BY <1>0, Zenon DEF Running, NetTypes
<1>5. \A q \in Threads : g \in DOMAIN reactors'[q].reg =>
           /\ s.kind # "free"
           /\ \/ /\ g \in DOMAIN reactors[q].reg
                 /\ reactors'[q].reg[g].token = reactors[q].reg[g].token
              \/ /\ reactors'[q].reg[g].token = s.token /\ s.token # 0
                 /\ dropping'[q] = {}
  BY <1>2, <1>3, <1>4, Zenon
<1>6. NetSocks' /\ \A f \in Fds \ {g} : SocketKept(f)
  BY <1>0, <1>1, <1>2, <1>3, <1>4, <1>5, OneSocket, ZenonT(60)
<1>. QED
  BY <1>1, <1>6, FinishStep, Zenon

\* ConnectState::Connecting, when the connect is still in progress: the waker is stored again, in
\* the reactor of the thread that polls, and the one the fd is armed in keeps it.
LEMMA ConnectWaits ==
    ASSUME NetIInv, NEW t \in NetTasks, op[t].k = "connect", op[t].fd # 0,
           NEW g, g = op[t].fd, NEW th \in Threads, socks[g].conn = "pending",
           reactors' = [reactors EXCEPT ![th] = set_write_waker(reactors[th], socks[g].token, t)],
           due' = due \ {t}, UNCHANGED <<backend, ready, socks, next_tok, dropping, op, newest>>
    PROVE  NetIInv'
<1>. DEFINE k == socks[g].token
            x == set_waker(reactors[th], "w", k, t)
<1>0. NetSocks /\ NetTypes /\ TaskTypes /\ \A u \in NetTasks : TaskOK(u)
  BY Zenon DEF NetIInv, NetSocks
<1>1. /\ g \in Fds /\ socks[g].kind = "connecting" /\ \A f \in Fds \ {g} : socks[f].token # k
      /\ \A u \in NetTasks \ {t} : op[u].fd # g
  BY ConnectSocket, Zenon
<1>2. "w" \in Dirs /\ ReactorOK(reactors[th]) /\ reactors' = [reactors EXCEPT ![th] = x]
  BY <1>0, ZenonT(60) DEF Dirs, READABLE, WRITABLE, NetTypes, set_waker
<1>. HIDE DEF k
<1>3. /\ ReactorOK(x) /\ x.reg = reactors[th].reg /\ OtherWakers(reactors[th], x, k)
      /\ k \in DOMAIN WakerOf(x, "w") /\ WakerOf(x, "w")[k] = t
  BY <1>2, SetWaker, SMTT(60)
<1>. HIDE DEF x
<1>4. OnlyFd(reactors[th], x, g)
  BY <1>3, Zenon DEF OnlyFd
<1>5. Touch(g, k) /\ \A q \in Threads : reactors'[q] = IF q = th THEN x ELSE reactors[q]
  BY <1>0, <1>2, <1>3, <1>4, TouchOne, ZenonT(60)
<1>6. \A f \in Fds \ {g} : SocketKept(f)
  BY <1>1, <1>5, TouchKept, Zenon
<1>7. NetSocks'
  <2>1. socks[g].kind \in Kinds
    BY <1>1, Zenon DEF Kinds
  <2>2. ready' \in [Fds -> SUBSET Dirs] /\ \A f \in Fds : socks[f].conn = "pending" => ready'[f] = {}
    BY <1>0, Zenon DEF NetSocks, NetTypes, SockInv
  <2>3. reactors' = [q \in Threads |-> reactors'[q]] /\ \A q \in Threads : ReactorOK(reactors'[q])
    BY <1>5, Zenon DEF Touch, OnlyFd
  <2>4. \A q \in Threads : reactors'[q].reg = reactors[q].reg
    BY <1>3, <1>5, Zenon
  <2>. QED
    BY <1>0, <1>1, <2>1, <2>2, <2>3, <2>4, ReactorStep, ZenonT(60)
<1>8. Holds(g, "w", t)'
  <2>1. Holds(g, "w", t)
    BY <1>0, Zenon DEF TaskOK, Connecting
  <2>2. PICK q \in Threads : /\ Waits(backend, reactors[q], g, "w", k, t)
                             /\ "w" \in ready[g] => "w" \in reactors[q].reg[g].active
    BY <2>1, HoldsWaits, Zenon DEF k
  <2>3. /\ Waits(backend, reactors'[q], g, "w", k, t)
        /\ "w" \in ready[g] => "w" \in reactors'[q].reg[g].active
    BY <1>3, <1>5, <2>2, ZenonT(60) DEF Waits
  <2>. QED
    BY <2>3, Zenon DEF Holds, Armed, Waits, WakerOf, k
<1>9. TaskTypes'
  BY <1>0, Zenon DEF TaskTypes
<1>10. TaskOK(t)'
  <2>1. TaskOK(t) /\ op[t].k \notin DOMAIN Direction
    BY <1>0, Zenon DEF Direction
  <2>. QED
    BY <1>8, <2>1, Zenon DEF TaskOK, Connecting
<1>11. ASSUME NEW u \in NetTasks \ {t}
       PROVE  TaskOK(u)'
  <2>1. SameTask(u)
    BY <1>0, ZenonT(60) DEF SameTask, TaskOK
  <2>. QED
    BY <1>0, <1>1, <1>6, <2>1, TaskKept, Zenon
<1>. QED
  BY <1>7, <1>9, <1>10, <1>11, Zenon DEF NetIInv

LEMMA PollConnectStep ==
    ASSUME NetIInv, NEW t \in NetTasks, NEW th \in Threads, poll_connect(t, th)
    PROVE  NetIInv'
<1>. DEFINE g == op[t].fd
            k == socks[g].token
            gone == deregister_with_token(backend, reactors[th], g, k)
<1>0. NetSocks /\ NetTypes
  BY Zenon DEF NetIInv, NetSocks
<1>1. Running(th) /\ op[t].k = "connect" /\ g # 0 /\ UNCHANGED <<backend, dropping>>
  BY Zenon DEF poll_connect
<1>2. g \in Fds /\ socks[g].kind = "connecting"
  BY <1>1, ConnectSocket, Zenon
<1>3. OnlyFd(reactors[th], gone, g) /\ OtherWakers(reactors[th], gone, k) /\ g \notin DOMAIN gone.reg
  BY <1>0, Deregister, Zenon DEF NetTypes
<1>4. CASE /\ Finished(t)
           /\ reactors' = [reactors EXCEPT ![th] = gone]
           /\ leak(g) /\ UNCHANGED <<ready, next_tok>>
  <2>. DEFINE s == [NoSock EXCEPT !.kind = "leaked"]
  <2>1. s \in Socks /\ s.token = 0 /\ s.kind = "leaked" /\ s.conn = "none"
    BY Zenon DEF NoSock, Socks
  <2>2. socks' = [socks EXCEPT ![g] = s] /\ Replaces(th, gone)
    BY <1>4, Zenon DEF leak, Replaces
  <2>. HIDE DEF s, gone
  <2>. QED
    BY <1>1, <1>3, <1>4, <2>1, <2>2, ConnectEnds, Zenon
<1>5. CASE /\ Finished(t)
           /\ reactors' = [r \in Threads |-> closed(IF r = th THEN gone ELSE reactors[r], g)]
           /\ socks' = [socks EXCEPT ![g] = NoSock]
           /\ ready' = [ready EXCEPT ![g] = {}]
           /\ UNCHANGED next_tok
  <2>1. reactors' = [r \in Threads |-> closed(
               IF r = th THEN deregister_with_token(backend, reactors[r], g, socks[g].token)
               ELSE reactors[r], g)]
    BY <1>5, Zenon
  <2>. HIDE DEF gone
  <2>. QED
    BY <1>1, <1>5, <2>1, ConnectCloses, Zenon
<1>6. CASE /\ Finished(t)
           /\ new_source(g, "tcp", ready)
           /\ reactors' = [reactors EXCEPT ![th] = register(backend, gone, g, next_tok, Dirs, ready).r]
  <2>. DEFINE s == [kind |-> "tcp", token |-> next_tok, conn |-> "none"]
              x == register(backend, gone, g, next_tok, Dirs, ready).r
  <2>. HIDE DEF gone
  <2>1. ReactorOK(gone) /\ next_tok \in Nat /\ backend \in Backends /\ Dirs \in (SUBSET Dirs) \ {{}}
    BY <1>0, <1>3, ZenonT(60) DEF OnlyFd, NetTypes, Dirs, READABLE, WRITABLE
  <2>2. /\ OnlyFd(gone, x, g) /\ SameWakers(gone, x)
        /\ x.reg[g] = [token |-> next_tok, mask |-> Dirs, active |-> Dirs \cap ready[g]]
    BY <1>3, <2>1, RegisterNew, SMTT(60)
  <2>3. Replaces(th, x)
    BY <1>6, ZenonT(60) DEF Replaces
  <2>. HIDE DEF x
  <2>4. OnlyFd(reactors[th], x, g) /\ OtherWakers(reactors[th], x, k) /\ x.reg[g].token = next_tok
    BY <1>3, <2>2, SameOthers, TouchTwice, SMTT(60)
  <2>5. s \in Socks /\ s.token = next_tok /\ s.kind = "tcp" /\ s.conn = "none"
    BY <2>1, Zenon DEF Socks, Kinds
  <2>6. socks' = [socks EXCEPT ![g] = s] /\ next_tok' = next_tok + 1
    BY <1>6, Zenon DEF new_source, next_token
  <2>7. ready' = ready
    <3>1. ready' = [ready EXCEPT ![g] = ready[g]]
      BY <1>2, <1>6, Zenon DEF new_source
    <3>. QED
      BY <1>0, <3>1, Zenon DEF NetTypes
  <2>. HIDE DEF s
  <2>. QED
    BY <1>1, <1>6, <2>3, <2>4, <2>5, <2>6, <2>7, ConnectEnds, ZenonT(60)
<1>7. CASE /\ "none" \in get_so_error(g) /\ ~is_writable_now(g)
           /\ reactors' = [reactors EXCEPT ![th] = set_write_waker(@, k, t)]
           /\ due' = due \ {t}
           /\ UNCHANGED <<ready, socks, next_tok, op, newest>>
  <2>1. socks[g].conn = "pending"
    <3>1. socks[g].conn \in {"none", "pending", "ok", "refused"} /\ socks[g].conn # "none"
      BY <1>0, <1>2, Zenon DEF NetSocks, NetTypes, SockInv, Socks
    <3>. QED
      BY <1>7, <3>1, Zenon DEF get_so_error, is_writable_now
  <2>2. reactors' = [reactors EXCEPT ![th] = set_write_waker(reactors[th], socks[g].token, t)]
    BY <1>7, Zenon
  <2>. HIDE DEF gone
  <2>. QED
    BY <1>1, <1>7, <2>1, <2>2, ConnectWaits, Zenon
<1>. QED
  BY <1>4, <1>5, <1>6, <1>7, Zenon DEF poll_connect

-----------------------------------------------------------------------------
(* The kernel and the executor.                                               *)

LEMMA HoldsNotified ==
    ASSUME NetTypes, NEW g \in Fds, NEW d \in Dirs, Notify(g, d),
           NEW f \in Fds, NEW e \in Dirs, NEW t, Holds(f, e, t), socks'[f].token = socks[f].token
    PROVE  Holds(f, e, t)'
<1>1. PICK q \in Threads : /\ Waits(backend, reactors[q], f, e, socks[f].token, t)
                           /\ e \in ready[f] => e \in reactors[q].reg[f].active
  BY HoldsWaits, Zenon
<1>2. reactors'[q] = notified(reactors[q], g, d) /\ ReactorOK(reactors[q]) /\ backend' = backend
  BY ZenonT(60) DEF Notify, NetTypes
<1>3. /\ OnlyFd(reactors[q], reactors'[q], g) /\ SameWakers(reactors[q], reactors'[q])
      /\ DOMAIN reactors'[q].reg = DOMAIN reactors[q].reg
      /\ g \in DOMAIN reactors[q].reg =>
            /\ reactors'[q].reg[g].token = reactors[q].reg[g].token
            /\ reactors'[q].reg[g].mask = reactors[q].reg[g].mask
            /\ reactors[q].reg[g].active \subseteq reactors'[q].reg[g].active
            /\ d \in reactors[q].reg[g].mask => d \in reactors'[q].reg[g].active
  BY <1>2, Notification, SMTT(60)
<1>4. ready'[f] = IF f = g THEN ready[f] \cup {d} ELSE ready[f]
  BY Zenon DEF Notify, NetTypes
<1>5. /\ Waits(backend, reactors'[q], f, e, socks[f].token, t)
      /\ e \in ready'[f] => e \in reactors'[q].reg[f].active
  <2>1. CASE f = g
    BY <1>1, <1>3, <1>4, <2>1, Zenon DEF Waits, SameWakers, WakerOf
  <2>2. CASE f # g
    BY <1>1, <1>3, <1>4, <2>2, Zenon DEF Waits, SameWakers, WakerOf, OnlyFd
  <2>. QED
    BY <2>1, <2>2, Zenon
<1>. QED
  BY <1>2, <1>5, Zenon DEF Holds, Armed, Waits, WakerOf

LEMMA NotifyStep ==
    ASSUME NetIInv, NEW g \in Fds, NEW d \in Dirs, Notify(g, d), socks' \in [Fds -> Socks],
           \A f \in Fds : /\ socks'[f].token = socks[f].token /\ socks'[f].kind = socks[f].kind
                          /\ socks'[f].conn = "none" <=> socks[f].conn = "none"
                          /\ socks'[f].conn = "pending" => socks[f].conn = "pending" /\ f # g
    PROVE  NetIInv'
<1>0. NetSocks /\ NetTypes /\ TaskTypes /\ \A u \in NetTasks : TaskOK(u)
  BY Zenon DEF NetIInv, NetSocks
<1>1. UNCHANGED <<backend, op, due, next_tok, dropping, newest>>
      /\ reactors' = [th \in Threads |-> notified(reactors[th], g, d)]
  BY ZenonT(60) DEF Notify
<1>2. \A th \in Threads : /\ OnlyFd(reactors[th], reactors'[th], g)
                          /\ DOMAIN reactors'[th].reg = DOMAIN reactors[th].reg
                          /\ g \in DOMAIN reactors[th].reg
                             => reactors'[th].reg[g].token = reactors[th].reg[g].token
  BY <1>0, <1>1, Notification, SMTT(60) DEF NetTypes
<1>3. \A th \in Threads : \A f \in DOMAIN reactors'[th].reg :
          f \in DOMAIN reactors[th].reg /\ reactors'[th].reg[f].token = reactors[th].reg[f].token
  BY <1>2, SMTT(60) DEF OnlyFd
<1>4. ready' \in [Fds -> SUBSET Dirs] /\ \A f \in Fds \ {g} : ready'[f] = ready[f]
  BY <1>0, Zenon DEF Notify, NetTypes
<1>5. NetSocks'
  <2>1. reactors' = [th \in Threads |-> reactors'[th]] /\ \A th \in Threads : ReactorOK(reactors'[th])
    BY <1>1, <1>2, Zenon DEF OnlyFd
  <2>2. NetTypes'
    BY <1>0, <1>1, <1>4, <2>1, ZenonT(60) DEF NetTypes
  <2>3. TokensStep(g) /\ next_tok <= next_tok'
    BY <1>0, <1>1, SMTT(60) DEF TokensStep, NetTypes
  <2>4. SocketsOK'
    BY <1>0, <1>4, SMTT(60) DEF SocketsOK, NetSocks, SockInv
  <2>5. RegistrationsStep
    BY <1>0, <1>3, ZenonT(60) DEF RegistrationsStep, NetSocks, RegInv
  <2>6. DroppingStep
    BY <1>0, <1>1, <1>2, Zenon DEF DroppingStep, NetSocks, DropInv
  <2>. QED
    BY <1>0, <2>2, <2>3, <2>4, <2>5, <2>6, SocksStep, ZenonT(60)
<1>6. TaskTypes'
  BY <1>0, <1>1, Zenon DEF TaskTypes
<1>7. ASSUME NEW u \in NetTasks
      PROVE  TaskOK(u)'
  <2>0. TaskOK(u) /\ "w" \in Dirs
    BY <1>0, Zenon DEF Dirs, READABLE, WRITABLE
  <2>1. \A f \in Fds : \A e \in Dirs : Holds(f, e, u) => Holds(f, e, u)'
    BY <1>0, HoldsNotified, Zenon
  <2>2. ASSUME Connecting(u)
        PROVE  /\ socks'[op[u].fd].kind = "connecting"
               /\ \A v \in NetTasks : op[v].fd = op[u].fd => v = u
               /\ u \notin due \/ socks'[op[u].fd].conn = "pending" => Holds(op[u].fd, "w", u)'
    <3>1. op[u].fd \in Fds
      BY <2>0, <2>2, Zenon DEF TaskOK, Connecting
    <3>2. /\ socks[op[u].fd].kind = "connecting"
          /\ \A v \in NetTasks : op[v].fd = op[u].fd => v = u
          /\ u \notin due \/ socks[op[u].fd].conn = "pending" => Holds(op[u].fd, "w", u)
      BY <2>0, <2>2, Zenon DEF TaskOK
    <3>3. socks'[op[u].fd].conn = "pending" => socks[op[u].fd].conn = "pending"
      BY <3>1, Zenon
    <3>4. Holds(op[u].fd, "w", u) => Holds(op[u].fd, "w", u)'
      <4>. DEFINE f == op[u].fd
      <4>1. op'[u].fd = f
        BY <1>1, Zenon
      <4>2. PICK c \in Fds : c = f
        BY <3>1, Zenon
      <4>3. Holds(c, "w", u) => Holds(c, "w", u)'
        BY <2>0, <2>1, <4>2, Zenon
      <4>. QED
        BY <4>1, <4>2, <4>3, Zenon
    <3>. QED
      BY <3>1, <3>2, <3>3, <3>4, Zenon
  <2>3. ASSUME NEW f \in Fds, NEW e \in Dirs, <<e, u>> \in newest[f]
        PROVE  /\ op[u].k \in DOMAIN Direction /\ Direction[op[u].k] = e /\ op[u].fd = f
               /\ u \notin due => Holds(f, e, u)'
    BY <2>0, <2>1, <2>3, Zenon DEF TaskOK
  <2>4. Connecting(u)' <=> Connecting(u)
    BY <1>1, Zenon DEF Connecting
  <2>. QED
    BY <1>1, <2>0, <2>2, <2>3, <2>4, ZenonT(60) DEF TaskOK
<1>. QED
  BY <1>5, <1>6, <1>7, Zenon DEF NetIInv

LEMMA ArriveStep ==
    ASSUME NetIInv, NEW g \in Fds, NEW d \in Dirs, arrive(g, d)
    PROVE  NetIInv'
<1>1. NetTypes /\ SockInv /\ Notify(g, d) /\ socks' = socks /\ socks[g].kind \in {"listener", "tcp", "udp"}
  BY Zenon DEF NetIInv, NetSocks, arrive
<1>2. socks[g].conn # "pending"
  BY <1>1, Zenon DEF SockInv
<1>. QED
  BY <1>1, <1>2, NotifyStep, Zenon DEF NetTypes

LEMMA ConnectEndsStep ==
    ASSUME NetIInv, NEW g \in Fds, connect_ends(g)
    PROVE  NetIInv'
<1>1. NetTypes /\ Notify(g, "w") /\ socks[g].conn = "pending" /\ "w" \in Dirs
  BY Zenon DEF NetIInv, NetSocks, connect_ends, Dirs, READABLE, WRITABLE
<1>2. PICK how \in {"ok", "refused"} : socks' = [socks EXCEPT ![g].conn = how]
  BY Zenon DEF connect_ends
<1>. DEFINE s == [kind |-> socks[g].kind, token |-> socks[g].token, conn |-> how]
<1>3. s \in Socks /\ [socks[g] EXCEPT !.conn = how] = s
  BY <1>1, <1>2 DEF NetTypes, Socks
<1>4. s.kind = socks[g].kind /\ s.token = socks[g].token /\ s.conn \in {"ok", "refused"}
  BY <1>2, Zenon
<1>. HIDE DEF s
<1>5. socks' = [socks EXCEPT ![g] = s]
  BY <1>2, <1>3, Zenon
<1>6. socks' \in [Fds -> Socks] /\ socks'[g] = s /\ \A f \in Fds \ {g} : socks'[f] = socks[f]
  BY <1>1, <1>3, <1>5, Zenon DEF NetTypes
<1>. QED
  BY <1>1, <1>4, <1>6, NotifyStep, ZenonT(60)

\* A poll of the reactor leaves a waiting task armed, or its socket is ready and it is scheduled.
LEMMA HoldsPolled ==
    ASSUME NetSocks, NEW th \in Threads, park(th), NEW f \in Fds, NEW e \in Dirs, NEW t, Holds(f, e, t)
    PROVE  (e \in ready[f] /\ t \in due') \/ Holds(f, e, t)'
<1>. DEFINE k == socks[f].token
            res == poll(backend, reactors[th], ready)
<1>0. NetTypes /\ UNCHANGED <<backend, ready, socks>> /\ due' = due \cup res.woken
      /\ \A q \in Threads : reactors'[q] = IF q = th THEN res.r ELSE reactors[q]
  BY Zenon DEF NetSocks, NetTypes, park
<1>1. PICK q \in Threads : /\ Waits(backend, reactors[q], f, e, k, t)
                           /\ e \in ready[f] => e \in reactors[q].reg[f].active
  BY HoldsWaits, Zenon
<1>2. CASE q # th
  BY <1>0, <1>1, <1>2, Zenon DEF Holds, Armed, Waits, WakerOf
<1>3. CASE q = th
  <2>1. \A g \in DOMAIN reactors[th].reg : reactors[th].reg[g].token = k => g = f
    BY Zenon DEF NetSocks, RegInv
  <2>2. backend \in Backends /\ ReactorOK(reactors[th])
    BY <1>0, ZenonT(60) DEF NetTypes
  <2>. HIDE DEF k
  <2>3. IF e \in ready[f] THEN t \in res.woken ELSE Waits(backend, res.r, f, e, k, t)
    BY <1>1, <1>3, <2>1, <2>2, Poll, SMTT(60)
  <2>. HIDE DEF res
  <2>4. CASE e \in ready[f]
    BY <1>0, <2>3, <2>4, Zenon
  <2>5. CASE e \notin ready[f]
    BY <1>0, <2>3, <2>5, Zenon DEF Holds, Armed, Waits, WakerOf, k
  <2>. QED
    BY <2>4, <2>5, Zenon
<1>. QED
  BY <1>2, <1>3, Zenon

LEMMA ParkStep ==
    ASSUME NetIInv, NEW th \in Threads, park(th)
    PROVE  NetIInv'
<1>. DEFINE res == poll(backend, reactors[th], ready)
<1>0. NetSocks /\ NetTypes /\ TaskTypes /\ \A u \in NetTasks : TaskOK(u)
  BY Zenon DEF NetIInv, NetSocks
<1>1. UNCHANGED <<backend, ready, socks, op, next_tok, dropping, newest>> /\ due' = due \cup res.woken
      /\ reactors' = [reactors EXCEPT ![th] = res.r]
  BY ZenonT(60) DEF park
<1>2. ReactorOK(res.r) /\ DOMAIN res.r.reg = DOMAIN reactors[th].reg
      /\ \A g \in DOMAIN reactors[th].reg : res.r.reg[g].token = reactors[th].reg[g].token
  BY <1>0, Poll, SMTT(60) DEF NetTypes
<1>. HIDE DEF res
<1>3. reactors' = [q \in Threads |-> reactors'[q]]
      /\ \A q \in Threads : reactors'[q] = IF q = th THEN res.r ELSE reactors[q]
  BY <1>0, <1>1, Zenon DEF NetTypes
<1>4. NetSocks'
  <2>1. NetTypes'
    BY <1>0, <1>1, <1>2, <1>3, Zenon DEF NetTypes
  <2>2. SockInv'
    BY <1>0, <1>1, Zenon DEF NetSocks, SockInv
  <2>3. \A q \in Threads : /\ DOMAIN reactors'[q].reg = DOMAIN reactors[q].reg
                           /\ \A g \in DOMAIN reactors[q].reg :
                                reactors'[q].reg[g].token = reactors[q].reg[g].token
    BY <1>2, <1>3, ZenonT(60)
  <2>4. RegInv'
    BY <1>0, <1>1, <2>3, SMTT(60) DEF NetSocks, RegInv
  <2>5. DropInv'
    BY <1>0, <1>1, <2>3, ZenonT(60) DEF NetSocks, DropInv
  <2>. QED
    BY <2>1, <2>2, <2>4, <2>5, Zenon DEF NetSocks
<1>5. TaskTypes'
  BY <1>0, <1>1, Zenon DEF TaskTypes
<1>6. ASSUME NEW u \in NetTasks
      PROVE  TaskOK(u)'
  <2>0. TaskOK(u) /\ "w" \in Dirs /\ (u \in due => u \in due')
    BY <1>0, <1>1, Zenon DEF Dirs, READABLE, WRITABLE
  <2>1. \A f \in Fds : \A e \in Dirs : Holds(f, e, u) =>
          (e \in ready[f] /\ u \in due') \/ Holds(f, e, u)'
    BY <1>0, HoldsPolled, Zenon
  <2>2. ASSUME NEW c \in Fds, c = op[u].fd, Connecting(u),
               u \notin due' \/ socks[c].conn = "pending"
        PROVE  Holds(c, "w", u)'
    <3>1. Holds(c, "w", u)
      BY <2>0, <2>2, Zenon DEF TaskOK
    <3>2. socks[c].conn = "pending" => ready[c] = {}
      BY <1>0, Zenon DEF NetSocks, SockInv
    <3>. QED
      BY <2>0, <2>1, <2>2, <3>1, <3>2, ZenonT(60)
  <2>3. ASSUME NEW f \in Fds, NEW e \in Dirs, <<e, u>> \in newest[f]
        PROVE  /\ op[u].k \in DOMAIN Direction /\ Direction[op[u].k] = e /\ op[u].fd = f
               /\ u \notin due' => Holds(f, e, u)'
    BY <2>0, <2>1, <2>3, Zenon DEF TaskOK
  <2>4. Connecting(u) => op[u].fd \in Fds
    BY <2>0, Zenon DEF TaskOK, Connecting
  <2>5. Connecting(u)' <=> Connecting(u)
    BY <1>1, Zenon DEF Connecting
  <2>. QED
    BY <1>1, <2>0, <2>2, <2>3, <2>4, <2>5, ZenonT(60) DEF TaskOK
<1>. QED
  BY <1>4, <1>5, <1>6, Zenon DEF NetIInv

-----------------------------------------------------------------------------
(* The theorems.                                                              *)

LEMMA NetInitial == NetInit => NetIInv
<1>. SUFFICES ASSUME NetInit PROVE NetIInv
  BY Zenon
<1>1. ReactorOK(new_reactor) /\ DOMAIN new_reactor.reg = {}
  BY DEF new_reactor, ReactorOK
<1>2. NoSock \in Socks /\ NoSock.token = 0 /\ NoSock.kind = "free" /\ NoSock.conn = "none"
  BY Zenon DEF NoSock, Socks
<1>3. NetTypes
  BY <1>1, <1>2, SMTT(60) DEF NetInit, NetTypes
<1>4. SockInv
  BY <1>2, SMTT(60) DEF NetInit, SockInv, Kinds
<1>5. RegInv /\ DropInv
  BY <1>1, Zenon DEF NetInit, RegInv, DropInv
<1>6. TaskTypes
  BY Zenon DEF NetInit, TaskTypes, NoOp
<1>7. \A t \in NetTasks : TaskOK(t)
  BY Zenon DEF NetInit, TaskOK, NoOp, Connecting, Direction
<1>. QED
  BY <1>3, <1>4, <1>5, <1>6, <1>7, Zenon DEF NetIInv, NetSocks

LEMMA NetInductive == NetIInv /\ [NetNext]_netVars => NetIInv'
<1>. SUFFICES ASSUME NetIInv, [NetNext]_netVars PROVE NetIInv'
  BY Zenon
<1>1. CASE UNCHANGED netVars
  <2>. USE DEF netVars
  <2>1. NetSocks' /\ \A f : SocketKept(f)
    BY <1>1, SameSocks, Zenon DEF NetIInv
  <2>2. \A u \in NetTasks : SameTask(u)
    BY <1>1, Zenon DEF NetIInv, SameTask, TaskOK, Connecting
  <2>3. \A u \in NetTasks : TaskOK(u)'
    BY <1>1, <2>1, <2>2, TaskKept, Zenon DEF NetIInv
  <2>. QED
    BY <1>1, <2>1, <2>3, ZenonT(60) DEF NetIInv, TaskTypes
<1>2. "listener" \in Kinds /\ "udp" \in Kinds /\ "tcp" \in Kinds
  BY Zenon DEF Kinds
<1>3. \A k \in {"accept", "recv_from", "send_to", "read", "write"} : k \in DOMAIN Direction
  BY Zenon DEF Direction
<1>4. ASSUME NEW th \in Threads, bind_listener(th) \/ bind_udp(th) PROVE NetIInv'
  BY <1>2, <1>4, BindStep, Zenon DEF bind_listener, bind_udp
<1>5. ASSUME NEW th \in Threads, NEW fd \in Fds,
             drop_listener(th, fd) \/ drop_stream(th, fd) \/ drop_udp(th, fd)
      PROVE  NetIInv'
  BY <1>2, <1>5, DropSocketStep, Zenon DEF drop_listener, drop_stream, drop_udp
<1>6. ASSUME NEW th \in Threads, drop_source(th) \/ park(th) PROVE NetIInv'
  BY <1>6, DropSourceStep, ParkStep, Zenon
<1>7. ASSUME NEW th \in Threads, NEW t \in NetTasks, poll_task(t, th) PROVE NetIInv'
  <2>1. CASE poll_read(t, th) \/ poll_write(t, th) \/ poll_recv_from(t, th) \/ poll_send_to(t, th)
    BY <1>3, <2>1, PollIoStep, Zenon DEF poll_read, poll_write, poll_recv_from, poll_send_to
  <2>2. CASE poll_accept(t, th) \/ poll_connect_init(t, th) \/ poll_connect(t, th)
    BY <2>2, PollAcceptStep, PollConnectInitStep, PollConnectStep, Zenon
  <2>. QED
    BY <1>7, <2>1, <2>2, Zenon DEF poll_task
<1>8. ASSUME NEW th \in Threads, NEW t \in NetTasks, drop_op(t, th) \/ drop_connect(t, th)
      PROVE  NetIInv'
  BY <1>8, DropOpStep, DropConnectStep, Zenon
<1>9. ASSUME NEW t \in NetTasks, accept(t) \/ recv_from(t) \/ send_to(t) \/ \E k \in {"read", "write"} : start(t, k)
      PROVE  NetIInv'
  BY <1>3, <1>9, StartStep, SMTT(60) DEF accept, recv_from, send_to
<1>10. ASSUME NEW t \in NetTasks, connect(t) \/ wake_other(t) PROVE NetIInv'
  BY <1>10, ConnectStep, WakeStep, Zenon
<1>11. ASSUME NEW fd \in Fds, (\E d \in Dirs : arrive(fd, d)) \/ connect_ends(fd) PROVE NetIInv'
  BY <1>11, ArriveStep, ConnectEndsStep, Zenon
<1>. QED
  BY <1>1, <1>4, <1>5, <1>6, <1>7, <1>8, <1>9, <1>10, <1>11, ZenonT(60) DEF NetNext

\* The invariant of the sockets, the reactors of all threads and the tasks that wait on them:
\* fds and tokens, late IoSource::drops included, never point at another socket's registration,
\* and whoever armed a socket last is still armed, with either backend.
THEOREM NetInvariant == NetSpec => []NetIInv
<1>. QED
  BY NetInitial, NetInductive, PTL DEF NetSpec

\* For any number of threads, tasks and fds: a task that waits for a socket, and was the last to
\* arm it, or whose connect is in progress, will be woken by some thread's reactor.
THEOREM NetWaiterArmed == NetSpec => []WaiterArmed
<1>1. NetIInv => WaiterArmed
  <2>. SUFFICES ASSUME NetIInv, NEW t \in NetTasks \ due
                PROVE  /\ \A fd \in Fds : \A d \in Dirs :
                            <<d, t>> \in newest[fd] => \E th \in Threads : Armed(reactors[th], fd, d, t)
                       /\ (op[t].k = "connect" /\ op[t].fd # 0)
                            => \E th \in Threads : Armed(reactors[th], op[t].fd, "w", t)
    BY Zenon DEF WaiterArmed
  <2>1. TaskOK(t)
    BY Zenon DEF NetIInv
  <2>. QED
    BY <2>1, Zenon DEF TaskOK, Connecting, Holds
<1>. QED
  BY <1>1, NetInvariant, PTL
=============================================================================
