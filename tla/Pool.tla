-------------------------------- MODULE Pool --------------------------------
(***************************************************************************)
(* moduvex-db: ConnectionPool and its health monitor.  Connections are      *)
(* counted, not named: the pool's promises are about how many there are.    *)
(* Each critical section of the pool's async Mutex is a step; between two   *)
(* of them other tasks run.  Ages are not modelled: whether an idle         *)
(* connection is past idle_timeout or max_lifetime is a choice, and so is   *)
(* the outcome of opening or pinging one.                                   *)
(***************************************************************************)
EXTENDS Naturals, Sequences, FiniteSets

CONSTANTS Clients,      \* tasks that use connections
          Monitor,      \* the health-monitor task
          MaxSize,      \* PoolConfig.max_size
          MinIdle,      \* PoolConfig.min_idle
          MaxAcquires,  \* acquire() calls each client makes
          MaxSweeps,    \* health sweeps
          Opens,        \* what opening a connection may give: TRUE is a connection
          MayDrop       \* acquire futures and connections may be dropped by their task

ASSUME PoolAssumption ==   \* what PoolConfig::validate demands
    /\ MaxSize \in Nat \ {0} /\ MinIdle \in 0..MaxSize
    /\ MaxAcquires \in Nat /\ MaxSweeps \in Nat /\ MayDrop \in BOOLEAN
    /\ Opens \subseteq BOOLEAN /\ Opens # {}
    /\ Monitor \notin Clients /\ IsFiniteSet(Clients)

VARIABLES
    idle,          \* PoolInner.idle.len()
    live,          \* PoolInner.live
    closed,        \* PoolInner.closed
    waiters,       \* PoolInner.waiters: whose wakers they are
    pc,            \* where each task is in acquire(), or that it uses a connection
    acquires,      \* acquire() calls begun
    late,          \* the deadline of the current acquire() has passed
    woken,         \* the task was woken since it began to wait
    unregistered,  \* wait_for_release helpers that have not pushed their waker yet
    asleep,        \* helpers of the current acquire() in their sleep(timeout)
    old,           \* helpers of earlier acquire() calls still in theirs
    sweep,         \* run_health_sweep's step
    sweeps,        \* sweeps begun
    to_check,      \* connections the sweep took out and has not looked at
    survivors,     \* connections that passed its check
    seen_idle,     \* current_idle
    needed,        \* acquire/release rounds left in the sweep's last step
    lost           \* slots still counted in live whose connection was dropped elsewhere

Procs     == Clients \cup {Monitor}
waitVars  == <<waiters, late, woken, unregistered, asleep, old>>
sweepVars == <<sweep, sweeps, to_check, survivors, seen_idle, needed>>
vars      == <<idle, live, closed, pc, acquires, waitVars, sweepVars, lost>>

TypeOK ==
    /\ idle \in 0..MaxSize /\ live \in 0..MaxSize /\ lost \in 0..MaxSize
    /\ closed \in BOOLEAN
    /\ waiters \in Seq(Procs)
    /\ pc \in [Procs -> {"off", "try", "opening", "failed", "full", "waiting", "using"}]
    /\ acquires \in [Procs -> Nat]
    /\ late \in [Procs -> BOOLEAN] /\ woken \in [Procs -> BOOLEAN]
    /\ unregistered \in [Procs -> Nat] /\ asleep \in [Procs -> Nat] /\ old \in [Procs -> Nat]
    /\ sweep \in {"off", "drain", "check", "count_idle", "count_live", "grow", "stopped"}
    /\ sweeps \in 0..MaxSweeps
    /\ to_check \in 0..MaxSize /\ survivors \in 0..MaxSize
    /\ seen_idle \in 0..MaxSize /\ needed \in 0..MinIdle

Init ==
    /\ idle = 0 /\ live = 0 /\ lost = 0 /\ closed = FALSE /\ waiters = <<>>
    /\ pc = [p \in Procs |-> "off"]
    /\ acquires = [p \in Procs |-> 0]
    /\ late = [p \in Procs |-> FALSE] /\ woken = [p \in Procs |-> FALSE]
    /\ unregistered = [p \in Procs |-> 0]
    /\ asleep = [p \in Procs |-> 0] /\ old = [p \in Procs |-> 0]
    /\ sweep = "off" /\ sweeps = 0 /\ to_check = 0 /\ survivors = 0
    /\ seen_idle = 0 /\ needed = 0

Minus1(n)  == IF n = 0 THEN 0 ELSE n - 1     \* saturating_sub(1)
Least(m, n) == IF m < n THEN m ELSE n
Goto(p, l) == pc' = [pc EXCEPT ![p] = l]

\* how acquire() and release() end when the sweep called them
round_done(p, ok) ==
    needed' = IF p # Monitor THEN needed ELSE IF ok THEN Minus1(needed) ELSE 0

-----------------------------------------------------------------------------
(* acquire                                                                   *)

acquire(p) ==
    /\ pc[p] = "off"
    /\ IF p = Monitor THEN sweep = "grow" /\ needed > 0 ELSE acquires[p] < MaxAcquires
    /\ Goto(p, "try")
    /\ acquires' = [acquires EXCEPT ![p] = @ + 1]
    /\ late' = [late EXCEPT ![p] = FALSE]
    /\ asleep' = [asleep EXCEPT ![p] = 0]
    /\ old' = [old EXCEPT ![p] = @ + asleep[p]]
    /\ UNCHANGED <<idle, live, closed, waiters, woken, unregistered, sweepVars, lost>>

acquire_closed(p) ==
    /\ pc[p] = "try" /\ closed
    /\ Goto(p, "off") /\ round_done(p, FALSE)
    /\ UNCHANGED <<idle, live, closed, acquires, waitVars, lost,
                   sweep, sweeps, to_check, survivors, seen_idle>>

\* pop_back, too old: dropped, and the loop goes round
acquire_evict(p) ==
    /\ pc[p] = "try" /\ ~closed /\ idle > 0
    /\ idle' = idle - 1 /\ live' = Minus1(live)
    /\ UNCHANGED <<closed, pc, acquires, waitVars, sweepVars, lost>>

acquire_idle(p) ==
    /\ pc[p] = "try" /\ ~closed /\ idle > 0
    /\ idle' = idle - 1 /\ Goto(p, "using")
    /\ UNCHANGED <<live, closed, acquires, waitVars, sweepVars, lost>>

acquire_reserve(p) ==
    /\ pc[p] = "try" /\ ~closed /\ idle = 0 /\ live < MaxSize
    /\ live' = live + 1 /\ Goto(p, "opening")
    /\ UNCHANGED <<idle, closed, acquires, waitVars, sweepVars, lost>>

acquire_full(p) ==
    /\ pc[p] = "try" /\ ~closed /\ idle = 0 /\ live >= MaxSize
    /\ Goto(p, "full")
    /\ UNCHANGED <<idle, live, closed, acquires, waitVars, sweepVars, lost>>

\* open_connection
open_connection(p) ==
    /\ pc[p] = "opening"
    /\ \E ok \in Opens : Goto(p, IF ok THEN "using" ELSE "failed")
    /\ UNCHANGED <<idle, live, closed, acquires, waitVars, sweepVars, lost>>

\* the reserved slot is given back; nobody is woken
give_back(p) ==
    /\ pc[p] = "failed"
    /\ live' = live - 1 /\ Goto(p, "off") /\ round_done(p, FALSE)
    /\ UNCHANGED <<idle, closed, acquires, waitVars, lost,
                   sweep, sweeps, to_check, survivors, seen_idle>>

acquire_timeout(p) ==
    /\ pc[p] = "full" /\ late[p]
    /\ Goto(p, "off") /\ round_done(p, FALSE)
    /\ UNCHANGED <<idle, live, closed, acquires, waitVars, lost,
                   sweep, sweeps, to_check, survivors, seen_idle>>

-----------------------------------------------------------------------------
(* wait_for_release                                                          *)

\* poll_fn's first poll: the helper task is spawned with this task's waker
wait_for_release(p) ==
    /\ pc[p] = "full" /\ ~late[p]
    /\ Goto(p, "waiting")
    /\ woken' = [woken EXCEPT ![p] = FALSE]
    /\ unregistered' = [unregistered EXCEPT ![p] = @ + 1]
    /\ UNCHANGED <<idle, live, closed, acquires, waiters, late, asleep, old, sweepVars, lost>>

\* variant: no timeout behind the waker
register_NoTimeout(p) ==
    /\ unregistered[p] > 0
    /\ unregistered' = [unregistered EXCEPT ![p] = @ - 1]
    /\ waiters' = Append(waiters, p)
    /\ UNCHANGED <<idle, live, closed, pc, acquires, late, woken, asleep, old, sweepVars, lost>>

\* the helper gets the lock, pushes the waker and goes to sleep
register(p) ==
    /\ unregistered[p] > 0
    /\ unregistered' = [unregistered EXCEPT ![p] = @ - 1]
    /\ waiters' = Append(waiters, p)
    /\ asleep' = [asleep EXCEPT ![p] = @ + 1]
    /\ UNCHANGED <<idle, live, closed, pc, acquires, late, woken, old, sweepVars, lost>>

deadline(p) ==
    /\ pc[p] # "off" /\ ~late[p]
    /\ late' = [late EXCEPT ![p] = TRUE]
    /\ UNCHANGED <<idle, live, closed, pc, acquires, waiters, woken, unregistered, asleep, old,
                   sweepVars, lost>>

\* the helper's sleep is over; its waker stays in waiters
sleep_over(p) ==
    /\ \/ asleep[p] > 0 /\ late[p] /\ asleep' = [asleep EXCEPT ![p] = @ - 1] /\ UNCHANGED old
       \/ old[p] > 0 /\ old' = [old EXCEPT ![p] = @ - 1] /\ UNCHANGED asleep
    /\ woken' = [woken EXCEPT ![p] = TRUE]
    /\ UNCHANGED <<idle, live, closed, pc, acquires, waiters, late, unregistered, sweepVars, lost>>

\* poll_fn's second poll: back to the top of acquire's loop
wait_over(p) ==
    /\ pc[p] = "waiting" /\ woken[p]
    /\ Goto(p, "try")
    /\ UNCHANGED <<idle, live, closed, acquires, waitVars, sweepVars, lost>>

-----------------------------------------------------------------------------
(* release, close, and connections that never come back                      *)

release(p) ==
    /\ pc[p] = "using"
    /\ Goto(p, "off") /\ round_done(p, TRUE)
    /\ IF closed \/ idle >= MaxSize
       THEN live' = Minus1(live) /\ UNCHANGED <<idle, waiters, woken>>
       ELSE /\ idle' = idle + 1
            /\ IF waiters # <<>>
               THEN /\ waiters' = SubSeq(waiters, 1, Len(waiters) - 1)
                    /\ woken' = [woken EXCEPT ![waiters[Len(waiters)]] = TRUE]
               ELSE UNCHANGED <<waiters, woken>>
            /\ UNCHANGED live
    /\ UNCHANGED <<closed, acquires, late, unregistered, asleep, old, lost,
                   sweep, sweeps, to_check, survivors, seen_idle>>

\* variant: live is zeroed
close_Zeroes ==
    /\ closed' = TRUE
    /\ idle' = 0 /\ live' = 0
    /\ waiters' = <<>>
    /\ woken' = [p \in Procs |-> woken[p] \/ \E i \in 1..Len(waiters) : waiters[i] = p]
    /\ UNCHANGED <<pc, acquires, late, unregistered, asleep, old, sweepVars, lost>>

close ==
    /\ closed' = TRUE
    /\ idle' = 0 /\ live' = IF live < idle THEN 0 ELSE live - idle
    /\ waiters' = <<>>
    /\ woken' = [p \in Procs |-> woken[p] \/ \E i \in 1..Len(waiters) : waiters[i] = p]
    /\ UNCHANGED <<pc, acquires, late, unregistered, asleep, old, sweepVars, lost>>

\* The connection, or the acquire() that has a slot reserved, is dropped: no Drop gives
\* the slot back.  PoolTransactionBoundary does it when BEGIN, COMMIT or ROLLBACK fails.
drop_conn(p) ==
    /\ MayDrop /\ p # Monitor /\ pc[p] \in {"opening", "failed", "using"}
    /\ Goto(p, "off") /\ lost' = lost + 1
    /\ UNCHANGED <<idle, live, closed, acquires, waitVars, sweepVars>>

\* an acquire() that holds nothing is dropped; its helpers live on
drop_acquire(p) ==
    /\ MayDrop /\ p # Monitor /\ pc[p] \in {"try", "full", "waiting"}
    /\ Goto(p, "off")
    /\ UNCHANGED <<idle, live, closed, acquires, waitVars, sweepVars, lost>>

-----------------------------------------------------------------------------
(* spawn_health_monitor and run_health_sweep                                 *)

poolVars == <<closed, pc, acquires, waitVars, lost>>

\* sleep(interval), then stop if the pool is closed
monitor_tick ==
    /\ sweep = "off" /\ sweeps < MaxSweeps
    /\ sweeps' = sweeps + 1
    /\ sweep' = IF closed THEN "stopped" ELSE "drain"
    /\ UNCHANGED <<idle, live, poolVars, to_check, survivors, seen_idle, needed>>

sweep_drain ==
    /\ sweep = "drain"
    /\ sweep' = "check" /\ to_check' = idle /\ idle' = 0
    /\ UNCHANGED <<live, poolVars, sweeps, survivors, seen_idle, needed>>

\* too old, or the ping failed
sweep_evict ==
    /\ sweep = "check" /\ to_check > 0
    /\ to_check' = to_check - 1 /\ live' = Minus1(live)
    /\ UNCHANGED <<idle, poolVars, sweep, sweeps, survivors, seen_idle, needed>>

sweep_keep ==
    /\ sweep = "check" /\ to_check > 0
    /\ to_check' = to_check - 1 /\ survivors' = survivors + 1
    /\ UNCHANGED <<idle, live, poolVars, sweep, sweeps, seen_idle, needed>>

\* step 3: the survivors go back, whatever happened meanwhile, and nobody is woken
sweep_return ==
    /\ sweep = "check" /\ to_check = 0
    /\ sweep' = "count_idle" /\ idle' = idle + survivors /\ survivors' = 0
    /\ UNCHANGED <<live, poolVars, sweeps, to_check, seen_idle, needed>>

\* step 4: idle_count() and live_count() each take the lock
sweep_idle_count ==
    /\ sweep = "count_idle"
    /\ sweep' = "count_live" /\ seen_idle' = idle
    /\ UNCHANGED <<idle, live, poolVars, sweeps, to_check, survivors, needed>>

sweep_live_count ==
    /\ sweep = "count_live"
    /\ sweep' = "grow"
    /\ needed' = IF seen_idle < MinIdle /\ live < MaxSize
                 THEN Least(MinIdle - seen_idle, MaxSize - live) ELSE 0
    /\ UNCHANGED <<idle, live, poolVars, sweeps, to_check, survivors, seen_idle>>

sweep_end ==
    /\ sweep = "grow" /\ needed = 0 /\ pc[Monitor] = "off"
    /\ sweep' = "off"
    /\ UNCHANGED <<idle, live, poolVars, sweeps, to_check, survivors, seen_idle, needed>>

-----------------------------------------------------------------------------

Acquire(p) == acquire(p) \/ acquire_closed(p) \/ acquire_evict(p) \/ acquire_idle(p)
              \/ acquire_reserve(p) \/ acquire_full(p) \/ open_connection(p) \/ give_back(p)
              \/ acquire_timeout(p)
Wait(p)    == wait_for_release(p) \/ register(p) \/ deadline(p) \/ sleep_over(p) \/ wait_over(p)
Use(p)     == release(p) \/ drop_conn(p) \/ drop_acquire(p)
Sweep      == monitor_tick \/ sweep_drain \/ sweep_evict \/ sweep_keep \/ sweep_return
              \/ sweep_idle_count \/ sweep_live_count \/ sweep_end

Next == (\E p \in Procs : Acquire(p) \/ Wait(p) \/ Use(p)) \/ close \/ Sweep

Spec == Init /\ [][Next]_vars

\* Tasks and timers make progress, opening a connection ends, and connections are
\* released; nobody has to close the pool or start an acquire().
FairSpec ==
    /\ Spec
    /\ \A p \in Procs :
          /\ WF_vars(Acquire(p) /\ pc[p] # "off")
          /\ WF_vars(wait_for_release(p) \/ wait_over(p))
          /\ WF_vars(register(p)) /\ WF_vars(deadline(p)) /\ WF_vars(sleep_over(p))
          /\ WF_vars(release(p))
          /\ WF_vars(p = Monitor /\ acquire(p))
    /\ WF_vars(Sweep)

-----------------------------------------------------------------------------

Slots(S) == Cardinality({p \in Procs : pc[p] \in S})

\* live is exact whatever interleaves: it counts the idle connections, the ones in use, the
\* slots reserved for opening, the ones a sweep has taken out and the lost ones.  So no
\* saturating_sub ever saturates and the plain `live -= 1` never underflows.
Accounting ==
    live = idle + Slots({"opening", "failed", "using"}) + to_check + survivors + lost

\* The database never sees more than max_size connections of this pool.
AtMostMaxSize ==
    idle + Slots({"opening", "using"}) + to_check + survivors <= MaxSize

\* Every acquire() returns, with a connection or an error: a waiter that no release()
\* reaches is woken by its own timeout.
AcquireReturns ==
    \A p \in Procs : (pc[p] \notin {"off", "using"}) ~> (pc[p] \in {"off", "using"})
=============================================================================
