------------------------------- MODULE Interval ------------------------------
(***************************************************************************)
(* Interval and its TickFuture.  Time is in units smaller than the period;   *)
(* the timer wheel is represented by whether the future has an entry in it   *)
(* (TimerWheel models when that entry fires).                                *)
(***************************************************************************)
EXTENDS Integers, Sequences

CONSTANTS Period,
          MaxAdvance,  \* u32::MAX
          Horizon      \* bound on the clock

\* Interval::new panics if period is zero
ASSUME IntervalAssumption == Period \in Nat \ {0} /\ MaxAdvance \in Nat \ {0} /\ Horizon \in Nat

VARIABLES clock,
          next_deadline, missed,  \* the Interval
          tick,                   \* its TickFuture: none, or whether it has a timer
          fired                   \* the deadlines that were returned

intervalVars == <<clock, next_deadline, missed, tick, fired>>

\* interval(period), called at time 0
IvInit ==
    /\ clock = 0
    /\ next_deadline = Period /\ missed = 0
    /\ tick = "none"
    /\ fired = <<>>

pass(d) ==
    /\ clock + d <= Horizon
    /\ clock' = clock + d
    /\ UNCHANGED <<next_deadline, missed, tick, fired>>

\* tick(): a future that borrows the interval, so one at a time
new_tick ==
    /\ tick = "none" /\ tick' = "idle"
    /\ UNCHANGED <<clock, next_deadline, missed, fired>>

Least(a, b) == IF a <= b THEN a ELSE b

\* variant: the deadline moves one period, however late the poll is
poll_tick_NoSkip ==
    /\ tick # "none"
    /\ IF clock >= next_deadline
       THEN /\ fired' = Append(fired, next_deadline)
            /\ missed' = missed + (clock - next_deadline) \div Period
            /\ next_deadline' = next_deadline + Period
            /\ tick' = "none"
       ELSE tick' = "timer" /\ UNCHANGED <<next_deadline, missed, fired>>
    /\ UNCHANGED clock

\* TickFuture::poll: late deadlines are skipped and counted; no more than MaxAdvance at once
\* are skipped, all are counted
poll_tick ==
    /\ tick # "none"
    /\ IF clock >= next_deadline
       THEN LET extra == (clock - next_deadline) \div Period IN
            /\ fired' = Append(fired, next_deadline)
            /\ missed' = missed + extra
            /\ next_deadline' = next_deadline + Period * Least(extra + 1, MaxAdvance)
            /\ tick' = "none"
       ELSE tick' = "timer" /\ UNCHANGED <<next_deadline, missed, fired>>
    /\ UNCHANGED clock

\* dropped before it resolved; its timer is cancelled
drop_tick ==
    /\ tick # "none" /\ tick' = "none"
    /\ UNCHANGED <<clock, next_deadline, missed, fired>>

IvNext == (\E d \in 1..(2 * Period) : pass(d)) \/ new_tick \/ poll_tick \/ drop_tick

IvSpec == IvInit /\ [][IvNext]_intervalVars

-----------------------------------------------------------------------------
\* Every deadline up to the next one was either returned by a tick or counted as
\* missed, exactly once, until a poll is more than MaxAdvance periods late; none is returned
\* early or twice, and the deadlines stay multiples of the period however late the polls are
\* (TickFuture::poll).
TicksAccounted ==
    /\ \E n \in 1..(Len(fired) + missed + 1) : next_deadline = n * Period
    /\ missed < MaxAdvance => next_deadline = (Len(fired) + missed + 1) * Period
    /\ \A i \in 1..Len(fired) : fired[i] <= clock
    /\ \A i \in 1..(Len(fired) - 1) : fired[i] < fired[i + 1]
=============================================================================
