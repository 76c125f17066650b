----------------------------- MODULE TimerWheel -----------------------------
(***************************************************************************)
(* The hierarchical timer wheel of one executor thread and the Sleep        *)
(* futures that use it.  Instants are numbers of 1/Res ms since the wheel's *)
(* origin; the wheel itself works in whole milliseconds.  A sleeping task   *)
(* has at most one entry in the wheel; TIMER_WHEEL's index and buckets are  *)
(* modelled together as the place of that entry.                            *)
(***************************************************************************)
EXTENDS Integers

CONSTANTS Sleepers,   \* tasks, each with one Sleep
          SLOTS,      \* slots per level: 64 in the code
          LEVELS,     \* levels: 6 in the code
          Res,        \* instants per millisecond
          Instants    \* the instants at which something happens or is due

ASSUME WheelAssumption ==
    /\ SLOTS \in Nat \ {0} /\ LEVELS \in Nat /\ LEVELS >= 2
    /\ Res \in Nat \ {0} /\ Instants \subseteq Nat /\ 0 \in Instants

VARIABLES
    now,           \* the monotonic clock
    last_tick_ms,  \* TimerWheel.last_tick_ms
    place,         \* <<level, slot>> of each task's entry, or NoPlace
    deadline,      \* Sleep.deadline
    sleep_fut,     \* the Sleep: not made, not polled yet, waiting, resolved or dropped
    sleep_woken    \* the task was woken since its last poll

timerVars == <<now, last_tick_ms, place, deadline, sleep_fut, sleep_woken>>

NoPlace == <<>>

TwTypeOK ==
    /\ now \in Instants /\ last_tick_ms \in Nat
    /\ place \in [Sleepers -> {NoPlace} \cup ((0..(LEVELS - 1)) \X (0..(SLOTS - 1)))]
    /\ deadline \in [Sleepers -> Instants]
    /\ sleep_fut \in [Sleepers -> {"none", "new", "pending", "over"}]
    /\ sleep_woken \in [Sleepers -> BOOLEAN]

TwInit ==
    /\ now = 0 /\ last_tick_ms = 0
    /\ place = [s \in Sleepers |-> NoPlace]
    /\ deadline = [s \in Sleepers |-> 0]
    /\ sleep_fut = [s \in Sleepers |-> "none"]
    /\ sleep_woken = [s \in Sleepers |-> FALSE]

instant_to_ms(i) == i \div Res
Later(a, b) == IF a > b THEN a ELSE b

LEVEL0_MS == 1
slot_width_ms(level) == IF level = 0 THEN LEVEL0_MS ELSE LEVEL0_MS * SLOTS ^ level

\* the distance to the deadline is within the level's range; the last level takes all
fits(delta, level) == delta < slot_width_ms(level) * SLOTS \/ level = LEVELS - 1

\* the first level that fits
level_slot(ms) ==
    LET delta == Later(ms - last_tick_ms, 0)
        level == CHOOSE l \in 0..(LEVELS - 1) : fits(delta, l) /\ \A k \in 0..(l - 1) : ~ fits(delta, k)
    IN  <<level, (ms \div slot_width_ms(level)) % SLOTS>>

\* where insert and insert_raw put an entry due at d
Placed(d) == level_slot(Later(instant_to_ms(d), last_tick_ms))

-----------------------------------------------------------------------------
(* TimerWheel::tick                                                          *)

\* variant: the slot of the current millisecond is left for the next tick
Level0_Exclusive(from, to) ==
    LET a == from % SLOTS  b == to % SLOTS
        slots == IF to - from >= SLOTS THEN 0..(SLOTS - 1)
                 ELSE IF a <= b THEN a..(b - 1)
                 ELSE (a..(SLOTS - 1)) \cup (0..(b - 1))
    IN  {0} \X slots

\* the level-0 slots drained
Level0(from, to) ==
    LET a == from % SLOTS  b == to % SLOTS
        slots == IF to - from >= SLOTS THEN 0..(SLOTS - 1)
                 ELSE IF a <= b THEN a..b
                 ELSE (a..(SLOTS - 1)) \cup (0..b)
    IN  {0} \X slots

\* the slots of a higher level whose boundary lies within [from, to]
Cascade(level, from, to) ==
    LET width == slot_width_ms(level)
        first == (from + width - 1) \div width
    IN  {level} \X {k % SLOTS : k \in first..(to \div width)}

Drained(from, to) == Level0(from, to) \cup UNION {Cascade(l, from, to) : l \in 1..(LEVELS - 1)}

\* drain_slot on the slot of an entry: fired when it is due, else put where it belongs.
\* last_tick_ms does not change during a tick, so an entry that is drained again later in
\* the same tick is put back in the same place.
drain_slot(d, to) == IF instant_to_ms(d) <= to THEN NoPlace ELSE Placed(d)

\* tick(now), and every fired waker is called
wheel_tick ==
    LET from == last_tick_ms
        to   == instant_to_ms(now)
    IN  /\ place' = [s \in Sleepers |-> IF place[s] \in Drained(from, to)
                                        THEN drain_slot(deadline[s], to) ELSE place[s]]
        /\ sleep_woken' = [s \in Sleepers |-> sleep_woken[s] \/ (place[s] # NoPlace /\ place'[s] = NoPlace)]
        /\ last_tick_ms' = to
        /\ UNCHANGED <<now, deadline, sleep_fut>>

-----------------------------------------------------------------------------
(* Sleep                                                                     *)

\* the entry leaves its slot, if it is still in one
cancel_entry(s) == [place EXCEPT ![s] = NoPlace]

\* sleep and sleep_until
sleep(s) ==
    /\ sleep_fut[s] = "none"
    /\ \E d \in Instants : d >= now /\ deadline' = [deadline EXCEPT ![s] = d]
    /\ sleep_fut' = [sleep_fut EXCEPT ![s] = "new"]
    /\ UNCHANGED <<now, last_tick_ms, place, sleep_woken>>

\* Sleep::poll, the deadline has passed: cancel, and Ready
poll_ready(s) ==
    /\ sleep_fut[s] \in {"new", "pending"} /\ now >= deadline[s]
    /\ sleep_fut' = [sleep_fut EXCEPT ![s] = "over"]
    /\ place' = cancel_entry(s)
    /\ sleep_woken' = [sleep_woken EXCEPT ![s] = FALSE]
    /\ UNCHANGED <<now, last_tick_ms, deadline>>

\* Sleep::poll, too early: cancel the old entry and insert a new one
poll_pending(s) ==
    /\ sleep_fut[s] \in {"new", "pending"} /\ now < deadline[s]
    /\ sleep_fut' = [sleep_fut EXCEPT ![s] = "pending"]
    /\ place' = [place EXCEPT ![s] = Placed(deadline[s])]
    /\ sleep_woken' = [sleep_woken EXCEPT ![s] = FALSE]
    /\ UNCHANGED <<now, last_tick_ms, deadline>>

\* Drop for Sleep
sleep_drop(s) ==
    /\ sleep_fut[s] \in {"new", "pending"}
    /\ sleep_fut' = [sleep_fut EXCEPT ![s] = "over"]
    /\ place' = cancel_entry(s)
    /\ sleep_woken' = [sleep_woken EXCEPT ![s] = FALSE]
    /\ UNCHANGED <<now, last_tick_ms, deadline>>

\* the clock
advance ==
    /\ \E i \in Instants : i > now /\ now' = i
    /\ UNCHANGED <<last_tick_ms, place, deadline, sleep_fut, sleep_woken>>

TwNext ==
    \/ wheel_tick \/ advance
    \/ \E s \in Sleepers : sleep(s) \/ poll_ready(s) \/ poll_pending(s) \/ sleep_drop(s)

TwSpec == TwInit /\ [][TwNext]_timerVars

-----------------------------------------------------------------------------

Due(s, ms) == instant_to_ms(deadline[s]) <= ms

\* A sleep that was in level 0 and is due is fired by the tick.
ShortSleepFires ==
    [][last_tick_ms' > last_tick_ms =>
          \A s \in Sleepers :
              (place[s] # NoPlace /\ place[s][1] = 0 /\ Due(s, last_tick_ms')) => sleep_woken'[s]]_timerVars

\* tick fires every entry whose deadline has passed, whatever level it is in.
TickFiresExpired ==
    [][last_tick_ms' > last_tick_ms =>
          \A s \in Sleepers : (place[s] # NoPlace /\ Due(s, last_tick_ms')) => sleep_woken'[s]]_timerVars
=============================================================================
