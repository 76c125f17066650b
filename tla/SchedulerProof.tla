--------------------------- MODULE SchedulerProof ---------------------------
(***************************************************************************)
(* Proofs about what the executors' threads take their work from: the timer *)
(* wheel and the run queues.                                                *)
(***************************************************************************)
EXTENDS TimerWheel, Queues, WellFoundedInduction, SequenceTheorems, TLAPS

-----------------------------------------------------------------------------
(* Indices that go around.                                                    *)

\* A set of natural numbers has a least one.
LEMMA LeastOf ==
    ASSUME NEW T, T \subseteq Nat, T # {}
    PROVE  \E x \in T : \A y \in T : x <= y
<1>. DEFINE R == OpToRel(<, Nat)
<1>1. IsWellFoundedOn(R, Nat)
  BY NatLessThanWellFounded, Zenon
<1>2. \A y, x \in Nat : y < x => <<y, x>> \in R
  BY Zenon DEF OpToRel
<1>. HIDE DEF R
<1>3. PICK x \in T : \A y \in T : ~ (<<y, x>> \in R)
  BY <1>1, WFMin, Zenon
<1>4. ASSUME NEW y \in T PROVE x <= y
  <2>1. x \in Nat /\ y \in Nat
    BY Zenon
  <2>2. ~ y < x
    BY <1>2, <1>3, <2>1, Zenon
  <2>. QED
    BY <2>1, <2>2
<1>. QED
  BY <1>4, Zenon

\* One revolution holds each slot once: between two quotients there is none or one.
LEMMA Revolution ==
    ASSUME NEW S \in Nat, S > 0, NEW a \in Nat, NEW b \in Nat, a <= b, b - a < S
    PROVE  \/ a \div S = b \div S /\ (b % S) - (a % S) = b - a
           \/ b \div S = a \div S + 1 /\ (b % S) - (a % S) = b - a - S
<1>. DEFINE p == a \div S
            q == b \div S
<1>1. p \in Nat /\ a % S \in 0..(S - 1) /\ a = S * p + (a % S)
  OBVIOUS
<1>2. q \in Nat /\ b % S \in 0..(S - 1) /\ b = S * q + (b % S)
  OBVIOUS
<1>3. /\ p \in Nat /\ q \in Nat
      /\ a % S \in 0..(S - 1) /\ b % S \in 0..(S - 1)
      /\ a = S * p + (a % S) /\ b = S * q + (b % S)
  BY <1>1, <1>2, Zenon
<1>. HIDE DEF p, q
<1>4. ASSUME p > q PROVE FALSE
  <2>1. PICK k \in Nat : p = q + 1 + k
    <3>1. p - q - 1 \in Nat /\ p = q + 1 + (p - q - 1)
      BY <1>3, <1>4
    <3>. QED
      BY <3>1, Zenon
  <2>2. S * p = S * q + S + S * k
    BY <1>3, <2>1
  <2>3. S * k \in Nat
    OBVIOUS
  <2>. QED
    BY <1>3, <2>2, <2>3
<1>5. ASSUME q > p + 1 PROVE FALSE
  <2>1. PICK k \in Nat : q = p + 2 + k
    <3>1. q - p - 2 \in Nat /\ q = p + 2 + (q - p - 2)
      BY <1>3, <1>5
    <3>. QED
      BY <3>1, Zenon
  <2>2. S * q = S * p + S + S + S * k
    BY <1>3, <2>1
  <2>3. S * k \in Nat
    OBVIOUS
  <2>. QED
    BY <1>3, <2>2, <2>3
<1>6. p = q \/ q = p + 1
  BY <1>3, <1>4, <1>5
<1>7. CASE p = q
  BY <1>3, <1>7 DEF p, q
<1>8. CASE q = p + 1
  <2>1. S * q = S * p + S
    BY <1>3, <1>8
  <2>. QED
    BY <1>3, <1>8, <2>1 DEF p, q
<1>. QED
  BY <1>6, <1>7, <1>8, Zenon

-----------------------------------------------------------------------------
(***************************************************************************)
(* Timer wheel: for every number of slots, levels and sleepers, and for    *)
(* every clock.                                                            *)
(***************************************************************************)

\* What a deadline is to the wheel: an instant that has passed counts as now.
Effective(s) == Later(instant_to_ms(deadline[s]), last_tick_ms)

WheelTypes ==
    /\ now \in Instants /\ last_tick_ms \in Nat
    /\ place = [s \in Sleepers |-> place[s]]
    /\ deadline \in [Sleepers -> Instants]
    /\ sleep_fut = [s \in Sleepers |-> sleep_fut[s]]
    /\ sleep_woken = [s \in Sleepers |-> sleep_woken[s]]

\* An entry of level 0 is less than a revolution away, in the slot of its millisecond.
Level0Inv ==
    \A s \in Sleepers : (place[s] # NoPlace /\ place[s][1] = 0) =>
        /\ Effective(s) < last_tick_ms + SLOTS
        /\ place[s] = <<0, Effective(s) % SLOTS>>

\* Only a Sleep that is pending has an entry.
EntryInv == \A s \in Sleepers : place[s] # NoPlace => sleep_fut[s] = "pending"

WheelIInv == WheelTypes /\ last_tick_ms <= instant_to_ms(now) /\ EntryInv /\ Level0Inv

\* The clock in milliseconds.
LEMMA Milliseconds ==
    ASSUME NEW a \in Nat PROVE instant_to_ms(a) \in Nat
  BY WheelAssumption DEF instant_to_ms

LEMMA MillisecondsMonotonic ==
    ASSUME NEW a \in Nat, NEW b \in Nat, a <= b
    PROVE  instant_to_ms(a) <= instant_to_ms(b)
<1>. DEFINE p == a \div Res
            q == b \div Res
<1>1. /\ Res \in Nat /\ Res > 0 /\ p \in Nat /\ q \in Nat
      /\ Res * p <= a /\ b < Res * q + Res
  BY WheelAssumption
<1>. HIDE DEF p, q
<1>2. ASSUME p > q PROVE FALSE
  <2>1. PICK k \in Nat : p = q + 1 + k
    <3>1. p - q - 1 \in Nat /\ p = q + 1 + (p - q - 1)
      BY <1>1, <1>2
    <3>. QED
      BY <3>1, Zenon
  <2>2. Res * p = Res * q + Res + Res * k
    BY <1>1, <2>1
  <2>3. Res * k \in Nat
    BY <1>1
  <2>. QED
    BY <1>1, <2>2, <2>3
<1>. QED
  BY <1>1, <1>2 DEF p, q, instant_to_ms

\* level_slot chooses level 0 only within a revolution of level 0.
LEMMA PlacedLevel0 ==
    ASSUME NEW d \in Nat, last_tick_ms \in Nat
    PROVE  LET ms == Later(instant_to_ms(d), last_tick_ms)
           IN  /\ Placed(d) # NoPlace
               /\ Placed(d)[1] = 0 => ms < last_tick_ms + SLOTS /\ Placed(d) = <<0, ms % SLOTS>>
<1>. DEFINE ms == Later(instant_to_ms(d), last_tick_ms)
            delta == Later(ms - last_tick_ms, 0)
            Fits(l) == fits(delta, l) /\ \A k \in 0..(l - 1) : ~ fits(delta, k)
            level == CHOOSE l \in 0..(LEVELS - 1) : Fits(l)
            T == {l \in 0..(LEVELS - 1) : fits(delta, l)}
<1>1. ms \in Nat /\ ms >= last_tick_ms /\ delta = ms - last_tick_ms
  BY Milliseconds DEF Later
<1>2. Placed(d) = <<level, (ms \div slot_width_ms(level)) % SLOTS>>
  BY Zenon DEF Placed, level_slot
<1>. HIDE DEF ms, delta
<1>3. \E l \in 0..(LEVELS - 1) : Fits(l)
  <2>1. T \subseteq Nat /\ LEVELS - 1 \in T
    BY WheelAssumption DEF fits
  <2>2. PICK l \in T : \A k \in T : l <= k
    BY <2>1, LeastOf, Zenon
  <2>3. ASSUME NEW k \in 0..(l - 1) PROVE ~ fits(delta, k)
    BY <2>2, WheelAssumption
  <2>. QED
    BY <2>2, <2>3, Zenon
<1>. HIDE DEF Fits
<1>4. level \in 0..(LEVELS - 1) /\ Fits(level)
  BY <1>3, Zenon
<1>. HIDE DEF level
<1>5. ASSUME level = 0 PROVE ms < last_tick_ms + SLOTS /\ (ms \div slot_width_ms(level)) % SLOTS = ms % SLOTS
  <2>1. fits(delta, 0)
    BY <1>4, <1>5, Zenon DEF Fits
  <2>2. delta < SLOTS
    BY <2>1, WheelAssumption DEF fits, slot_width_ms, LEVEL0_MS
  <2>3. ms \div slot_width_ms(level) = ms
    BY <1>1, <1>5 DEF slot_width_ms, LEVEL0_MS
  <2>. QED
    BY <1>1, <2>2, <2>3, WheelAssumption
<1>. QED
  BY <1>2, <1>5 DEF ms, NoPlace

\* A tick drains the level-0 slot of every millisecond from the last tick to this one.
LEMMA SlotDrained ==
    ASSUME NEW from \in Nat, NEW to \in Nat, NEW ms \in Nat, from <= ms, ms <= to
    PROVE  <<0, ms % SLOTS>> \in Level0(from, to)
<1>. DEFINE a == from % SLOTS
            b == to % SLOTS
            m == ms % SLOTS
<1>1. SLOTS \in Nat /\ SLOTS > 0
  BY WheelAssumption
<1>2. a \in 0..(SLOTS - 1) /\ b \in 0..(SLOTS - 1) /\ m \in 0..(SLOTS - 1)
  BY <1>1
<1>3. CASE to - from >= SLOTS
  BY <1>2, <1>3, Zenon DEF Level0
<1>4. CASE to - from < SLOTS
  <2>1. \/ from \div SLOTS = to \div SLOTS /\ b - a = to - from
        \/ to \div SLOTS = from \div SLOTS + 1 /\ b - a = to - from - SLOTS
    BY <1>1, <1>4, Revolution
  <2>2. \/ from \div SLOTS = ms \div SLOTS /\ m - a = ms - from
        \/ ms \div SLOTS = from \div SLOTS + 1 /\ m - a = ms - from - SLOTS
    BY <1>1, <1>4, Revolution
  <2>. HIDE DEF a, b, m
  <2>3. \/ a <= b /\ m \in a..b
        \/ b < a /\ m \in (a..(SLOTS - 1)) \cup (0..b)
    BY <1>1, <1>2, <1>4, <2>1, <2>2
  <2>. QED
    BY <1>1, <1>2, <1>4, <2>3 DEF Level0, a, b, m
<1>. QED
  BY <1>1, <1>3, <1>4

LEMMA WheelInitial == TwInit => WheelIInv
<1>. SUFFICES ASSUME TwInit PROVE WheelIInv
  BY Zenon
<1>1. WheelTypes
  BY WheelAssumption, Zenon DEF TwInit, WheelTypes
<1>2. last_tick_ms <= instant_to_ms(now)
  BY WheelAssumption DEF TwInit, instant_to_ms
<1>3. EntryInv /\ Level0Inv
  BY Zenon DEF TwInit, EntryInv, Level0Inv
<1>. QED
  BY <1>1, <1>2, <1>3, Zenon DEF WheelIInv

\* What is due and in level 0 is drained; what is in level 0 and not drained is later.
LEMMA TickDrains ==
    ASSUME WheelIInv, wheel_tick, NEW s \in Sleepers, place[s] # NoPlace, place[s][1] = 0
    PROVE  \/ place[s] \in Drained(last_tick_ms, last_tick_ms')
           \/ instant_to_ms(deadline[s]) > last_tick_ms'
<1>. DEFINE from == last_tick_ms
            to == last_tick_ms'
            D == instant_to_ms(deadline[s])
            ms == Later(D, from)
<1>1. from \in Nat /\ deadline[s] \in Nat /\ now \in Nat /\ from <= instant_to_ms(now)
  BY WheelAssumption, Zenon DEF WheelIInv, WheelTypes
<1>2. to = instant_to_ms(now) /\ to \in Nat /\ from <= to
  BY <1>1, Milliseconds, Zenon DEF wheel_tick
<1>3. D \in Nat
  BY <1>1, Milliseconds, Zenon
<1>4. place[s] = <<0, ms % SLOTS>>
  BY Zenon DEF WheelIInv, Level0Inv, Effective
<1>. HIDE DEF from, to, D
<1>5. ASSUME D <= to PROVE <<0, ms % SLOTS>> \in Level0(from, to)
  <2>1. ms \in Nat /\ from <= ms /\ ms <= to
    BY <1>1, <1>2, <1>3, <1>5 DEF Later, from
  <2>. QED
    BY <1>1, <1>2, <2>1, SlotDrained, Zenon DEF from
<1>6. D <= to \/ D > to
  BY <1>2, <1>3
<1>. QED
  BY <1>4, <1>5, <1>6, Zenon DEF Drained, from, to, D

LEMMA TickStep == WheelIInv /\ wheel_tick => WheelIInv'
<1>. SUFFICES ASSUME WheelIInv, wheel_tick PROVE WheelIInv'
  BY Zenon
<1>. DEFINE from == last_tick_ms
            to == last_tick_ms'
<1>1. from \in Nat /\ now \in Nat /\ from <= instant_to_ms(now)
  BY WheelAssumption, Zenon DEF WheelIInv, WheelTypes
<1>2. to = instant_to_ms(now) /\ to \in Nat /\ from <= to /\ now' = now /\ deadline' = deadline
  BY <1>1, Milliseconds, Zenon DEF wheel_tick
<1>3. WheelTypes'
  BY <1>2, Zenon DEF WheelIInv, WheelTypes, wheel_tick
<1>4. to <= instant_to_ms(now')
  BY <1>2
<1>5. ASSUME NEW s \in Sleepers, place'[s] # NoPlace, place'[s][1] = 0
      PROVE  /\ Later(instant_to_ms(deadline[s]), to) < to + SLOTS
             /\ place'[s] = <<0, Later(instant_to_ms(deadline[s]), to) % SLOTS>>
  <2>. DEFINE D == instant_to_ms(deadline[s])
  <2>1. deadline[s] \in Nat
    BY WheelAssumption, Zenon DEF WheelIInv, WheelTypes
  <2>2. D \in Nat
    BY <2>1, Milliseconds, Zenon
  <2>3. place'[s] = IF place[s] \in Drained(from, to) THEN drain_slot(deadline[s], to) ELSE place[s]
    BY <1>2, Zenon DEF wheel_tick
  <2>4. D > to /\ Later(D, from) < from + SLOTS /\ place'[s] = <<0, Later(D, from) % SLOTS>>
    <3>1. CASE place[s] \in Drained(from, to)
      <4>1. place'[s] = drain_slot(deadline[s], to)
        BY <2>3, <3>1, Zenon
      <4>2. ~ (D <= to) /\ place'[s] = Placed(deadline[s])
        BY <4>1, <1>5, Zenon DEF drain_slot
      <4>. QED
        BY <1>1, <1>2, <1>5, <2>1, <2>2, <4>2, PlacedLevel0
    <3>2. CASE place[s] \notin Drained(from, to)
      <4>1. place'[s] = place[s]
        BY <2>3, <3>2, Zenon
      <4>2. place[s] # NoPlace /\ place[s][1] = 0
        BY <1>5, <4>1, Zenon
      <4>3. D > to
        BY <3>2, <4>2, TickDrains, Zenon
      <4>. QED
        BY <4>1, <4>2, <4>3, Zenon DEF WheelIInv, Level0Inv, Effective
    <3>. QED
      BY <3>1, <3>2, Zenon
  <2>5. Later(D, from) = D /\ Later(D, to) = D
    BY <1>1, <1>2, <2>2, <2>4 DEF Later
  <2>. QED
    BY <1>1, <1>2, <2>2, <2>4, <2>5, WheelAssumption
<1>6. Level0Inv'
  BY <1>2, <1>5, Zenon DEF Level0Inv, Effective
<1>7. EntryInv'
  <2>. SUFFICES ASSUME NEW s \in Sleepers, place'[s] # NoPlace PROVE sleep_fut'[s] = "pending"
    BY Zenon DEF EntryInv
  <2>1. place[s] # NoPlace
    <3>1. NoPlace \notin Drained(from, to)
      BY DEF NoPlace, Drained, Level0, Cascade
    <3>. QED
      BY <3>1, Zenon DEF wheel_tick
  <2>. QED
    BY <2>1, Zenon DEF WheelIInv, EntryInv, wheel_tick
<1>. QED
  BY <1>3, <1>4, <1>6, <1>7, Zenon DEF WheelIInv

\* A step that may change the Sleep of one task, and leaves the wheel's clock alone.
LEMMA SleepStep ==
    ASSUME WheelIInv, NEW s \in Sleepers,
           sleep(s) \/ poll_ready(s) \/ poll_pending(s) \/ sleep_drop(s)
    PROVE  WheelIInv'
<1>1. now' = now /\ last_tick_ms' = last_tick_ms /\ last_tick_ms \in Nat
  BY Zenon DEF sleep, poll_ready, poll_pending, sleep_drop, WheelIInv, WheelTypes
<1>2. WheelTypes'
  BY Zenon DEF sleep, poll_ready, poll_pending, sleep_drop, WheelIInv, WheelTypes, cancel_entry
<1>3. last_tick_ms' <= instant_to_ms(now')
  BY <1>1, Zenon DEF WheelIInv
<1>4. ASSUME NEW u \in Sleepers, u # s
      PROVE  place'[u] = place[u] /\ deadline'[u] = deadline[u] /\ sleep_fut'[u] = sleep_fut[u]
  BY <1>4, Zenon DEF sleep, poll_ready, poll_pending, sleep_drop, WheelIInv, WheelTypes, cancel_entry
<1>5. \/ place'[s] = NoPlace
      \/ place'[s] = Placed(deadline[s]) /\ deadline'[s] = deadline[s] /\ sleep_fut'[s] = "pending"
  <2>1. CASE sleep(s)
    <3>1. place[s] = NoPlace
      BY <2>1, Zenon DEF sleep, WheelIInv, EntryInv
    <3>. QED
      BY <2>1, <3>1, Zenon DEF sleep
  <2>2. CASE poll_ready(s) \/ sleep_drop(s)
    BY <2>2, Zenon DEF poll_ready, sleep_drop, cancel_entry, WheelIInv, WheelTypes
  <2>3. CASE poll_pending(s)
    BY <2>3, Zenon DEF poll_pending, WheelIInv, WheelTypes
  <2>. QED
    BY <2>1, <2>2, <2>3, Zenon
<1>6. EntryInv'
  BY <1>4, <1>5, Zenon DEF WheelIInv, EntryInv
<1>7. ASSUME NEW u \in Sleepers, place'[u] # NoPlace, place'[u][1] = 0
      PROVE  /\ Effective(u)' < last_tick_ms' + SLOTS
             /\ place'[u] = <<0, Effective(u)' % SLOTS>>
  <2>1. CASE u # s
    BY <1>1, <1>4, <1>7, <2>1, Zenon DEF WheelIInv, Level0Inv, Effective
  <2>2. CASE u = s
    <3>1. place'[s] = Placed(deadline[s]) /\ deadline'[s] = deadline[s]
      BY <1>5, <1>7, <2>2, Zenon
    <3>2. deadline[s] \in Nat
      BY WheelAssumption, Zenon DEF WheelIInv, WheelTypes
    <3>. QED
      BY <1>1, <1>7, <2>2, <3>1, <3>2, PlacedLevel0, Zenon DEF Effective
  <2>. QED
    BY <2>1, <2>2, Zenon
<1>8. Level0Inv'
  BY <1>7, Zenon DEF Level0Inv
<1>. QED
  BY <1>2, <1>3, <1>6, <1>8, Zenon DEF WheelIInv

LEMMA AdvanceStep == WheelIInv /\ advance => WheelIInv'
<1>. SUFFICES ASSUME WheelIInv, advance PROVE WheelIInv'
  BY Zenon
<1>1. now \in Nat /\ now' \in Instants /\ now' \in Nat /\ now <= now' /\ last_tick_ms \in Nat
  BY WheelAssumption DEF advance, WheelIInv, WheelTypes
<1>2. instant_to_ms(now) <= instant_to_ms(now') /\ instant_to_ms(now) \in Nat /\ instant_to_ms(now') \in Nat
  BY <1>1, MillisecondsMonotonic, Milliseconds, Zenon
<1>3. last_tick_ms' <= instant_to_ms(now')
  BY <1>1, <1>2 DEF advance, WheelIInv
<1>4. WheelTypes' /\ EntryInv' /\ Level0Inv'
  BY <1>1, Zenon DEF advance, WheelIInv, WheelTypes, EntryInv, Level0Inv, Effective
<1>. QED
  BY <1>3, <1>4, Zenon DEF WheelIInv

LEMMA WheelInductive == WheelIInv /\ [TwNext]_timerVars => WheelIInv'
<1>. SUFFICES ASSUME WheelIInv, [TwNext]_timerVars PROVE WheelIInv'
  BY Zenon
<1>1. CASE UNCHANGED timerVars
  BY <1>1, Zenon DEF timerVars, WheelIInv, WheelTypes, EntryInv, Level0Inv, Effective
<1>2. CASE wheel_tick \/ advance
  BY <1>2, TickStep, AdvanceStep, Zenon
<1>3. ASSUME NEW s \in Sleepers, sleep(s) \/ poll_ready(s) \/ poll_pending(s) \/ sleep_drop(s)
      PROVE  WheelIInv'
  BY <1>3, SleepStep, Zenon
<1>. QED
  BY <1>1, <1>2, <1>3, Zenon DEF TwNext

\* The inductive invariant of TimerWheel: only a pending Sleep has an entry, and an entry that
\* level_slot put into level 0 is less than a revolution away, in the slot of its millisecond,
\* however the clock, new sleeps, cancellations and ticks interleave.
THEOREM WheelInvariant == TwSpec => []WheelIInv
<1>. QED
  BY WheelInitial, WheelInductive, PTL DEF TwSpec

\* TimerWheel::tick, which visits one slot per millisecond since the last tick and at most one
\* revolution of them, fires every due entry of level 0, for any number of slots, levels and
\* sleepers and however long the tick was delayed.
THEOREM WheelShortSleepFires == TwSpec => ShortSleepFires
<1>. DEFINE Fires == last_tick_ms' > last_tick_ms =>
          \A s \in Sleepers :
              (place[s] # NoPlace /\ place[s][1] = 0 /\ Due(s, last_tick_ms')) => sleep_woken'[s]
<1>1. ASSUME WheelIInv, [TwNext]_timerVars PROVE [Fires]_timerVars
  <2>. SUFFICES ASSUME TwNext, last_tick_ms' > last_tick_ms, NEW s \in Sleepers,
                       place[s] # NoPlace, place[s][1] = 0, Due(s, last_tick_ms')
                PROVE  sleep_woken'[s]
    BY <1>1, Zenon
  <2>0. last_tick_ms \in Nat
    BY <1>1, Zenon DEF WheelIInv, WheelTypes
  <2>1. wheel_tick
    BY <2>0 DEF TwNext, advance, sleep, poll_ready, poll_pending, sleep_drop
  <2>2. deadline[s] \in Nat /\ now \in Nat
    BY <1>1, WheelAssumption, Zenon DEF WheelIInv, WheelTypes
  <2>3. instant_to_ms(deadline[s]) \in Nat /\ last_tick_ms' \in Nat /\ last_tick_ms' = instant_to_ms(now)
    BY <2>1, <2>2, Milliseconds, Zenon DEF wheel_tick
  <2>4. instant_to_ms(deadline[s]) <= last_tick_ms'
    BY Zenon DEF Due
  <2>5. place[s] \in Drained(last_tick_ms, last_tick_ms')
    BY <1>1, <2>1, <2>3, <2>4, TickDrains
  <2>6. place'[s] = NoPlace
    BY <2>1, <2>3, <2>4, <2>5, Zenon DEF wheel_tick, drain_slot
  <2>. QED
    BY <2>1, <2>6, Zenon DEF wheel_tick
<1>. QED
  BY <1>1, WheelInvariant, PTL DEF TwSpec, ShortSleepFires

-----------------------------------------------------------------------------
(***************************************************************************)
(* Run queues: for every capacity, batch, index width and number of        *)
(* workers.                                                                *)
(***************************************************************************)

LEMMA ModUnique ==
    ASSUME NEW n \in Nat, n > 0, NEW a \in Nat, NEW r \in 0..(n - 1), NEW x \in Nat, x = n * a + r
    PROVE  x % n = r
<1>. DEFINE q == x \div n
            s == x % n
<1>1. q \in Nat /\ s \in 0..(n - 1) /\ x = n * q + s
  OBVIOUS
<1>. HIDE DEF q, s
<1>2. ASSUME q > a PROVE FALSE
  <2>1. PICK k \in Nat : q = a + 1 + k
    <3>1. q - a - 1 \in Nat /\ q = a + 1 + (q - a - 1)
      BY <1>1, <1>2
    <3>. QED
      BY <3>1, Zenon
  <2>2. n * q = n * a + n + n * k /\ n * k \in Nat /\ n * a \in Nat
    BY <2>1
  <2>. QED
    BY <1>1, <2>2
<1>3. ASSUME a > q PROVE FALSE
  <2>1. PICK k \in Nat : a = q + 1 + k
    <3>1. a - q - 1 \in Nat /\ a = q + 1 + (a - q - 1)
      BY <1>1, <1>3
    <3>. QED
      BY <3>1, Zenon
  <2>2. n * a = n * q + n + n * k /\ n * k \in Nat /\ n * q \in Nat
    BY <1>1, <2>1
  <2>. QED
    BY <1>1, <2>2
<1>4. q = a
  BY <1>1, <1>2, <1>3
<1>5. n * a \in Nat
  OBVIOUS
<1>. QED
  BY <1>1, <1>4, <1>5 DEF s

\* Going around once more does not change the slot, since Wrap is a multiple of CAPACITY.
LEMMA SlotWraps ==
    ASSUME NEW x \in Nat
    PROVE  (x + Wrap) % CAPACITY = x % CAPACITY
<1>. DEFINE k == Wrap \div CAPACITY
            q == x \div CAPACITY
            r == x % CAPACITY
<1>0. CAPACITY \in Nat /\ CAPACITY > 0 /\ Wrap \in Nat /\ Wrap % CAPACITY = 0
  BY QueuesAssumption
<1>1. k \in Nat /\ Wrap = CAPACITY * k
  BY <1>0
<1>2. q \in Nat /\ r \in 0..(CAPACITY - 1) /\ x = CAPACITY * q + r
  BY <1>0
<1>. HIDE DEF k, q, r
<1>3. CAPACITY * (q + k) = CAPACITY * q + CAPACITY * k /\ CAPACITY * q \in Nat /\ q + k \in Nat
  BY <1>0, <1>1, <1>2
<1>4. x + Wrap \in Nat /\ x + Wrap = CAPACITY * (q + k) + r
  BY <1>0, <1>1, <1>2, <1>3
<1>5. ASSUME NEW y \in Nat, NEW c \in Nat, y = CAPACITY * c + r PROVE y % CAPACITY = r
  BY <1>0, <1>2, <1>5, ModUnique
<1>6. (x + Wrap) % CAPACITY = r
  <2>. DEFINE y == x + Wrap
              c == q + k
  <2>1. y \in Nat /\ c \in Nat /\ y = CAPACITY * c + r
    BY <1>3, <1>4, Zenon
  <2>. HIDE DEF y, c
  <2>2. y % CAPACITY = r
    BY <1>5, <2>1, Zenon
  <2>. QED
    BY <2>2, Zenon DEF y
<1>. QED
  BY <1>6, Zenon DEF r

\* An index that went past Wrap at most once.
Wrapped(x) == IF x < Wrap THEN x ELSE x - Wrap

LEMMA WrapOnce ==
    ASSUME NEW x \in Nat, x < 2 * Wrap
    PROVE  /\ x % Wrap = Wrapped(x) /\ Wrapped(x) \in 0..(Wrap - 1)
           /\ (x % Wrap) % CAPACITY = x % CAPACITY
<1>0. Wrap \in Nat /\ Wrap > 0
  BY QueuesAssumption
<1>1. CASE x < Wrap
  BY <1>0, <1>1 DEF Wrapped
<1>2. CASE x >= Wrap
  <2>1. x - Wrap \in 0..(Wrap - 1) /\ x = Wrap * 1 + (x - Wrap)
    BY <1>0, <1>2
  <2>2. x % Wrap = x - Wrap
    BY <1>0, <2>1, ModUnique
  <2>3. ((x - Wrap) + Wrap) % CAPACITY = (x - Wrap) % CAPACITY
    BY <2>1, SlotWraps
  <2>4. (x - Wrap) + Wrap = x
    BY <1>0
  <2>. QED
    BY <1>0, <1>2, <2>1, <2>2, <2>3, <2>4 DEF Wrapped
<1>. QED
  BY <1>0, <1>1, <1>2

Slot(x) == x % CAPACITY

\* Advancing a wrapped index.
LEMMA WrapAgain ==
    ASSUME NEW a \in 0..(Wrap - 1), NEW n \in Nat, NEW m \in Nat, n + m <= CAPACITY
    PROVE  (Wrapped(a + n) + m) % Wrap = Wrapped(a + (n + m))
<1>0. CAPACITY \in Nat /\ Wrap \in Nat /\ Wrap > CAPACITY
  BY QueuesAssumption, Zenon
<1>1. Wrapped(a + n) \in 0..(Wrap - 1)
  BY <1>0 DEF Wrapped
<1>2. Wrapped(a + n) + m \in Nat /\ Wrapped(a + n) + m < 2 * Wrap
  BY <1>0, <1>1
<1>3. (Wrapped(a + n) + m) % Wrap = Wrapped(Wrapped(a + n) + m)
  BY <1>2, WrapOnce, Zenon
<1>4. CASE a + n < Wrap
  BY <1>0, <1>3, <1>4 DEF Wrapped
<1>5. CASE ~ (a + n < Wrap)
  BY <1>0, <1>3, <1>5 DEF Wrapped
<1>. QED
  BY <1>4, <1>5, Zenon

\* Less than CAPACITY apart, two indices have different slots.
LEMMA SlotsApart ==
    ASSUME NEW x \in Nat, NEW y \in Nat, x < y, y - x < CAPACITY
    PROVE  Slot(x) # Slot(y)
<1>1. CAPACITY \in Nat /\ CAPACITY > 0
  BY QueuesAssumption
<1>2. \/ (y % CAPACITY) - (x % CAPACITY) = y - x
      \/ (y % CAPACITY) - (x % CAPACITY) = y - x - CAPACITY
  <2>1. x <= y
    OBVIOUS
  <2>. QED
    BY <1>1, <2>1, Revolution, Zenon
<1>3. x % CAPACITY \in Nat
  BY <1>1
<1>. QED
  BY <1>1, <1>2, <1>3 DEF Slot

\* The CAPACITY slots from index a on are different.
LEMMA SlotsDiffer ==
    ASSUME NEW a \in Nat, NEW i \in 1..CAPACITY, NEW j \in 1..CAPACITY, i # j
    PROVE  Slot(a + i - 1) # Slot(a + j - 1)
<1>. DEFINE x == a + i - 1
            y == a + j - 1
<1>1. CAPACITY \in Nat
  BY QueuesAssumption, Zenon
<1>2. x \in Nat /\ y \in Nat /\ x # y
  BY <1>1
<1>3. x < y => y - x < CAPACITY
  BY <1>1
<1>4. y < x => x - y < CAPACITY
  BY <1>1
<1>. HIDE DEF x, y
<1>5. Slot(x) # Slot(y)
  <2>1. CASE x < y
    BY <1>2, <1>3, <2>1, SlotsApart, Zenon
  <2>2. CASE y < x
    BY <1>2, <1>4, <2>2, SlotsApart, Zenon
  <2>. QED
    BY <1>2, <2>1, <2>2
<1>. QED
  BY <1>5, Zenon DEF x, y

-----------------------------------------------------------------------------
(* A ring and the headers in it.                                              *)

RingType(q) ==
    /\ q.buf \in [0..(CAPACITY - 1) -> Headers \cup {None}]
    /\ q.head \in 0..(Wrap - 1) /\ q.tail \in 0..(Wrap - 1)
    /\ len(q) <= CAPACITY

RingInv(q) == RingType(q) /\ Items(q) \in Seq(Headers)

\* The tail is len past the head, and the slot of the header at i is i past it.
LEMMA RingIndices ==
    ASSUME NEW q, RingType(q)
    PROVE  /\ len(q) \in 0..CAPACITY
           /\ q.tail = Wrapped(q.head + len(q))
           /\ Slot(q.tail) = Slot(q.head + len(q))
           /\ Items(q) = [i \in 1..len(q) |-> q.buf[Slot(q.head + i - 1)]]
<1>0. /\ CAPACITY \in Nat /\ CAPACITY > 0 /\ Wrap \in Nat /\ Wrap > CAPACITY
      /\ q.head \in 0..(Wrap - 1) /\ q.tail \in 0..(Wrap - 1) /\ len(q) <= CAPACITY
  BY QueuesAssumption DEF RingType
<1>1. len(q) = IF q.tail >= q.head THEN q.tail - q.head ELSE q.tail - q.head + Wrap
  BY <1>0 DEF len
<1>2. len(q) \in 0..CAPACITY /\ q.tail = Wrapped(q.head + len(q))
  BY <1>0, <1>1 DEF Wrapped
<1>3. q.head + len(q) \in Nat /\ q.head + len(q) < 2 * Wrap
  BY <1>0, <1>2
<1>4. Slot(q.tail) = Slot(q.head + len(q))
  BY <1>2, <1>3, WrapOnce, Zenon DEF Slot
<1>5. ASSUME NEW i \in 1..len(q)
      PROVE  ((q.head + i - 1) % Wrap) % CAPACITY = Slot(q.head + i - 1)
  <2>1. q.head + i - 1 \in Nat /\ q.head + i - 1 < 2 * Wrap
    BY <1>0, <1>2
  <2>. QED
    BY <2>1, WrapOnce, Zenon DEF Slot
<1>. QED
  BY <1>2, <1>4, <1>5, Zenon DEF Items

\* A ring given by its head and its length.
LEMMA RingFrom ==
    ASSUME NEW buf \in [0..(CAPACITY - 1) -> Headers \cup {None}],
           NEW head \in 0..(Wrap - 1), NEW n \in 0..CAPACITY
    PROVE  LET r == [buf |-> buf, head |-> head, tail |-> Wrapped(head + n)]
           IN /\ RingType(r) /\ len(r) = n
              /\ Items(r) = [i \in 1..n |-> buf[Slot(head + i - 1)]]
<1>. DEFINE r == [buf |-> buf, head |-> head, tail |-> Wrapped(head + n)]
<1>0. /\ CAPACITY \in Nat /\ CAPACITY > 0 /\ Wrap \in Nat /\ Wrap > CAPACITY
  BY QueuesAssumption
<1>1. Wrapped(head + n) \in 0..(Wrap - 1) /\ (Wrapped(head + n) - head) % Wrap = n
  BY <1>0 DEF Wrapped
<1>2. len(r) = n
  BY <1>1, Zenon DEF len
<1>3. RingType(r)
  BY <1>0, <1>1, <1>2 DEF RingType
<1>. HIDE DEF r
<1>4. Items(r) = [i \in 1..len(r) |-> r.buf[Slot(r.head + i - 1)]]
  BY <1>3, RingIndices, Zenon
<1>. QED
  BY <1>2, <1>3, <1>4, Zenon DEF r

LEMMA SlotIn ==
    ASSUME NEW x \in Nat
    PROVE  Slot(x) \in 0..(CAPACITY - 1)
BY QueuesAssumption DEF Slot

LEMMA NewRing ==
    RingInv(new_ring) /\ Items(new_ring) = <<>>
<1>0. /\ CAPACITY \in Nat /\ CAPACITY > 0 /\ Wrap \in Nat /\ Wrap > CAPACITY
  BY QueuesAssumption
<1>1. len(new_ring) = 0
  BY <1>0 DEF len, new_ring
<1>2. RingType(new_ring)
  BY <1>0, <1>1 DEF RingType, new_ring
<1>3. Items(new_ring) = <<>>
  BY <1>1 DEF Items
<1>. QED
  BY <1>2, <1>3 DEF RingInv

\* The facts about a ring that every operation below starts from.
LEMMA RingFacts ==
    ASSUME NEW q, RingInv(q)
    PROVE  /\ q.buf \in [0..(CAPACITY - 1) -> Headers \cup {None}]
           /\ q.head \in 0..(Wrap - 1) /\ q.tail \in 0..(Wrap - 1)
           /\ len(q) \in 0..CAPACITY
           /\ q.tail = Wrapped(q.head + len(q))
           /\ Slot(q.tail) = Slot(q.head + len(q))
           /\ Items(q) \in Seq(Headers) /\ Len(Items(q)) = len(q)
           /\ \A i \in 1..len(q) : Items(q)[i] = q.buf[Slot(q.head + i - 1)]
<1>1. RingType(q) /\ Items(q) \in Seq(Headers)
  BY Zenon DEF RingInv
<1>2. /\ len(q) \in 0..CAPACITY /\ q.tail = Wrapped(q.head + len(q))
      /\ Slot(q.tail) = Slot(q.head + len(q))
      /\ Items(q) = [i \in 1..len(q) |-> q.buf[Slot(q.head + i - 1)]]
  BY <1>1, RingIndices, Zenon
<1>3. CAPACITY \in Nat
  BY QueuesAssumption, Zenon
<1>4. Len(Items(q)) = len(q) /\ \A i \in 1..len(q) : Items(q)[i] = q.buf[Slot(q.head + i - 1)]
  BY <1>1, <1>2, <1>3
<1>. QED
  BY <1>1, <1>2, <1>4, Zenon DEF RingType

\* Putting items in the slots behind the last one appends them.
LEMMA RingExtended ==
    ASSUME NEW q, RingInv(q), NEW items \in Seq(Headers), Len(items) <= CAPACITY - len(q),
           NEW b \in [0..(CAPACITY - 1) -> Headers \cup {None}],
           \A i \in 1..Len(items) : b[Slot(q.head + len(q) + i - 1)] = items[i],
           \A i \in 1..len(q) : b[Slot(q.head + i - 1)] = q.buf[Slot(q.head + i - 1)]
    PROVE  LET r == [buf |-> b, head |-> q.head, tail |-> Wrapped(q.head + (len(q) + Len(items)))]
           IN RingInv(r) /\ Items(r) = Items(q) \o items /\ len(r) = len(q) + Len(items)
<1>. DEFINE n   == len(q)
            m   == Len(items)
            hd  == q.head
            its == Items(q)
            all == its \o items
            r   == [buf |-> b, head |-> hd, tail |-> Wrapped(hd + (n + m))]
<1>0. CAPACITY \in Nat /\ CAPACITY > 0 /\ Wrap \in Nat /\ Wrap > CAPACITY
  BY QueuesAssumption
<1>1. /\ hd \in 0..(Wrap - 1) /\ n \in 0..CAPACITY
      /\ its \in Seq(Headers) /\ Len(its) = n
      /\ \A i \in 1..n : its[i] = q.buf[Slot(hd + i - 1)]
  BY RingFacts, Zenon
<1>2. m \in Nat /\ m <= CAPACITY - n
  BY LenProperties, Zenon
<1>3. \A i \in 1..m : b[Slot(hd + n + i - 1)] = items[i]
  BY Zenon
<1>4. \A i \in 1..n : b[Slot(hd + i - 1)] = its[i]
  BY <1>1, Zenon
<1>. HIDE DEF n, hd, its
<1>5. /\ all \in Seq(Headers) /\ Len(all) = n + m
      /\ \A i \in 1..(n + m) : all[i] = IF i <= n THEN its[i] ELSE items[i - n]
  BY <1>1, ConcatProperties, ZenonT(60)
<1>. HIDE DEF m, all
<1>6. all \in [1..(n + m) -> Headers]
  BY <1>5, LenProperties, Zenon
<1>7. n + m \in 0..CAPACITY
  BY <1>0, <1>1, <1>2
<1>8. RingType(r) /\ len(r) = n + m /\ Items(r) = [i \in 1..(n + m) |-> b[Slot(hd + i - 1)]]
  BY <1>1, <1>7, RingFrom, Zenon
<1>9. ASSUME NEW i \in 1..(n + m) PROVE b[Slot(hd + i - 1)] = all[i]
  <2>0. n \in Nat /\ hd \in Nat
    BY <1>0, <1>1
  <2>1. CASE i <= n
    <3>1. i \in 1..n
      BY <1>2, <2>0, <2>1
    <3>. QED
      BY <1>5, <1>4, <2>1, <3>1, Zenon
  <2>2. CASE ~ (i <= n)
    <3>1. i - n \in 1..m /\ hd + n + (i - n) - 1 = hd + i - 1
      BY <1>2, <2>0, <2>2
    <3>2. b[Slot(hd + n + (i - n) - 1)] = items[i - n]
      BY <1>3, <3>1, Zenon
    <3>. QED
      BY <1>5, <2>2, <3>1, <3>2, Zenon
  <2>. QED
    BY <2>1, <2>2, Zenon
<1>10. Items(r) = all
  BY <1>6, <1>8, <1>9, Zenon
<1>11. RingInv(r)
  BY <1>5, <1>8, <1>10, Zenon DEF RingInv
<1>. QED
  BY <1>8, <1>10, <1>11, Zenon DEF n, m, hd, its, all

\* LocalQueue::push: behind the others, or given back when the ring is full.
LEMMA RingPush ==
    ASSUME NEW q, RingInv(q), NEW h \in Headers
    PROVE  LET p == push(q, h)
           IN /\ RingInv(p.q) /\ p.over \in Seq(Headers)
              /\ Items(p.q) \o p.over = Items(q) \o <<h>>
<1>. DEFINE n  == len(q)
            hd == q.head
            B  == q.buf
            T  == q.tail
            b  == [B EXCEPT ![Slot(T)] = h]
            r  == [buf |-> b, head |-> hd, tail |-> Wrapped(hd + (n + Len(<<h>>)))]
<1>0. CAPACITY \in Nat /\ CAPACITY > 0 /\ Wrap \in Nat /\ Wrap > CAPACITY
  BY QueuesAssumption
<1>1. /\ B \in [0..(CAPACITY - 1) -> Headers \cup {None}]
      /\ hd \in 0..(Wrap - 1) /\ T \in 0..(Wrap - 1)
      /\ n \in 0..CAPACITY
      /\ T = Wrapped(hd + n) /\ Slot(T) = Slot(hd + n)
      /\ Items(q) \in Seq(Headers)
  BY RingFacts, Zenon
<1>2. <<h>> \in Seq(Headers) /\ Len(<<h>>) = 1 /\ <<h>>[1] = h
  OBVIOUS
<1>3. CASE n = CAPACITY
  <2>1. push(q, h) = [q |-> q, over |-> <<h>>]
    BY <1>3, Zenon DEF push
  <2>. QED
    BY <1>1, <2>1, <1>2
<1>4. CASE n # CAPACITY
  <2>1. (T + 1) % Wrap = Wrapped(hd + (n + 1))
    <3>1. n \in Nat /\ n + 1 <= CAPACITY
      BY <1>0, <1>1, <1>4
    <3>. QED
      BY <1>1, <3>1, WrapAgain
  <2>2. push(q, h) = [q    |-> [buf |-> b, head |-> hd, tail |-> (T + 1) % Wrap], over |-> <<>>]
    BY <1>4, Zenon DEF push, Slot
  <2>. HIDE DEF b, n, hd, B, T
  <2>4. push(q, h) = [q |-> r, over |-> <<>>]
    BY <1>2, <2>1, <2>2, Zenon
  <2>5. Slot(T) \in 0..(CAPACITY - 1)
    BY <1>0, <1>1, SlotIn
  <2>6. b \in [0..(CAPACITY - 1) -> Headers \cup {None}] /\ Len(<<h>>) <= CAPACITY - n
    BY <1>0, <1>1, <1>4, <1>2, <2>5 DEF b
  <2>7. \A i \in 1..Len(<<h>>) : b[Slot(hd + n + i - 1)] = <<h>>[i]
    <3>1. hd + n + 1 - 1 = hd + n
      BY <1>0, <1>1
    <3>2. b[Slot(hd + n)] = h
      BY <1>1, <2>5, Zenon DEF b
    <3>. QED
      BY <1>2, <3>1, <3>2
  <2>8. ASSUME NEW i \in 1..n PROVE b[Slot(hd + i - 1)] = B[Slot(hd + i - 1)]
    <3>1. hd \in Nat /\ hd + i - 1 \in Nat
      BY <1>0, <1>1
    <3>2. i \in 1..CAPACITY /\ n + 1 \in 1..CAPACITY /\ i # n + 1 /\ hd + (n + 1) - 1 = hd + n
      BY <1>0, <1>1, <1>4
    <3>3. Slot(hd + i - 1) \in 0..(CAPACITY - 1)
      BY <3>1, SlotIn, Zenon
    <3>4. Slot(hd + i - 1) # Slot(hd + (n + 1) - 1)
      BY <3>1, <3>2, SlotsDiffer, Zenon
    <3>. QED
      BY <1>1, <3>2, <3>3, <3>4, Zenon DEF b
  <2>9. RingInv(r) /\ Items(r) = Items(q) \o <<h>>
    BY <1>2, <2>6, <2>7, <2>8, RingExtended, Zenon DEF n, hd, B
  <2>. HIDE DEF r
  <2>10. Items(r) \o <<>> = Items(q) \o <<h>> /\ <<>> \in Seq(Headers)
    <3>1. Items(r) \in Seq(Headers)
      BY <2>9, Zenon DEF RingInv
    <3>. QED
      BY <2>9, <3>1, ConcatEmptySeq
  <2>. QED
    BY <2>4, <2>9, <2>10
<1>. QED
  BY <1>3, <1>4, Zenon

\* StealableQueue::steal_from and next_task: a loop of pushes appends what fits.
LEMMA RingPushAll ==
    ASSUME NEW q, RingInv(q), NEW items \in Seq(Headers)
    PROVE  LET p == push_all(q, items)
           IN /\ RingInv(p.q) /\ p.over \in Seq(Headers)
              /\ Items(p.q) \o p.over = Items(q) \o items
              /\ Len(items) <= CAPACITY - len(q) => p.over = <<>>
              /\ items # <<>> /\ len(q) = 0 => len(p.q) > 0
<1>. DEFINE n     == len(q)
            hd    == q.head
            B     == q.buf
            T     == q.tail
            room  == CAPACITY - n
            m     == IF Len(items) < room THEN Len(items) ELSE room
            at(i) == ((T + i - 1) % Wrap) % CAPACITY
            b     == [s \in DOMAIN B |-> IF \E i \in 1..m : s = at(i)
                                         THEN items[CHOOSE i \in 1..m : s = at(i)] ELSE B[s]]
            fit   == SubSeq(items, 1, m)
            over  == SubSeq(items, m + 1, Len(items))
            r     == [buf |-> b, head |-> hd, tail |-> Wrapped(hd + (n + Len(fit)))]
<1>0. CAPACITY \in Nat /\ CAPACITY > 0 /\ Wrap \in Nat /\ Wrap > CAPACITY
  BY QueuesAssumption
<1>1. /\ B \in [0..(CAPACITY - 1) -> Headers \cup {None}]
      /\ hd \in 0..(Wrap - 1) /\ T \in 0..(Wrap - 1)
      /\ n \in 0..CAPACITY
      /\ T = Wrapped(hd + n) /\ Slot(T) = Slot(hd + n)
      /\ Items(q) \in Seq(Headers)
  BY RingFacts, Zenon
<1>2. push_all(q, items) = [q    |-> [buf |-> b, head |-> hd, tail |-> (T + m) % Wrap],
                            over |-> over]
  BY Zenon DEF push_all
<1>3. Len(items) \in Nat /\ \A i \in 1..Len(items) : items[i] \in Headers
  BY LenProperties, ElementOfSeq, Zenon
<1>4. /\ m \in 0..Len(items) /\ n + m <= CAPACITY
      /\ Len(items) <= CAPACITY - n => m = Len(items)
      /\ Len(items) > 0 /\ n = 0 => m > 0
  BY <1>0, <1>1, <1>3
<1>. HIDE DEF n, hd, B, T, m
<1>5. /\ fit \in Seq(Headers) /\ Len(fit) = m
      /\ \A i \in 1..m : fit[i] = items[i]
  <2>1. /\ 1 \in Int /\ m \in Int
        /\ \A i \in 1..m : items[i] \in Headers
    BY <1>3, <1>4
  <2>2. /\ SubSeq(items, 1, m) \in Seq(Headers)
        /\ Len(SubSeq(items, 1, m)) = IF 1 <= m THEN m - 1 + 1 ELSE 0
        /\ \A i \in 1..(m - 1 + 1) : SubSeq(items, 1, m)[i] = items[1 + i - 1]
    BY <2>1, SubSeqProperties
  <2>. QED
    BY <1>4, <2>2
<1>6. over \in Seq(Headers) /\ (Len(items) <= CAPACITY - n => over = <<>>)
  <2>1. /\ m + 1 \in Int /\ Len(items) \in Int
        /\ \A i \in (m + 1)..Len(items) : items[i] \in Headers
    BY <1>3, <1>4
  <2>2. over \in Seq(Headers)
    BY <2>1, SubSeqProperties, Zenon
  <2>3. ASSUME Len(items) <= CAPACITY - n PROVE over = <<>>
    <3>1. Len(items) < m + 1
      BY <1>3, <1>4, <2>3
    <3>. QED
      BY <2>1, <3>1, SubSeqEmpty, Zenon
  <2>. QED
    BY <2>2, <2>3, Zenon
<1>7. fit \o over = items
  <2>1. /\ 1 \in 1..(Len(items) + 1) /\ m \in (1 - 1)..Len(items) /\ Len(items) \in m..Len(items)
    BY <1>3, <1>4
  <2>2. fit \o over = SubSeq(items, 1, Len(items))
    BY <2>1, ConcatAdjacentSubSeq, Zenon
  <2>. QED
    BY <2>2, SubSeqFull, Zenon
<1>8. \A i \in 1..m : at(i) = Slot(hd + (n + i) - 1)
  <2>1. SUFFICES ASSUME NEW i \in 1..m PROVE at(i) = Slot(hd + (n + i) - 1)
    BY Zenon
  <2>2. n \in Nat /\ i - 1 \in Nat /\ n + (i - 1) <= CAPACITY /\ T + i - 1 = T + (i - 1)
    BY <1>0, <1>1, <1>4
  <2>3. (T + i - 1) % Wrap = Wrapped(hd + (n + (i - 1)))
    BY <1>1, <2>2, WrapAgain, Zenon
  <2>4. /\ hd + (n + (i - 1)) \in Nat /\ hd + (n + (i - 1)) < 2 * Wrap
        /\ hd + (n + (i - 1)) = hd + (n + i) - 1
    BY <1>0, <1>1, <2>2
  <2>. QED
    BY <2>3, <2>4, WrapOnce, Zenon DEF Slot
<1>9. \A i, j \in 1..m : at(i) = at(j) => i = j
  <2>1. SUFFICES ASSUME NEW i \in 1..m, NEW j \in 1..m, i # j PROVE at(i) # at(j)
    BY Zenon
  <2>2. hd \in Nat /\ n + i \in 1..CAPACITY /\ n + j \in 1..CAPACITY /\ n + i # n + j
    BY <1>0, <1>1, <1>4, <2>1
  <2>3. Slot(hd + (n + i) - 1) # Slot(hd + (n + j) - 1)
    BY <2>2, SlotsDiffer, Zenon
  <2>. QED
    BY <1>8, <2>3, Zenon
<1>10. \A i \in 1..m : at(i) \in 0..(CAPACITY - 1)
  <2>1. SUFFICES ASSUME NEW i \in 1..m PROVE at(i) \in 0..(CAPACITY - 1)
    BY Zenon
  <2>2. hd + (n + i) - 1 \in Nat
    BY <1>0, <1>1, <1>4
  <2>. QED
    BY <1>8, <2>2, SlotIn, Zenon
<1>. HIDE DEF at, fit, over
<1>11. \A i \in 1..m : b[at(i)] = items[i]
  <2>1. SUFFICES ASSUME NEW i \in 1..m PROVE b[at(i)] = items[i]
    BY Zenon
  <2>2. (CHOOSE k \in 1..m : at(i) = at(k)) = i
    BY <1>9, Zenon
  <2>. QED
    BY <1>1, <1>10, <2>2, Zenon
<1>12. \A s \in 0..(CAPACITY - 1) : (\A i \in 1..m : s # at(i)) => b[s] = B[s]
  BY <1>1, Zenon
<1>13. b \in [0..(CAPACITY - 1) -> Headers \cup {None}]
  <2>1. ASSUME NEW s \in 0..(CAPACITY - 1) PROVE b[s] \in Headers \cup {None}
    <3>1. CASE \E i \in 1..m : s = at(i)
      BY <1>3, <1>4, <1>11, <3>1
    <3>2. CASE ~ \E i \in 1..m : s = at(i)
      BY <1>1, <1>12, <3>2, Zenon
    <3>. QED
      BY <3>1, <3>2, Zenon
  <2>. QED
    BY <1>1, <2>1, Zenon
<1>. HIDE DEF b
<1>14. \A i \in 1..Len(fit) : b[Slot(hd + n + i - 1)] = fit[i]
  <2>1. SUFFICES ASSUME NEW i \in 1..m PROVE b[Slot(hd + n + i - 1)] = fit[i]
    BY <1>5, Zenon
  <2>2. hd + n + i - 1 = hd + (n + i) - 1
    BY <1>0, <1>1, <1>4
  <2>. QED
    BY <1>5, <1>8, <1>11, <2>2, Zenon
<1>15. \A i \in 1..n : b[Slot(hd + i - 1)] = B[Slot(hd + i - 1)]
  <2>1. SUFFICES ASSUME NEW i \in 1..n PROVE b[Slot(hd + i - 1)] = B[Slot(hd + i - 1)]
    BY Zenon
  <2>2. hd \in Nat /\ hd + i - 1 \in Nat /\ i \in 1..CAPACITY
    BY <1>0, <1>1
  <2>3. ASSUME NEW k \in 1..m PROVE Slot(hd + i - 1) # at(k)
    <3>1. n + k \in 1..CAPACITY /\ i # n + k
      BY <1>0, <1>1, <1>4
    <3>2. Slot(hd + i - 1) # Slot(hd + (n + k) - 1)
      BY <2>2, <3>1, SlotsDiffer, Zenon
    <3>. QED
      BY <1>8, <3>2, Zenon
  <2>4. Slot(hd + i - 1) \in 0..(CAPACITY - 1)
    BY <2>2, SlotIn, Zenon
  <2>. QED
    BY <1>12, <2>3, <2>4, Zenon
<1>16. RingInv(r) /\ Items(r) = Items(q) \o fit /\ len(r) = n + m
  <2>1. Len(fit) <= CAPACITY - n
    BY <1>0, <1>1, <1>4, <1>5
  <2>. QED
    BY <1>5, <1>13, <1>14, <1>15, <2>1, RingExtended, Zenon DEF n, hd, B
<1>17. push_all(q, items) = [q |-> r, over |-> over]
  <2>1. n \in Nat /\ m \in Nat
    BY <1>0, <1>1, <1>4
  <2>2. (T + m) % Wrap = Wrapped(hd + (n + m))
    BY <1>1, <1>4, <2>1, WrapAgain, Zenon
  <2>. QED
    BY <1>2, <1>5, <2>2, Zenon
<1>. HIDE DEF r
<1>18. Items(r) \o over = Items(q) \o items
  <2>0. Items(q) \in Seq(Headers) /\ fit \in Seq(Headers) /\ over \in Seq(Headers)
    BY <1>1, <1>5, <1>6, Zenon
  <2>1. (Items(q) \o fit) \o over = Items(q) \o (fit \o over)
    <3>1. ASSUME NEW s \in Seq(Headers), NEW t \in Seq(Headers), NEW u \in Seq(Headers)
          PROVE  (s \o t) \o u = s \o (t \o u)
      BY ConcatAssociative
    <3>. QED
      BY <2>0, <3>1, Zenon
  <2>. QED
    BY <1>7, <1>16, <2>1, Zenon
<1>19. items # <<>> /\ n = 0 => len(r) > 0
  <2>1. items # <<>> => Len(items) > 0
    BY <1>3, EmptySeq
  <2>. QED
    BY <1>4, <1>16, <2>1
<1>20. push_all(q, items).q = r /\ push_all(q, items).over = over
  BY <1>17
<1>. QED
  BY <1>6, <1>16, <1>18, <1>19, <1>20, Zenon DEF n

LEMMA ConcatHeaders ==
    ASSUME NEW s \in Seq(Headers), NEW t \in Seq(Headers), NEW n, NEW m, Len(s) = n, Len(t) = m
    PROVE  /\ s \o t \in Seq(Headers) /\ Len(s \o t) = n + m
           /\ \A i \in 1..(n + m) : (s \o t)[i] = IF i <= n THEN s[i] ELSE t[i - n]
BY ConcatProperties, Zenon

LEMMA SlotWrapped ==
    ASSUME NEW a \in Nat, a < 2 * Wrap, NEW i \in Nat
    PROVE  Slot(Wrapped(a) + i) = Slot(a + i)
<1>0. Wrap \in Nat
  BY QueuesAssumption, Zenon
<1>1. CASE a < Wrap
  BY <1>1, Zenon DEF Wrapped
<1>2. CASE ~ (a < Wrap)
  <2>1. a - Wrap + i \in Nat /\ (a - Wrap + i) + Wrap = a + i
    BY <1>0, <1>2
  <2>2. ((a - Wrap + i) + Wrap) % CAPACITY = (a - Wrap + i) % CAPACITY
    BY <2>1, SlotWraps, Zenon
  <2>. QED
    BY <1>2, <2>1, <2>2, Zenon DEF Wrapped, Slot
<1>. QED
  BY <1>1, <1>2, Zenon

\* drain_front: the oldest headers leave, the others stay in their order.
LEMMA RingDrain ==
    ASSUME NEW q, RingInv(q), NEW count \in Nat
    PROVE  LET d == drain_front(q, count)
           IN /\ RingInv(d.q) /\ d.items \in Seq(Headers)
              /\ Items(q) = d.items \o Items(d.q)
              /\ Len(d.items) = IF count < len(q) THEN count ELSE len(q)
<1>. DEFINE n     == len(q)
            hd    == q.head
            B     == q.buf
            T     == q.tail
            m     == IF count < n THEN count ELSE n
            at(i) == ((hd + i - 1) % Wrap) % CAPACITY
            b     == [s \in DOMAIN B |-> IF \E i \in 1..m : s = at(i) THEN None ELSE B[s]]
            its   == Items(q)
            out   == [i \in 1..m |-> B[at(i)]]
            r     == [buf |-> b, head |-> Wrapped(hd + m), tail |-> T]
<1>0. CAPACITY \in Nat /\ CAPACITY > 0 /\ Wrap \in Nat /\ Wrap > CAPACITY
  BY QueuesAssumption
<1>1. /\ B \in [0..(CAPACITY - 1) -> Headers \cup {None}]
      /\ hd \in 0..(Wrap - 1) /\ T \in 0..(Wrap - 1)
      /\ n \in 0..CAPACITY
      /\ T = Wrapped(hd + n)
      /\ its \in Seq(Headers) /\ Len(its) = n
      /\ \A i \in 1..n : its[i] = B[Slot(hd + i - 1)]
  BY RingFacts, Zenon
<1>2. drain_front(q, count) = [q     |-> [buf |-> b, head |-> (hd + m) % Wrap, tail |-> T],
                               items |-> out]
  BY Zenon DEF drain_front
<1>3. m \in 0..n
  BY <1>0, <1>1
<1>4. m = IF count < n THEN count ELSE n
  BY Zenon
<1>. HIDE DEF n, hd, B, T, m, its
<1>5. hd \in Nat /\ n \in Nat /\ m \in Nat
  BY <1>0, <1>1, <1>3
<1>6. \A i \in 1..m : at(i) = Slot(hd + i - 1)
  <2>1. SUFFICES ASSUME NEW i \in 1..m PROVE at(i) = Slot(hd + i - 1)
    BY Zenon
  <2>2. hd + i - 1 \in Nat /\ hd + i - 1 < 2 * Wrap
    BY <1>0, <1>1, <1>3
  <2>. QED
    BY <2>2, WrapOnce, Zenon DEF Slot
<1>. HIDE DEF at
<1>7. \A s \in 0..(CAPACITY - 1) : (\A i \in 1..m : s # at(i)) => b[s] = B[s]
  BY <1>1, Zenon
<1>8. b \in [0..(CAPACITY - 1) -> Headers \cup {None}]
  BY <1>1, Zenon
<1>. HIDE DEF b
<1>9. (hd + m) % Wrap = Wrapped(hd + m) /\ Wrapped(hd + m) \in 0..(Wrap - 1)
  <2>1. hd + m \in Nat /\ hd + m < 2 * Wrap
    BY <1>0, <1>1, <1>3
  <2>. QED
    BY <2>1, WrapOnce, Zenon
<1>10. T = Wrapped(Wrapped(hd + m) + (n - m)) /\ n - m \in 0..CAPACITY
  BY <1>0, <1>1, <1>3 DEF Wrapped
<1>11. /\ RingType(r) /\ len(r) = n - m
       /\ Items(r) = [i \in 1..(n - m) |-> b[Slot(Wrapped(hd + m) + i - 1)]]
  BY <1>8, <1>9, <1>10, RingFrom, Zenon
<1>12. ASSUME NEW i \in 1..(n - m)
       PROVE  b[Slot(Wrapped(hd + m) + i - 1)] = its[m + i]
  <2>1. /\ hd + m \in Nat /\ hd + m < 2 * Wrap /\ i - 1 \in Nat
        /\ Wrapped(hd + m) + i - 1 = Wrapped(hd + m) + (i - 1)
        /\ (hd + m) + (i - 1) = hd + (m + i) - 1
    BY <1>0, <1>1, <1>3, <1>5, <1>9
  <2>2. Slot(Wrapped(hd + m) + i - 1) = Slot(hd + (m + i) - 1)
    BY <2>1, SlotWrapped, Zenon
  <2>3. m + i \in 1..n /\ m + i \in 1..CAPACITY /\ hd + (m + i) - 1 \in Nat
    BY <1>0, <1>1, <1>3, <1>5
  <2>4. ASSUME NEW k \in 1..m PROVE Slot(hd + (m + i) - 1) # at(k)
    <3>1. k \in 1..CAPACITY /\ m + i # k
      BY <1>0, <1>1, <1>3, <1>5
    <3>2. Slot(hd + (m + i) - 1) # Slot(hd + k - 1)
      BY <1>5, <2>3, <3>1, SlotsDiffer, Zenon
    <3>. QED
      BY <1>6, <3>2, Zenon
  <2>5. Slot(hd + (m + i) - 1) \in 0..(CAPACITY - 1)
    BY <2>3, SlotIn, Zenon
  <2>. QED
    BY <1>1, <1>7, <2>2, <2>3, <2>4, <2>5, Zenon
<1>13. its \in [1..n -> Headers]
  BY <1>1, LenProperties, Zenon
<1>14. /\ out = [i \in 1..m |-> its[i]] /\ out \in Seq(Headers) /\ Len(out) = m
  <2>1. \A i \in 1..m : B[at(i)] = its[i] /\ its[i] \in Headers
    BY <1>1, <1>3, <1>5, <1>6, <1>13
  <2>. QED
    BY <1>5, <2>1
<1>. HIDE DEF out, r
<1>15. /\ Items(r) = [i \in 1..(n - m) |-> its[m + i]]
       /\ Items(r) \in Seq(Headers) /\ Len(Items(r)) = n - m
  <2>1. \A i \in 1..(n - m) : m + i \in 1..n
    BY <1>3, <1>5
  <2>2. \A i \in 1..(n - m) : its[m + i] \in Headers
    BY <1>13, <2>1, Zenon
  <2>3. Items(r) = [i \in 1..(n - m) |-> its[m + i]]
    BY <1>11, <1>12, Zenon
  <2>4. n - m \in Nat
    BY <1>3, <1>5
  <2>5. \A k \in Nat : \A f : f \in [1..k -> Headers] => f \in Seq(Headers) /\ Len(f) = k
    OBVIOUS
  <2>6. Items(r) \in [1..(n - m) -> Headers]
    BY <2>2, <2>3, Zenon
  <2>. QED
    BY <2>3, <2>4, <2>5, <2>6, Zenon
<1>16. its = out \o Items(r)
  <2>. DEFINE cat == out \o Items(r)
  <2>1. /\ cat \in Seq(Headers) /\ Len(cat) = m + (n - m)
        /\ \A i \in 1..(m + (n - m)) : cat[i] = IF i <= m THEN out[i] ELSE Items(r)[i - m]
    <3>1. /\ out \in Seq(Headers) /\ Len(out) = m
          /\ Items(r) \in Seq(Headers) /\ Len(Items(r)) = n - m
      BY <1>14, <1>15, Zenon
    <3>. QED
      BY <3>1, ConcatHeaders
  <2>. HIDE DEF cat
  <2>2. m + (n - m) = n
    BY <1>5
  <2>3. ASSUME NEW i \in 1..n PROVE its[i] = cat[i]
    <3>1. CASE i <= m
      <4>1. i \in 1..m
        BY <1>5, <3>1
      <4>. QED
        BY <1>14, <2>1, <2>2, <3>1, <4>1, Zenon
    <3>2. CASE ~ (i <= m)
      <4>1. i - m \in 1..(n - m) /\ m + (i - m) = i
        BY <1>5, <3>2
      <4>. QED
        BY <1>15, <2>1, <2>2, <3>2, <4>1, Zenon
    <3>. QED
      BY <3>1, <3>2, Zenon
  <2>4. its = cat
    BY <1>1, <2>1, <2>2, <2>3, SeqEqual, Zenon
  <2>. QED
    BY <2>4, Zenon DEF cat
<1>17. drain_front(q, count).q = r /\ drain_front(q, count).items = out
  BY <1>2, <1>9 DEF r
<1>18. RingInv(r)
  BY <1>11, <1>15, Zenon DEF RingInv, r
<1>19. Items(q) = out \o Items(r) /\ Len(out) = IF count < len(q) THEN count ELSE len(q)
  BY <1>4, <1>14, <1>16, Zenon DEF its, n
<1>. QED
  BY <1>14, <1>17, <1>18, <1>19, Zenon

\* LocalQueue::pop: the newest header leaves.
LEMMA RingPop ==
    ASSUME NEW q, RingInv(q), len(q) > 0
    PROVE  LET p == pop(q)
           IN RingInv(p.q) /\ p.h \in Headers /\ Items(q) = Items(p.q) \o <<p.h>>
<1>. DEFINE n   == len(q)
            hd  == q.head
            B   == q.buf
            T   == q.tail
            t   == (T - 1) % Wrap
            b   == [B EXCEPT ![t % CAPACITY] = None]
            its == Items(q)
            h   == B[t % CAPACITY]
            r   == [buf |-> b, head |-> hd, tail |-> Wrapped(hd + (n - 1))]
<1>0. CAPACITY \in Nat /\ CAPACITY > 0 /\ Wrap \in Nat /\ Wrap > CAPACITY
  BY QueuesAssumption
<1>1. /\ B \in [0..(CAPACITY - 1) -> Headers \cup {None}]
      /\ hd \in 0..(Wrap - 1) /\ T \in 0..(Wrap - 1)
      /\ n \in 0..CAPACITY
      /\ T = Wrapped(hd + n)
      /\ its \in Seq(Headers) /\ Len(its) = n
      /\ \A i \in 1..n : its[i] = B[Slot(hd + i - 1)]
  BY RingFacts, Zenon
<1>2. n > 0
  BY Zenon
<1>3. pop(q) = [q |-> [buf |-> b, head |-> hd, tail |-> t], h |-> h]
  BY Zenon DEF pop
<1>. HIDE DEF n, hd, B, T, its
<1>4. hd \in Nat /\ n - 1 \in Nat /\ n \in Nat /\ n - 1 \in 0..CAPACITY
  BY <1>0, <1>1, <1>2
<1>5. t = Wrapped(hd + (n - 1))
  <2>1. CASE T > 0
    <3>1. T - 1 \in 0..(Wrap - 1)
      BY <1>0, <1>1, <2>1
    <3>2. t = T - 1
      BY <1>0, <3>1
    <3>. QED
      BY <1>0, <1>1, <1>2, <1>4, <2>1, <3>2 DEF Wrapped
  <2>2. CASE T = 0
    <3>1. t = Wrap - 1
      BY <1>0, <2>2
    <3>. QED
      BY <1>0, <1>1, <1>2, <1>4, <2>2, <3>1 DEF Wrapped
  <2>. QED
    BY <1>1, <2>1, <2>2
<1>6. t % CAPACITY = Slot(hd + n - 1)
  <2>1. /\ hd + (n - 1) \in Nat /\ hd + (n - 1) < 2 * Wrap /\ hd + (n - 1) = hd + n - 1
    BY <1>0, <1>1, <1>4
  <2>. QED
    BY <1>5, <2>1, WrapOnce, Zenon DEF Slot
<1>7. Slot(hd + n - 1) \in 0..(CAPACITY - 1)
  <2>1. hd + n - 1 \in Nat
    BY <1>4
  <2>. QED
    BY <2>1, SlotIn, Zenon
<1>. HIDE DEF t
<1>8. its \in [1..n -> Headers] /\ n \in 1..n
  BY <1>1, <1>2, <1>4, LenProperties
<1>9. h = its[n] /\ h \in Headers
  BY <1>1, <1>6, <1>8, Zenon
<1>10. b \in [0..(CAPACITY - 1) -> Headers \cup {None}]
  BY <1>1, <1>6, <1>7, Zenon
<1>11. ASSUME NEW i \in 1..(n - 1) PROVE b[Slot(hd + i - 1)] = its[i]
  <2>1. i \in 1..n /\ i \in 1..CAPACITY /\ n \in 1..CAPACITY /\ i # n /\ hd + i - 1 \in Nat
    BY <1>0, <1>1, <1>2, <1>4
  <2>2. Slot(hd + i - 1) # Slot(hd + n - 1)
    BY <1>4, <2>1, SlotsDiffer, Zenon
  <2>3. Slot(hd + i - 1) \in 0..(CAPACITY - 1)
    BY <2>1, SlotIn, Zenon
  <2>. QED
    BY <1>1, <1>6, <1>7, <2>1, <2>2, <2>3, Zenon
<1>. HIDE DEF b, h
<1>12. RingType(r) /\ Items(r) = [i \in 1..(n - 1) |-> b[Slot(hd + i - 1)]]
  BY <1>1, <1>4, <1>10, RingFrom, ZenonT(60)
<1>13. pop(q).q = r /\ pop(q).h = h
  BY <1>3, <1>5
<1>. HIDE DEF r
<1>14. /\ Items(r) = [i \in 1..(n - 1) |-> its[i]]
       /\ Items(r) \in Seq(Headers) /\ Len(Items(r)) = n - 1
  <2>1. Items(r) = [i \in 1..(n - 1) |-> its[i]]
    BY <1>11, <1>12, Zenon
  <2>2. \A i \in 1..(n - 1) : its[i] \in Headers
    BY <1>4, <1>8
  <2>3. \A k \in Nat : \A f : f \in [1..k -> Headers] => f \in Seq(Headers) /\ Len(f) = k
    OBVIOUS
  <2>4. Items(r) \in [1..(n - 1) -> Headers]
    BY <2>1, <2>2, Zenon
  <2>. QED
    BY <1>4, <2>1, <2>3, <2>4, Zenon
<1>15. its = Items(r) \o <<h>>
  <2>. DEFINE cat == Items(r) \o <<h>>
  <2>1. <<h>> \in Seq(Headers) /\ Len(<<h>>) = 1 /\ <<h>>[1] = h
    BY <1>9
  <2>2. /\ cat \in Seq(Headers) /\ Len(cat) = (n - 1) + 1
        /\ \A i \in 1..((n - 1) + 1) : cat[i] = IF i <= n - 1 THEN Items(r)[i] ELSE <<h>>[i - (n - 1)]
    <3>1. /\ Items(r) \in Seq(Headers) /\ Len(Items(r)) = n - 1
          /\ <<h>> \in Seq(Headers) /\ Len(<<h>>) = 1
      BY <1>14, <2>1, Zenon
    <3>. QED
      BY <3>1, ConcatHeaders
  <2>. HIDE DEF cat
  <2>3. (n - 1) + 1 = n
    BY <1>4
  <2>4. ASSUME NEW i \in 1..n PROVE its[i] = cat[i]
    <3>1. CASE i <= n - 1
      <4>1. i \in 1..(n - 1)
        BY <1>4, <3>1
      <4>. QED
        BY <1>14, <2>2, <2>3, <3>1, <4>1, Zenon
    <3>2. CASE ~ (i <= n - 1)
      <4>1. i = n /\ i - (n - 1) = 1
        BY <1>4, <3>2
      <4>. QED
        BY <1>9, <2>1, <2>2, <2>3, <3>2, <4>1, Zenon
    <3>. QED
      BY <3>1, <3>2, Zenon
  <2>5. its = cat
    BY <1>1, <2>2, <2>3, <2>4, SeqEqual, Zenon
  <2>. QED
    BY <2>5, Zenon DEF cat
<1>16. RingInv(r) /\ Items(q) = Items(r) \o <<h>>
  BY <1>12, <1>14, <1>15, Zenon DEF RingInv, its
<1>. QED
  BY <1>9, <1>13, <1>16, Zenon

-----------------------------------------------------------------------------
(* Each header in one place.                                                  *)

\* s holds the headers of x and of y.
Parts(s, x, y) ==
    /\ Range(s) = Range(x) \cup Range(y)
    /\ IsInjective(s) <=> IsInjective(x) /\ IsInjective(y) /\ Range(x) \cap Range(y) = {}

LEMMA ConcatParts ==
    ASSUME NEW s \in Seq(Headers), NEW t \in Seq(Headers)
    PROVE  Parts(s \o t, s, t) /\ Parts(s \o t, t, s)
<1>. DEFINE n  == Len(s)
            m  == Len(t)
            st == s \o t
<1>1. n \in Nat /\ m \in Nat /\ DOMAIN s = 1..n /\ DOMAIN t = 1..m
  BY LenProperties, Zenon
<1>2. /\ st \in Seq(Headers) /\ Len(st) = n + m
      /\ \A i \in 1..(n + m) : st[i] = IF i <= n THEN s[i] ELSE t[i - n]
  BY ConcatProperties, Zenon
<1>3. DOMAIN st = 1..(n + m)
  BY <1>2, LenProperties, Zenon
<1>. HIDE DEF n, m, st
<1>4. \A i \in 1..n : i \in 1..(n + m) /\ st[i] = s[i]
  BY <1>1, <1>2
<1>5. \A i \in 1..m : i + n \in 1..(n + m) /\ st[i + n] = t[i]
  <2>1. SUFFICES ASSUME NEW i \in 1..m PROVE i + n \in 1..(n + m) /\ st[i + n] = t[i]
    BY Zenon
  <2>2. i + n \in 1..(n + m) /\ ~ (i + n <= n) /\ (i + n) - n = i
    BY <1>1
  <2>. QED
    BY <1>2, <2>2, Zenon
<1>6. \A i \in 1..(n + m) : i \in 1..n \/ \E j \in 1..m : i = j + n
  <2>1. SUFFICES ASSUME NEW i \in 1..(n + m), i \notin 1..n PROVE \E j \in 1..m : i = j + n
    BY Zenon
  <2>2. i - n \in 1..m /\ i = (i - n) + n
    BY <1>1, <2>1
  <2>. QED
    BY <2>2, Zenon
<1>7. Range(st) = Range(s) \cup Range(t)
  BY RangeConcatenation DEF st
<1>8. ASSUME IsInjective(st)
      PROVE  IsInjective(s) /\ IsInjective(t) /\ Range(s) \cap Range(t) = {}
  <2>0. \A a, b \in 1..(n + m) : st[a] = st[b] => a = b
    BY <1>3, <1>8, Zenon DEF IsInjective
  <2>1. IsInjective(s)
    BY <1>1, <1>4, <2>0, Zenon DEF IsInjective
  <2>2. ASSUME NEW a \in 1..m, NEW b \in 1..m, t[a] = t[b] PROVE a = b
    <3>1. a + n = b + n
      BY <1>5, <2>0, <2>2, Zenon
    <3>. QED
      BY <1>1, <3>1
  <2>3. IsInjective(t)
    BY <1>1, <2>2, Zenon DEF IsInjective
  <2>4. ASSUME NEW a \in 1..n, NEW b \in 1..m, s[a] = t[b] PROVE FALSE
    <3>1. a = b + n
      BY <1>4, <1>5, <2>0, <2>4
    <3>. QED
      BY <1>1, <3>1
  <2>5. Range(s) \cap Range(t) = {}
    BY <1>1, <2>4, Zenon DEF Range
  <2>. QED
    BY <2>1, <2>3, <2>5, Zenon
<1>9. ASSUME IsInjective(s), IsInjective(t), Range(s) \cap Range(t) = {}
      PROVE  IsInjective(st)
  <2>1. \A a, b \in 1..n : s[a] = s[b] => a = b
    BY <1>1, <1>9, Zenon DEF IsInjective
  <2>2. \A a, b \in 1..m : t[a] = t[b] => a = b
    BY <1>1, <1>9, Zenon DEF IsInjective
  <2>3. \A a \in 1..n, b \in 1..m : s[a] # t[b]
    BY <1>1, <1>9, Zenon DEF Range
  <2>4. ASSUME NEW a \in 1..(n + m), NEW b \in 1..(n + m), st[a] = st[b] PROVE a = b
    <3>1. CASE a \in 1..n /\ b \in 1..n
      BY <1>4, <2>1, <2>4, <3>1
    <3>2. CASE a \in 1..n /\ b \notin 1..n
      BY <1>4, <1>5, <1>6, <2>3, <2>4, <3>2
    <3>3. CASE a \notin 1..n /\ b \in 1..n
      BY <1>4, <1>5, <1>6, <2>3, <2>4, <3>3
    <3>4. CASE a \notin 1..n /\ b \notin 1..n
      BY <1>5, <1>6, <2>2, <2>4, <3>4
    <3>. QED
      BY <3>1, <3>2, <3>3, <3>4, Zenon
  <2>. QED
    BY <1>3, <2>4, Zenon DEF IsInjective
<1>10. Parts(st, s, t) /\ Parts(st, t, s)
  BY <1>7, <1>8, <1>9, Zenon DEF Parts
<1>. QED
  BY <1>10, Zenon DEF st

\* The queues hold c, E has been enqueued and T run: nothing is lost, nothing is twice.
Lossless(c, T, E) ==
    /\ T \cup UNION {Range(c[a]) : a \in QueueIds} = E
    /\ \A a \in QueueIds : IsInjective(c[a]) /\ Range(c[a]) \cap T = {}
    /\ \A a, b \in QueueIds : a # b => Range(c[a]) \cap Range(c[b]) = {}

\* A header that was not enqueued before is put into queue a.
LEMMA LosslessPut ==
    ASSUME NEW c, NEW d, NEW T, NEW E, Lossless(c, T, E), NEW a \in QueueIds,
           \A b \in QueueIds : b # a => d[b] = c[b],
           NEW h, h \notin E, Parts(d[a], c[a], <<h>>)
    PROVE  Lossless(d, T, E \cup {h})
<1>1. Range(<<h>>) = {h} /\ IsInjective(<<h>>)
  BY DEF Range, IsInjective
<1>2. Range(d[a]) = Range(c[a]) \cup {h} /\ IsInjective(d[a])
  <2>1. IsInjective(c[a]) /\ Range(c[a]) \subseteq E
    BY Zenon DEF Lossless
  <2>. QED
    BY <1>1, <2>1, Zenon DEF Parts
<1>3. h \notin T /\ \A b \in QueueIds : h \notin Range(c[b])
  BY Zenon DEF Lossless
<1>4. T \cup UNION {Range(d[b]) : b \in QueueIds} = E \cup {h}
  BY <1>2 DEF Lossless
<1>5. ASSUME NEW b \in QueueIds PROVE IsInjective(d[b]) /\ Range(d[b]) \cap T = {}
  BY <1>2, <1>3, Zenon DEF Lossless
<1>6. ASSUME NEW b \in QueueIds, NEW e \in QueueIds, b # e PROVE Range(d[b]) \cap Range(d[e]) = {}
  BY <1>2, <1>3, <1>6 DEF Lossless
<1>. QED
  BY <1>4, <1>5, <1>6, Zenon DEF Lossless

\* Header h is taken out of queue a and run.
LEMMA LosslessTake ==
    ASSUME NEW c, NEW d, NEW T, NEW E, Lossless(c, T, E), NEW a \in QueueIds,
           \A b \in QueueIds : b # a => d[b] = c[b],
           NEW h, Parts(c[a], d[a], <<h>>)
    PROVE  Lossless(d, T \cup {h}, E)
<1>1. Range(<<h>>) = {h}
  BY DEF Range
<1>2. Range(c[a]) = Range(d[a]) \cup {h} /\ h \notin Range(d[a]) /\ IsInjective(d[a])
  BY <1>1, Zenon DEF Lossless, Parts
<1>3. (T \cup {h}) \cup UNION {Range(d[b]) : b \in QueueIds} = E
  BY <1>2 DEF Lossless
<1>4. ASSUME NEW b \in QueueIds PROVE IsInjective(d[b]) /\ Range(d[b]) \cap (T \cup {h}) = {}
  BY <1>2, Zenon DEF Lossless
<1>5. ASSUME NEW b \in QueueIds, NEW e \in QueueIds, b # e PROVE Range(d[b]) \cap Range(d[e]) = {}
  BY <1>2, <1>5, Zenon DEF Lossless
<1>. QED
  BY <1>3, <1>4, <1>5, Zenon DEF Lossless

\* The headers y of queue a move to queue b.
LEMMA LosslessMove ==
    ASSUME NEW c, NEW d, NEW T, NEW E, Lossless(c, T, E),
           NEW a \in QueueIds, NEW b \in QueueIds, a # b,
           \A e \in QueueIds : e # a /\ e # b => d[e] = c[e],
           NEW y, Parts(c[a], d[a], y), Parts(d[b], c[b], y)
    PROVE  Lossless(d, T, E)
<1>1. /\ Range(c[a]) = Range(d[a]) \cup Range(y) /\ Range(d[a]) \cap Range(y) = {}
      /\ IsInjective(d[a]) /\ IsInjective(y)
  BY Zenon DEF Lossless, Parts
<1>2. Range(d[b]) = Range(c[b]) \cup Range(y) /\ IsInjective(d[b])
  BY <1>1, Zenon DEF Lossless, Parts
<1>3. T \cup UNION {Range(d[e]) : e \in QueueIds} = E
  <2>1. UNION {Range(d[e]) : e \in QueueIds} = UNION {Range(c[e]) : e \in QueueIds}
    BY <1>1, <1>2, Zenon
  <2>. QED
    BY <2>1, Zenon DEF Lossless
<1>4. ASSUME NEW e \in QueueIds PROVE IsInjective(d[e]) /\ Range(d[e]) \cap T = {}
  BY <1>1, <1>2, Zenon DEF Lossless
<1>5. ASSUME NEW e \in QueueIds, NEW f \in QueueIds, e # f PROVE Range(d[e]) \cap Range(d[f]) = {}
  BY <1>1, <1>2, <1>5, Zenon DEF Lossless
<1>. QED
  BY <1>3, <1>4, <1>5, Zenon DEF Lossless

-----------------------------------------------------------------------------
(* The contents of the queues.                                                *)

LocalId(w)     == <<"local", w>>
StealableId(w) == <<"stealable", w>>
GlobalId       == <<"global", 0>>

Contents(l, s, g) ==
    [a \in QueueIds |-> CASE a[1] = "local"     -> Items(l[a[2]])
                          [] a[1] = "stealable" -> Items(s[a[2]])
                          [] a[1] = "global"    -> g]

\* Per-worker rings.
Rings(l) == l = [w \in QWorkers |-> l[w]] /\ \A w \in QWorkers : RingInv(l[w])

LEMMA Ids ==
    ASSUME NEW w \in QWorkers
    PROVE  /\ LocalId(w) \in QueueIds /\ StealableId(w) \in QueueIds /\ GlobalId \in QueueIds
           /\ LocalId(w) # GlobalId /\ StealableId(w) # GlobalId
           /\ \A v \in QWorkers : StealableId(v) # LocalId(w)
BY Zenon DEF LocalId, StealableId, GlobalId, QueueIds

LEMMA IdCases ==
    ASSUME NEW a \in QueueIds
    PROVE  \/ \E w \in QWorkers : a = LocalId(w)
           \/ \E w \in QWorkers : a = StealableId(w)
           \/ a = GlobalId
BY DEF LocalId, StealableId, GlobalId, QueueIds

LEMMA ContentsAt ==
    ASSUME NEW l, NEW s, NEW g
    PROVE  /\ DOMAIN Contents(l, s, g) = QueueIds
           /\ \A w \in QWorkers : /\ Contents(l, s, g)[LocalId(w)] = Items(l[w])
                                  /\ Contents(l, s, g)[StealableId(w)] = Items(s[w])
           /\ Contents(l, s, g)[GlobalId] = g
<1>1. \A w \in QWorkers : LocalId(w) \in QueueIds /\ StealableId(w) \in QueueIds
  BY Ids, Zenon
<1>2. GlobalId \in QueueIds
  BY Zenon DEF GlobalId, QueueIds
<1>. QED
  BY <1>1, <1>2, Zenon DEF Contents, LocalId, StealableId, GlobalId

\* A queue whose ring is the same holds the same.
LEMMA ContentsSame ==
    ASSUME NEW l, NEW s, NEW g, NEW k, NEW t, NEW f, NEW a \in QueueIds,
           \A w \in QWorkers : a = LocalId(w) => k[w] = l[w],
           \A w \in QWorkers : a = StealableId(w) => t[w] = s[w],
           a = GlobalId => f = g
    PROVE  Contents(k, t, f)[a] = Contents(l, s, g)[a]
<1>1. CASE \E w \in QWorkers : a = LocalId(w)
  BY <1>1, ContentsAt
<1>2. CASE \E w \in QWorkers : a = StealableId(w)
  BY <1>2, ContentsAt
<1>3. CASE a = GlobalId
  BY <1>3, ContentsAt
<1>. QED
  BY <1>1, <1>2, <1>3, IdCases, Zenon

QIInv ==
    /\ Rings(local) /\ Rings(stealable) /\ injected \in Seq(Headers)
    /\ NoHeaderLost

LEMMA LosslessIs ==
    NoHeaderLost <=> Lossless(Contents(local, stealable, injected), taken, enqueued)
<1>. DEFINE c == Contents(local, stealable, injected)
<1>1. ASSUME NEW a \in QueueIds PROVE c[a] = Queued(a)
  BY Zenon DEF Contents, Queued
<1>. HIDE DEF c
<1>2. NoHeaderLost <=> Lossless(c, taken, enqueued)
  <2>1. {Range(c[a]) : a \in QueueIds} = {Range(Queued(a)) : a \in QueueIds}
    BY <1>1, Zenon
  <2>. QED
    BY <1>1, <2>1, Zenon DEF NoHeaderLost, Lossless
<1>. QED
  BY <1>2, Zenon DEF c

LEMMA LosslessNext ==
    NoHeaderLost' <=> Lossless(Contents(local', stealable', injected'), taken', enqueued')
<1>. DEFINE c == Contents(local', stealable', injected')
<1>1. ASSUME NEW a \in QueueIds PROVE c[a] = Queued(a)'
  BY Zenon DEF Contents, Queued
<1>. HIDE DEF c
<1>2. NoHeaderLost' <=> Lossless(c, taken', enqueued')
  <2>1. {Range(c[a]) : a \in QueueIds} = {Range(Queued(a)') : a \in QueueIds}
    BY <1>1, Zenon
  <2>. QED
    BY <1>1, <2>1, Zenon DEF NoHeaderLost, Lossless
<1>. QED
  BY <1>2, Zenon DEF c

LEMMA QueuesInitial == QInit => QIInv
<1>. SUFFICES ASSUME QInit PROVE QIInv
  BY Zenon
<1>1. Rings(local) /\ Rings(stealable) /\ injected \in Seq(Headers)
  BY NewRing DEF QInit, Rings
<1>2. ASSUME NEW a \in QueueIds PROVE Queued(a) = <<>>
  BY NewRing, IdCases DEF QInit, Queued, LocalId, StealableId, GlobalId
<1>3. Range(<<>>) = {} /\ IsInjective(<<>>)
  BY DEF Range, IsInjective
<1>4. taken = {} /\ enqueued = {}
  BY Zenon DEF QInit
<1>. QED
  BY <1>1, <1>2, <1>3, <1>4, Zenon DEF QIInv, NoHeaderLost

-----------------------------------------------------------------------------
(* What the steps do to the contents.                                         *)

LEMMA RingsExcept ==
    ASSUME NEW l, Rings(l), NEW w \in QWorkers, NEW q, RingInv(q)
    PROVE  /\ Rings([l EXCEPT ![w] = q]) /\ [l EXCEPT ![w] = q][w] = q
           /\ \A v \in QWorkers : v # w => [l EXCEPT ![w] = q][v] = l[v]
BY Zenon DEF Rings

\* The newest header of worker w's own ring is run (LocalQueue::pop).
LEMMA Popped ==
    ASSUME NEW l, Rings(l), NEW s, NEW g, NEW T, NEW E, Lossless(Contents(l, s, g), T, E),
           NEW w \in QWorkers, len(l[w]) > 0
    PROVE  LET p == pop(l[w])
               k == [l EXCEPT ![w] = p.q]
           IN Rings(k) /\ Lossless(Contents(k, s, g), T \cup {p.h}, E)
<1>. DEFINE p == pop(l[w])
            k == [l EXCEPT ![w] = p.q]
            c == Contents(l, s, g)
            d == Contents(k, s, g)
<1>1. RingInv(l[w])
  BY Zenon DEF Rings
<1>2. RingInv(p.q) /\ p.h \in Headers /\ Items(l[w]) = Items(p.q) \o <<p.h>>
  BY <1>1, RingPop, Zenon
<1>. HIDE DEF p
<1>3. Rings(k) /\ k[w] = p.q /\ \A v \in QWorkers : v # w => k[v] = l[v]
  BY <1>2, RingsExcept
<1>. HIDE DEF k
<1>4. Items(p.q) \in Seq(Headers) /\ <<p.h>> \in Seq(Headers)
  BY <1>2 DEF RingInv
<1>5. Parts(Items(l[w]), Items(p.q), <<p.h>>)
  BY <1>2, <1>4, ConcatParts, Zenon
<1>6. c[LocalId(w)] = Items(l[w]) /\ d[LocalId(w)] = Items(p.q)
  BY <1>3, ContentsAt
<1>7. LocalId(w) \in QueueIds
  BY Ids, Zenon
<1>8. ASSUME NEW b \in QueueIds, b # LocalId(w) PROVE d[b] = c[b]
  <2>1. \A v \in QWorkers : b = LocalId(v) => k[v] = l[v]
    BY <1>3, <1>8, Zenon
  <2>. QED
    BY <2>1, ContentsSame
<1>. HIDE DEF c, d
<1>9. Lossless(c, T, E)
  BY Zenon DEF c
<1>10. Lossless(d, T \cup {p.h}, E)
  BY <1>5, <1>6, <1>7, <1>8, <1>9, LosslessTake
<1>. QED
  BY <1>3, <1>10, Zenon DEF d, k, p

\* The oldest headers of worker v's stealable ring go to worker w's own ring, what does
\* not fit there to the global queue (steal_from, and the batch of next_task).
LEMMA Moved ==
    ASSUME NEW l, Rings(l), NEW s, Rings(s), NEW g \in Seq(Headers), NEW T, NEW E,
           Lossless(Contents(l, s, g), T, E),
           NEW w \in QWorkers, NEW v \in QWorkers, NEW count \in Nat
    PROVE  LET d == drain_front(s[v], count)
               p == push_all(l[w], d.items)
               k == [l EXCEPT ![w] = p.q]
               t == [s EXCEPT ![v] = d.q]
           IN /\ Rings(k) /\ Rings(t) /\ g \o p.over \in Seq(Headers)
              /\ Lossless(Contents(k, t, g \o p.over), T, E)
<1>. DEFINE d  == drain_front(s[v], count)
            p  == push_all(l[w], d.items)
            k  == [l EXCEPT ![w] = p.q]
            t  == [s EXCEPT ![v] = d.q]
            f  == g \o p.over
            A  == StealableId(v)
            L  == LocalId(w)
            c  == Contents(l, s, g)
            c1 == [a \in QueueIds |-> IF a = L THEN Items(l[w]) \o d.items
                                      ELSE IF a = A THEN Items(d.q) ELSE c[a]]
            c2 == Contents(k, t, f)
<1>1. RingInv(s[v]) /\ RingInv(l[w])
  BY Zenon DEF Rings
<1>2. RingInv(d.q) /\ d.items \in Seq(Headers) /\ Items(s[v]) = d.items \o Items(d.q)
  BY <1>1, RingDrain, Zenon
<1>. HIDE DEF d
<1>3. /\ RingInv(p.q) /\ p.over \in Seq(Headers)
      /\ Items(p.q) \o p.over = Items(l[w]) \o d.items
  BY <1>1, <1>2, RingPushAll, Zenon
<1>. HIDE DEF p
<1>4. Rings(k) /\ k[w] = p.q /\ \A u \in QWorkers : u # w => k[u] = l[u]
  BY <1>3, RingsExcept
<1>5. Rings(t) /\ t[v] = d.q /\ \A u \in QWorkers : u # v => t[u] = s[u]
  BY <1>2, RingsExcept
<1>. HIDE DEF k, t
<1>6. /\ Items(l[w]) \in Seq(Headers) /\ Items(d.q) \in Seq(Headers) /\ Items(p.q) \in Seq(Headers)
  BY <1>1, <1>2, <1>3, Zenon DEF RingInv
<1>7. f \in Seq(Headers)
  BY <1>3, ConcatProperties, Zenon
<1>. HIDE DEF f
<1>8. A \in QueueIds /\ L \in QueueIds /\ GlobalId \in QueueIds /\ A # L /\ A # GlobalId /\ L # GlobalId
  BY Ids, Zenon
<1>9. c[A] = Items(s[v]) /\ c[L] = Items(l[w]) /\ c[GlobalId] = g
  BY ContentsAt
<1>10. c2[A] = Items(d.q) /\ c2[L] = Items(p.q) /\ c2[GlobalId] = f
  BY <1>4, <1>5, ContentsAt
<1>11. ASSUME NEW a \in QueueIds, a # A, a # L, a # GlobalId PROVE c2[a] = c[a]
  <2>1. \A u \in QWorkers : a = LocalId(u) => k[u] = l[u]
    BY <1>4, <1>11, Zenon
  <2>2. \A u \in QWorkers : a = StealableId(u) => t[u] = s[u]
    BY <1>5, <1>11, Zenon
  <2>4. CASE \E u \in QWorkers : a = LocalId(u)
    BY <2>1, <2>4, ContentsAt
  <2>5. CASE \E u \in QWorkers : a = StealableId(u)
    BY <2>2, <2>5, ContentsAt
  <2>6. CASE a = GlobalId
    BY <1>11, <2>6, Zenon
  <2>. QED
    BY <2>4, <2>5, <2>6, IdCases, Zenon
<1>12. Lossless(c, T, E)
  BY Zenon
<1>. HIDE DEF c, c2, A, L
<1>13. /\ c1[A] = Items(d.q) /\ c1[L] = Items(l[w]) \o d.items
       /\ \A a \in QueueIds : a # A /\ a # L => c1[a] = c[a]
  BY <1>8, Zenon
<1>. HIDE DEF c1
<1>14. Lossless(c1, T, E)
  <2>1. Parts(c[A], c1[A], d.items)
    BY <1>2, <1>6, <1>9, <1>13, ConcatParts, Zenon
  <2>2. Parts(c1[L], c[L], d.items)
    BY <1>2, <1>6, <1>9, <1>13, ConcatParts, Zenon
  <2>. QED
    BY <1>8, <1>12, <1>13, <2>1, <2>2, LosslessMove, Zenon
<1>15. Lossless(c2, T, E)
  <2>1. Parts(c1[L], c2[L], p.over)
    BY <1>3, <1>6, <1>10, <1>13, ConcatParts, Zenon
  <2>2. Parts(c2[GlobalId], c1[GlobalId], p.over)
    <3>1. Parts(g \o p.over, g, p.over)
      BY <1>3, ConcatParts, Zenon
    <3>. QED
      BY <1>8, <1>9, <1>10, <1>13, <3>1, Zenon DEF f
  <2>3. \A e \in QueueIds : e # L /\ e # GlobalId => c2[e] = c1[e]
    BY <1>10, <1>11, <1>13, Zenon
  <2>. QED
    BY <1>8, <1>14, <2>1, <2>2, <2>3, LosslessMove, Zenon
<1>. QED
  BY <1>4, <1>5, <1>7, <1>15, Zenon DEF c2, f, k, t, p, d

LEMMA VictimIs ==
    ASSUME NEW w \in QWorkers, Victims(w) # {}, Rings(stealable)
    PROVE  /\ Victim(w) \in QWorkers /\ len(stealable[Victim(w)]) \div 2 \in Nat
           /\ len(stealable[Victim(w)]) \div 2 > 0
           /\ len(stealable[Victim(w)]) \div 2 < len(stealable[Victim(w)])
<1>1. Victims(w) \subseteq Nat
  BY QueuesAssumption, Zenon DEF Victims
<1>2. \E v \in Victims(w) : \A u \in Victims(w) : v <= u
  BY <1>1, LeastOf, Zenon
<1>3. Victim(w) \in Victims(w)
  BY <1>2, Zenon DEF Victim
<1>4. Victim(w) \in QWorkers /\ len(stealable[Victim(w)]) \div 2 > 0
  BY <1>3, Zenon DEF Victims
<1>5. RingInv(stealable[Victim(w)])
  BY <1>4, Zenon DEF Rings
<1>6. len(stealable[Victim(w)]) \in Nat
  <2>1. CAPACITY \in Nat
    BY QueuesAssumption, Zenon
  <2>. QED
    BY <1>5, <2>1, RingFacts
<1>. QED
  BY <1>4, <1>6

LEMMA PushHeaderStep ==
    ASSUME QIInv, NEW h \in Headers, push_header(h)
    PROVE  QIInv'
<1>. DEFINE c == Contents(local, stealable, injected)
            d == Contents(local, stealable, injected')
<1>1. /\ h \notin enqueued /\ enqueued' = enqueued \cup {h}
      /\ injected' = Append(injected, h) /\ local' = local /\ stealable' = stealable /\ taken' = taken
  BY Zenon DEF push_header, Enqueue
<1>2. Rings(local) /\ Rings(stealable) /\ injected \in Seq(Headers) /\ Lossless(c, taken, enqueued)
  BY LosslessIs, Zenon DEF QIInv
<1>3. injected' = injected \o <<h>> /\ injected' \in Seq(Headers) /\ <<h>> \in Seq(Headers)
  BY <1>1, <1>2
<1>4. Parts(injected', injected, <<h>>)
  BY <1>2, <1>3, ConcatParts, Zenon
<1>5. c[GlobalId] = injected /\ d[GlobalId] = injected'
  BY ContentsAt
<1>6. ASSUME NEW b \in QueueIds, b # GlobalId PROVE d[b] = c[b]
  BY <1>6, ContentsSame
<1>7. GlobalId \in QueueIds
  BY Zenon DEF GlobalId, QueueIds
<1>. HIDE DEF c, d
<1>8. Lossless(d, taken, enqueued \cup {h})
  <2>1. h \notin enqueued /\ Lossless(c, taken, enqueued) /\ Parts(d[GlobalId], c[GlobalId], <<h>>)
    BY <1>1, <1>2, <1>4, <1>5, Zenon
  <2>. QED
    BY <1>6, <1>7, <2>1, LosslessPut, Zenon
<1>9. Lossless(Contents(local', stealable', injected'), taken', enqueued')
  BY <1>1, <1>8, Zenon DEF d
<1>10. NoHeaderLost'
  BY <1>9, LosslessNext, Zenon
<1>. QED
  BY <1>1, <1>2, <1>3, <1>10, Zenon DEF QIInv

LEMMA PushStealableStep ==
    ASSUME QIInv, NEW w \in QWorkers, NEW h \in Headers, push_stealable(w, h)
    PROVE  QIInv'
<1>. DEFINE p  == push(stealable[w], h)
            t  == [stealable EXCEPT ![w] = p.q]
            f  == injected \o p.over
            A  == StealableId(w)
            c  == Contents(local, stealable, injected)
            c1 == [a \in QueueIds |-> IF a = A THEN Items(stealable[w]) \o <<h>> ELSE c[a]]
            c2 == Contents(local, t, f)
<1>1. /\ h \notin enqueued /\ enqueued' = enqueued \cup {h}
      /\ stealable' = t /\ injected' = f /\ local' = local /\ taken' = taken
  BY Zenon DEF push_stealable, Enqueue
<1>2. Rings(local) /\ Rings(stealable) /\ injected \in Seq(Headers) /\ Lossless(c, taken, enqueued)
  BY LosslessIs, Zenon DEF QIInv
<1>3. RingInv(stealable[w])
  BY <1>2, Zenon DEF Rings
<1>4. /\ RingInv(p.q) /\ p.over \in Seq(Headers)
      /\ Items(p.q) \o p.over = Items(stealable[w]) \o <<h>>
  BY <1>3, RingPush, Zenon
<1>. HIDE DEF p
<1>5. Rings(t) /\ t[w] = p.q /\ \A u \in QWorkers : u # w => t[u] = stealable[u]
  BY <1>2, <1>4, RingsExcept
<1>. HIDE DEF t
<1>6. Items(p.q) \in Seq(Headers) /\ Items(stealable[w]) \in Seq(Headers) /\ <<h>> \in Seq(Headers)
  BY <1>3, <1>4 DEF RingInv
<1>7. f \in Seq(Headers) /\ Parts(f, injected, p.over)
  BY <1>2, <1>4, ConcatProperties, ConcatParts, Zenon
<1>. HIDE DEF f
<1>8. A \in QueueIds /\ GlobalId \in QueueIds /\ A # GlobalId
  BY Ids, Zenon
<1>9. c[A] = Items(stealable[w]) /\ c[GlobalId] = injected
  BY ContentsAt, SMTT(30)
<1>10. c2[A] = Items(p.q) /\ c2[GlobalId] = f
  BY <1>5, ContentsAt
<1>11. ASSUME NEW a \in QueueIds, a # A, a # GlobalId PROVE c2[a] = c[a]
  <2>1. CASE \E u \in QWorkers : a = LocalId(u)
    BY <2>1, ContentsAt
  <2>2. CASE \E u \in QWorkers : a = StealableId(u)
    BY <1>5, <1>11, <2>2, ContentsAt
  <2>. QED
    BY <1>11, <2>1, <2>2, IdCases, Zenon
<1>. HIDE DEF c, c2, A
<1>12. c1[A] = Items(stealable[w]) \o <<h>> /\ \A a \in QueueIds : a # A => c1[a] = c[a]
  BY <1>8, Zenon
<1>. HIDE DEF c1
<1>13. Lossless(c1, taken, enqueued \cup {h})
  <2>1. Parts(c1[A], c[A], <<h>>)
    BY <1>6, <1>9, <1>12, ConcatParts, ZenonT(60)
  <2>2. h \notin enqueued /\ Lossless(c, taken, enqueued)
    BY <1>1, <1>2, Zenon
  <2>. QED
    BY <1>8, <1>12, <2>1, <2>2, LosslessPut, Zenon
<1>14. Lossless(c2, taken, enqueued \cup {h})
  <2>1. Parts(c1[A], c2[A], p.over)
    BY <1>4, <1>6, <1>10, <1>12, ConcatParts, Zenon
  <2>2. Parts(c2[GlobalId], c1[GlobalId], p.over)
    BY <1>7, <1>8, <1>9, <1>10, <1>12, Zenon
  <2>3. \A e \in QueueIds : e # A /\ e # GlobalId => c2[e] = c1[e]
    BY <1>11, <1>12, Zenon
  <2>. QED
    BY <1>8, <1>13, <2>1, <2>2, <2>3, LosslessMove, Zenon
<1>15. Lossless(Contents(local', stealable', injected'), taken', enqueued')
  BY <1>1, <1>14, Zenon DEF c2
<1>16. NoHeaderLost'
  BY <1>15, LosslessNext, Zenon
<1>. QED
  BY <1>1, <1>2, <1>5, <1>7, <1>16, Zenon DEF QIInv

LEMMA StealStep ==
    ASSUME QIInv, NEW w \in QWorkers, steal_one(w)
    PROVE  QIInv'
<1>. DEFINE v == Victim(w)
            n == len(stealable[v]) \div 2
            d == drain_front(stealable[v], n)
            p == push_all(local[w], d.items)
<1>1. /\ stealable' = [stealable EXCEPT ![v] = d.q] /\ local' = [local EXCEPT ![w] = p.q]
      /\ injected' = injected \o p.over /\ enqueued' = enqueued /\ taken' = taken
  BY Zenon DEF steal_one, steal_from
<1>2. /\ Rings(local) /\ Rings(stealable) /\ injected \in Seq(Headers)
      /\ Lossless(Contents(local, stealable, injected), taken, enqueued)
  BY LosslessIs, Zenon DEF QIInv
<1>3. v \in QWorkers /\ n \in Nat
  BY <1>2, VictimIs DEF steal_one
<1>. HIDE DEF v, n
<1>4. /\ Rings(local') /\ Rings(stealable') /\ injected' \in Seq(Headers)
      /\ Lossless(Contents(local', stealable', injected'), taken, enqueued)
  BY <1>1, <1>2, <1>3, Moved, ZenonT(60)
<1>5. NoHeaderLost'
  BY <1>1, <1>4, LosslessNext, ZenonT(60)
<1>. QED
  BY <1>4, <1>5, Zenon DEF QIInv

LEMMA NextTaskStep ==
    ASSUME QIInv, NEW w \in QWorkers, next_task(w)
    PROVE  QIInv'
<1>1. /\ Rings(local) /\ Rings(stealable) /\ injected \in Seq(Headers)
      /\ Lossless(Contents(local, stealable, injected), taken, enqueued)
  BY LosslessIs, Zenon DEF QIInv
<1>2. RingInv(local[w]) /\ RingInv(stealable[w])
  BY <1>1, Zenon DEF Rings
<1>3. CAPACITY \in Nat /\ BATCH \in Nat /\ BATCH > 0 /\ BATCH <= CAPACITY
  BY QueuesAssumption
<1>4. len(stealable[w]) \in Nat
  BY <1>2, <1>3, RingFacts
<1>5. SUFFICES /\ Rings(local') /\ Rings(stealable') /\ injected' \in Seq(Headers)
               /\ Lossless(Contents(local', stealable', injected'), taken', enqueued')
  BY LosslessNext, Zenon DEF QIInv
<1>6. CASE len(local[w]) > 0 /\ Run(w, local[w]) /\ UNCHANGED <<stealable, injected>>
  <2>1. /\ local' = [local EXCEPT ![w] = pop(local[w]).q] /\ taken' = taken \cup {pop(local[w]).h}
        /\ enqueued' = enqueued /\ stealable' = stealable /\ injected' = injected
    BY <1>6, Zenon DEF Run
  <2>. QED
    BY <1>1, <1>6, <2>1, Popped, Zenon
<1>7. CASE /\ len(local[w]) = 0 /\ len(stealable[w]) > 0
           /\ LET d == drain_front(stealable[w], BATCH)
              IN /\ Run(w, push_all(local[w], d.items).q)
                 /\ stealable' = [stealable EXCEPT ![w] = d.q]
           /\ UNCHANGED injected
  <2>. DEFINE d == drain_front(stealable[w], BATCH)
              p == push_all(local[w], d.items)
              k == [local EXCEPT ![w] = p.q]
              t == [stealable EXCEPT ![w] = d.q]
  <2>1. /\ local' = [local EXCEPT ![w] = pop(p.q).q] /\ taken' = taken \cup {pop(p.q).h}
        /\ enqueued' = enqueued /\ stealable' = t /\ injected' = injected
    BY <1>7, Zenon DEF Run
  <2>2. /\ d.items \in Seq(Headers)
        /\ Len(d.items) = IF BATCH < len(stealable[w]) THEN BATCH ELSE len(stealable[w])
    BY <1>2, <1>3, RingDrain, ZenonT(60)
  <2>3. Rings(k) /\ Rings(t) /\ Lossless(Contents(k, t, injected \o p.over), taken, enqueued)
    BY <1>1, <1>3, Moved, SMTT(30)
  <2>. HIDE DEF d
  <2>4. Len(d.items) > 0 /\ Len(d.items) <= CAPACITY - len(local[w]) /\ d.items # <<>>
    BY <1>3, <1>4, <1>7, <2>2
  <2>5. p.over = <<>> /\ len(p.q) > 0
    BY <1>2, <1>7, <2>2, <2>4, RingPushAll, Zenon
  <2>. HIDE DEF p
  <2>6. injected \o p.over = injected
    BY <1>1, <2>5, ConcatEmptySeq, Zenon
  <2>7. k[w] = p.q /\ [k EXCEPT ![w] = pop(p.q).q] = local'
    BY <1>1, <2>1, Zenon DEF Rings
  <2>. HIDE DEF k, t
  <2>8. Lossless(Contents(k, t, injected), taken, enqueued)
    BY <2>3, <2>6, Zenon
  <2>9. Rings(local') /\ Lossless(Contents(local', t, injected), taken \cup {pop(p.q).h}, enqueued)
    BY <2>3, <2>5, <2>7, <2>8, Popped, Zenon
  <2>. QED
    BY <1>1, <2>1, <2>3, <2>9, Zenon
<1>8. CASE /\ injected # <<>>
           /\ taken' = taken \cup {Head(injected)}
           /\ injected' = Tail(injected)
           /\ UNCHANGED <<local, stealable, enqueued>>
  <2>. DEFINE h == Head(injected)
              f == Tail(injected)
              c == Contents(local, stealable, injected)
              e == Contents(local, stealable, f)
  <2>1. h \in Headers /\ f \in Seq(Headers) /\ injected = <<h>> \o f
    BY <1>1, <1>8
  <2>. HIDE DEF h, f
  <2>2. <<h>> \in Seq(Headers)
    BY <2>1
  <2>3. Parts(injected, f, <<h>>)
    BY <2>1, <2>2, ConcatParts, Zenon
  <2>4. c[GlobalId] = injected /\ e[GlobalId] = f
    BY ContentsAt
  <2>5. ASSUME NEW b \in QueueIds, b # GlobalId PROVE e[b] = c[b]
    BY <2>5, ContentsSame
  <2>6. GlobalId \in QueueIds
    BY Zenon DEF GlobalId, QueueIds
  <2>7. Lossless(c, taken, enqueued)
    BY <1>1, Zenon
  <2>. HIDE DEF c, e
  <2>8. Lossless(e, taken \cup {h}, enqueued)
    BY <2>3, <2>4, <2>5, <2>6, <2>7, LosslessTake, Zenon
  <2>9. /\ local' = local /\ stealable' = stealable /\ injected' = f
        /\ taken' = taken \cup {h} /\ enqueued' = enqueued
    BY <1>8, Zenon DEF h, f
  <2>. QED
    BY <1>1, <2>1, <2>8, <2>9 DEF e
<1>9. CASE /\ len(local[w]) = 0 /\ injected = <<>> /\ Victims(w) # {}
           /\ LET v == Victim(w)
                  s == steal_from(v, w)
              IN /\ Run(w, s.local)
                 /\ stealable' = [stealable EXCEPT ![v] = s.victim]
                 /\ injected' = s.spilled
  <2>. DEFINE v == Victim(w)
              n == len(stealable[v]) \div 2
              d == drain_front(stealable[v], n)
              p == push_all(local[w], d.items)
              k == [local EXCEPT ![w] = p.q]
              t == [stealable EXCEPT ![v] = d.q]
              f == injected \o p.over
  <2>1. /\ local' = [local EXCEPT ![w] = pop(p.q).q] /\ taken' = taken \cup {pop(p.q).h}
        /\ enqueued' = enqueued /\ stealable' = t /\ injected' = p.over
    BY <1>9, Zenon DEF Run, steal_from
  <2>2. v \in QWorkers /\ n \in Nat /\ n > 0 /\ n < len(stealable[v])
    BY <1>1, <1>9, VictimIs, Zenon
  <2>. HIDE DEF v, n
  <2>3. RingInv(stealable[v])
    BY <1>1, <2>2, Zenon DEF Rings
  <2>4. d.items \in Seq(Headers) /\ Len(d.items) = n
    BY <2>2, <2>3, RingDrain, Zenon
  <2>5. Rings(k) /\ Rings(t) /\ f \in Seq(Headers) /\ Lossless(Contents(k, t, f), taken, enqueued)
    BY <1>1, <2>2, Moved, Zenon
  <2>. HIDE DEF d
  <2>6. d.items # <<>>
    BY <2>2, <2>4
  <2>7. len(p.q) > 0 /\ p.over \in Seq(Headers)
    BY <1>2, <1>9, <2>4, <2>6, RingPushAll, Zenon
  <2>. HIDE DEF p
  <2>8. f = injected'
    BY <1>9, <2>1, <2>7, ConcatEmptySeq
  <2>9. k[w] = p.q /\ [k EXCEPT ![w] = pop(p.q).q] = local'
    BY <1>1, <2>1, Zenon DEF Rings
  <2>. HIDE DEF k, t, f
  <2>10. Rings(local') /\ Lossless(Contents(local', t, f), taken \cup {pop(p.q).h}, enqueued)
    BY <2>5, <2>7, <2>9, Popped, Zenon
  <2>. QED
    BY <2>1, <2>5, <2>8, <2>10, Zenon
<1>. QED
  BY <1>6, <1>7, <1>8, <1>9, Zenon DEF next_task

LEMMA QueuesInductive == QIInv /\ [QNext]_queueVars => QIInv'
<1>. SUFFICES ASSUME QIInv, [QNext]_queueVars PROVE QIInv'
  BY Zenon
<1>1. CASE UNCHANGED queueVars
  <2>1. /\ local' = local /\ stealable' = stealable /\ injected' = injected
        /\ taken' = taken /\ enqueued' = enqueued
    BY <1>1, Zenon DEF queueVars
  <2>2. NoHeaderLost'
    BY <2>1, LosslessIs, LosslessNext DEF QIInv
  <2>. QED
    BY <2>1, <2>2, Zenon DEF QIInv
<1>. QED
  BY <1>1, PushHeaderStep, PushStealableStep, StealStep, NextTaskStep, Zenon DEF QNext

\* The indices of every ring of the work-stealing pool stay within a ring's length of each
\* other, and every header that was pushed is in one slot of one queue or was run
\* (LocalQueue, StealableQueue::steal_from, WorkerThread::next_task).
THEOREM QueuesInvariant == QSpec => []QIInv
BY QueuesInitial, QueuesInductive, PTL DEF QSpec

\* No header is lost or run twice, for every capacity, batch, index width and number of
\* workers: whatever a push gives back or a steal spills is put somewhere else.
THEOREM QueuesNoHeaderLost == QSpec => []NoHeaderLost
<1>1. QIInv => NoHeaderLost
  BY Zenon DEF QIInv
<1>. QED
  BY <1>1, QueuesInvariant, PTL
=============================================================================
