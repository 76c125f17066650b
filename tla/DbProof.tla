------------------------------ MODULE DbProof ------------------------------
(***************************************************************************)
(* Proofs about the database crate.  The pool: live is exact, for every      *)
(* number of clients, every max_size and min_idle.  The migration engine:    *)
(* migrations are applied once and in order, for any directory, any number   *)
(* of instances that run them at the same time and connections lost at any   *)
(* step.                                                                     *)
(***************************************************************************)
EXTENDS Pool, Migrate, FiniteSetTheorems, TLAPS

-----------------------------------------------------------------------------
(* The pool.                                                                  *)

Labels  == {"off", "try", "opening", "failed", "full", "waiting", "using"}
Holding == {"opening", "failed", "using"}

\* Between two sweeps no connection is out for checking.
CheckInv == sweep # "check" => to_check = 0

\* Accounting is inductive together with the types and CheckInv: a slot that is given back
\* was counted, so live stays within 0..MaxSize, and what live bounds stays within it too.
PoolInv == TypeOK /\ Accounting

\* The number of slots in tasks' hands is a natural number.
LEMMA SlotsNat ==
    ASSUME NEW S
    PROVE  Slots(S) \in Nat /\ IsFiniteSet({p \in Procs : pc[p] \in S})
<1>1. IsFiniteSet(Procs)
  BY PoolAssumption, FS_AddElement, Zenon DEF Procs
<1>2. IsFiniteSet({p \in Procs : pc[p] \in S})
  BY <1>1, FS_Subset, Zenon
<1> QED BY <1>2, FS_CardinalityType, Zenon DEF Slots

\* A task that comes to hold a slot adds one to them.
LEMMA SlotsEnter ==
    ASSUME NEW S, NEW p \in Procs, NEW l, l \in S, pc[p] \notin S,
           pc \in [Procs -> Labels], pc' = [pc EXCEPT ![p] = l]
    PROVE  Slots(S)' = Slots(S) + 1
<1>1. {q \in Procs : pc'[q] \in S} = {q \in Procs : pc[q] \in S} \cup {p}
  BY Zenon
<1>2. p \notin {q \in Procs : pc[q] \in S}
  BY Zenon
<1>3. Cardinality({q \in Procs : pc[q] \in S} \cup {p})
        = Cardinality({q \in Procs : pc[q] \in S}) + 1
  BY <1>2, SlotsNat, FS_AddElement, ZenonT(60)
<1> QED BY <1>1, <1>3, Zenon DEF Slots

\* A task that gives its slot up takes one away from them.
LEMMA SlotsLeave ==
    ASSUME NEW S, NEW p \in Procs, NEW l, l \notin S, pc[p] \in S,
           pc \in [Procs -> Labels], pc' = [pc EXCEPT ![p] = l]
    PROVE  Slots(S) = Slots(S)' + 1 /\ Slots(S)' \in Nat
<1> DEFINE H == {q \in Procs : pc[q] \in S}
<1>1. {q \in Procs : pc'[q] \in S} = H \ {p}
  BY Zenon
<1>2. p \in H /\ IsFiniteSet(H) /\ Cardinality(H) \in Nat
  BY SlotsNat, Zenon DEF Slots
<1>3. IsFiniteSet(H \ {p}) /\ Cardinality(H \ {p}) = Cardinality(H) - 1
  <2> HIDE DEF H
  <2> QED BY <1>2, FS_RemoveElement, Zenon
<1>4. Cardinality(H \ {p}) \in Nat
  BY <1>3, FS_CardinalityType, Zenon
<1>5. Slots(S) = Cardinality(H) /\ Slots(S)' = Cardinality(H \ {p})
  BY <1>1, Zenon DEF Slots
<1> HIDE DEF H
<1> QED BY <1>2, <1>3, <1>4, <1>5

\* Any other step of a task leaves their number alone.
LEMMA SlotsStay ==
    ASSUME NEW S, NEW p \in Procs, NEW l, l \in S <=> pc[p] \in S,
           pc \in [Procs -> Labels], pc' = [pc EXCEPT ![p] = l]
    PROVE  Slots(S)' = Slots(S)
<1>1. {q \in Procs : pc'[q] \in S} = {q \in Procs : pc[q] \in S}
  BY Zenon
<1> QED BY <1>1, Zenon DEF Slots

-----------------------------------------------------------------------------

\* What the arithmetic needs of the types.
LEMMA Numbers ==
    TypeOK => idle \in Nat /\ live \in Nat /\ to_check \in Nat /\ survivors \in Nat /\ lost \in Nat
BY PoolAssumption DEF TypeOK

\* Whoever holds a slot is counted: subtracting its slot never meets zero.
LEMMA LivePositive ==
    ASSUME TypeOK, Accounting, Slots(Holding) \in Nat, Slots(Holding) # 0
    PROVE  live > 0
BY Numbers DEF Accounting, Holding

LEMMA InitInv == Init => PoolInv
<1> SUFFICES ASSUME Init PROVE PoolInv
  BY Zenon
<1>1. {p \in Procs : pc[p] \in Holding} = {}
  BY Zenon DEF Init, Holding
<1>2. Slots(Holding) = 0
  BY <1>1, FS_EmptySet, Zenon DEF Slots
<1>3. TypeOK
  <2>1. waiters \in Seq(Procs)
    BY DEF Init
  <2>2. 0 \in 0..MaxSize /\ 0 \in 0..MinIdle /\ 0 \in 0..MaxSweeps
    BY PoolAssumption
  <2> QED BY <2>1, <2>2, Zenon DEF TypeOK, Init
<1>4. Accounting
  BY <1>2 DEF Accounting, Holding, Init
<1> QED BY <1>3, <1>4, Zenon DEF PoolInv

\* The steps that count nothing: they move no slot and touch none of the numbers.
LEMMA QuietStep ==
    ASSUME TypeOK, Accounting, TypeOK', Slots(Holding)' = Slots(Holding),
           UNCHANGED <<idle, live, to_check, survivors, lost>>
    PROVE  Accounting'
BY Zenon DEF Accounting, Holding

LEMMA AcquireInv ==
    ASSUME PoolInv, NEW p \in Procs, Acquire(p)
    PROVE  PoolInv'
<1> USE PoolAssumption DEF PoolInv, Goto, Holding, Labels
<1>0. Slots(Holding) \in Nat /\ p \in Procs
  BY SlotsNat, Zenon
<1>1. CASE acquire(p)
  <2>1. Slots(Holding)' = Slots(Holding)
    BY <1>1, SlotsStay, Zenon DEF acquire, TypeOK
  <2>2. TypeOK'
    <3>1. /\ pc' \in [Procs -> Labels] /\ late' \in [Procs -> BOOLEAN]
          /\ acquires' \in [Procs -> Nat] /\ asleep' \in [Procs -> Nat]
      BY <1>1, SMTT(60) DEF acquire, TypeOK
    <3>2. old' \in [Procs -> Nat]
      BY <1>1 DEF acquire, TypeOK
    <3> QED BY <1>1, <3>1, <3>2, Zenon DEF acquire, TypeOK, sweepVars
  <2> QED BY <1>1, <2>1, <2>2, QuietStep, Zenon DEF acquire, sweepVars
<1>2. CASE acquire_closed(p)
  <2>1. Slots(Holding)' = Slots(Holding)
    BY <1>2, SlotsStay, Zenon DEF acquire_closed, TypeOK
  <2>2. TypeOK'
    BY <1>2 DEF acquire_closed, TypeOK, waitVars, round_done, Minus1
  <2> QED BY <1>2, <2>1, <2>2, QuietStep, Zenon DEF acquire_closed
<1>3. CASE acquire_evict(p)
  <2>1. Slots(Holding)' = Slots(Holding)
    BY <1>3, Zenon DEF acquire_evict, Slots
  <2>2. TypeOK'
    BY <1>3, SMTT(60) DEF acquire_evict, TypeOK, waitVars, sweepVars, Minus1
  <2> QED BY <1>0, <1>3, <2>1, <2>2, Numbers, SMTT(60) DEF acquire_evict, Accounting, sweepVars, Minus1
<1>4. CASE acquire_idle(p)
  <2>1. Slots(Holding)' = Slots(Holding) + 1
    BY <1>4, SlotsEnter, Zenon DEF acquire_idle, TypeOK
  <2>2. TypeOK'
    BY <1>4, SMTT(60) DEF acquire_idle, TypeOK, waitVars, sweepVars
  <2> QED BY <1>0, <1>4, <2>1, <2>2, Numbers, SMTT(60) DEF acquire_idle, Accounting, sweepVars
<1>5. CASE acquire_reserve(p)
  <2>1. Slots(Holding)' = Slots(Holding) + 1
    BY <1>5, SlotsEnter, Zenon DEF acquire_reserve, TypeOK
  <2>2. TypeOK'
    BY <1>5 DEF acquire_reserve, TypeOK, waitVars, sweepVars
  <2> QED BY <1>0, <1>5, <2>1, <2>2, Numbers DEF acquire_reserve, Accounting, sweepVars
<1>6. CASE acquire_full(p)
  <2>1. Slots(Holding)' = Slots(Holding)
    BY <1>6, SlotsStay, Zenon DEF acquire_full, TypeOK
  <2>2. TypeOK'
    BY <1>6, Zenon DEF acquire_full, TypeOK, waitVars, sweepVars
  <2> QED BY <1>6, <2>1, <2>2, QuietStep, Zenon DEF acquire_full, sweepVars
<1>7. CASE open_connection(p)
  <2> PICK l \in {"using", "failed"} : pc' = [pc EXCEPT ![p] = l]
    BY <1>7, Zenon DEF open_connection
  <2>1. Slots(Holding)' = Slots(Holding)
    BY <1>7, SlotsStay, Zenon DEF open_connection, TypeOK
  <2>2. TypeOK'
    BY <1>7, Zenon DEF open_connection, TypeOK, waitVars, sweepVars
  <2> QED BY <1>7, <2>1, <2>2, QuietStep, Zenon DEF open_connection, sweepVars
<1>8. CASE give_back(p)
  <2>1. Slots(Holding) = Slots(Holding)' + 1 /\ Slots(Holding)' \in Nat
    BY <1>8, SlotsLeave, Zenon DEF give_back, TypeOK
  <2>2. live > 0
    BY <1>0, <2>1, LivePositive, SMTT(60)
  <2>3. TypeOK'
    BY <1>8, <2>2, SMTT(60) DEF give_back, TypeOK, waitVars, round_done, Minus1
  <2> QED BY <1>8, <2>1, <2>3, Numbers DEF give_back, Accounting
<1>9. CASE acquire_timeout(p)
  <2>1. Slots(Holding)' = Slots(Holding)
    BY <1>9, SlotsStay, Zenon DEF acquire_timeout, TypeOK
  <2>2. TypeOK'
    BY <1>9, SMTT(60) DEF acquire_timeout, TypeOK, waitVars, round_done, Minus1
  <2> QED BY <1>9, <2>1, <2>2, QuietStep, Zenon DEF acquire_timeout
<1> QED BY <1>1, <1>2, <1>3, <1>4, <1>5, <1>6, <1>7, <1>8, <1>9, Zenon DEF Acquire

LEMMA WaitInv ==
    ASSUME PoolInv, NEW p \in Procs, Wait(p)
    PROVE  PoolInv'
<1> USE PoolAssumption DEF PoolInv, Goto, Holding, Labels
<1>1. CASE wait_for_release(p)
  <2>1. Slots(Holding)' = Slots(Holding)
    BY <1>1, SlotsStay, Zenon DEF wait_for_release, TypeOK
  <2>2. TypeOK'
    BY <1>1, SMTT(60) DEF wait_for_release, TypeOK, sweepVars
  <2> QED BY <1>1, <2>1, <2>2, QuietStep, Zenon DEF wait_for_release, sweepVars
<1>2. CASE register(p)
  <2>1. Slots(Holding)' = Slots(Holding)
    BY <1>2, Zenon DEF register, Slots
  <2>2. TypeOK'
    <3>1. unregistered' \in [Procs -> Nat] /\ asleep' \in [Procs -> Nat]
      BY <1>2, SMTT(60) DEF register, TypeOK
    <3>2. waiters' \in Seq(Procs)
      BY <1>2 DEF register, TypeOK
    <3> QED BY <1>2, <3>1, <3>2, Zenon DEF register, TypeOK, sweepVars
  <2> QED BY <1>2, <2>1, <2>2, QuietStep, Zenon DEF register, sweepVars
<1>3. CASE deadline(p)
  <2>1. Slots(Holding)' = Slots(Holding)
    BY <1>3, Zenon DEF deadline, Slots
  <2>2. TypeOK'
    BY <1>3, Zenon DEF deadline, TypeOK, sweepVars
  <2> QED BY <1>3, <2>1, <2>2, QuietStep, Zenon DEF deadline, sweepVars
<1>4. CASE sleep_over(p)
  <2>1. Slots(Holding)' = Slots(Holding)
    BY <1>4, Zenon DEF sleep_over, Slots
  <2>2. asleep' \in [Procs -> Nat] /\ old' \in [Procs -> Nat] /\ woken' \in [Procs -> BOOLEAN]
    <3>0. asleep \in [Procs -> Nat] /\ old \in [Procs -> Nat] /\ woken \in [Procs -> BOOLEAN]
      BY Zenon DEF TypeOK
    <3>1. woken' \in [Procs -> BOOLEAN]
      BY <1>4, <3>0, Zenon DEF sleep_over
    <3>2. CASE asleep[p] > 0 /\ asleep' = [asleep EXCEPT ![p] = @ - 1] /\ UNCHANGED old
      BY <3>0, <3>1, <3>2
    <3>3. CASE old[p] > 0 /\ old' = [old EXCEPT ![p] = @ - 1] /\ UNCHANGED asleep
      BY <3>0, <3>1, <3>3, SMTT(60)
    <3> QED BY <1>4, <3>2, <3>3, Zenon DEF sleep_over
  <2>3. TypeOK'
    BY <1>4, <2>2, Zenon DEF sleep_over, TypeOK, sweepVars
  <2> QED BY <1>4, <2>1, <2>3, QuietStep, Zenon DEF sleep_over, sweepVars
<1>5. CASE wait_over(p)
  <2>1. Slots(Holding)' = Slots(Holding)
    BY <1>5, SlotsStay, Zenon DEF wait_over, TypeOK
  <2>2. TypeOK'
    BY <1>5, Zenon DEF wait_over, TypeOK, waitVars, sweepVars
  <2> QED BY <1>5, <2>1, <2>2, QuietStep, Zenon DEF wait_over, sweepVars
<1> QED BY <1>1, <1>2, <1>3, <1>4, <1>5, Zenon DEF Wait

LEMMA UseInv ==
    ASSUME PoolInv, NEW p \in Procs, Use(p)
    PROVE  PoolInv'
<1> USE PoolAssumption DEF PoolInv, Goto, Holding, Labels
<1>0. idle \in Nat /\ live \in Nat /\ to_check \in Nat /\ survivors \in Nat /\ lost \in Nat
      /\ live <= MaxSize /\ MaxSize \in Nat
  BY DEF TypeOK
<1>1. CASE release(p)
  <2>1. Slots(Holding) = Slots(Holding)' + 1 /\ Slots(Holding)' \in Nat
    BY <1>1, SlotsLeave, Zenon DEF release, TypeOK
  <2>2. live > 0 /\ idle < MaxSize /\ live > idle
    BY <1>0, <2>1 DEF Accounting
  <2>3. /\ (live' = live - 1 /\ idle' = idle) \/ (live' = live /\ idle' = idle + 1)
        /\ UNCHANGED <<to_check, survivors, lost>>
    <3>1. CASE closed \/ idle >= MaxSize
      <4>1. live' = Minus1(live) /\ UNCHANGED <<idle, to_check, survivors, lost>>
        BY <1>1, <3>1, Zenon DEF release
      <4>2. live' = live - 1
        BY <1>0, <2>2, <4>1 DEF Minus1
      <4> QED BY <4>1, <4>2, Zenon
    <3>2. CASE ~(closed \/ idle >= MaxSize)
      BY <1>1, <3>2, Zenon DEF release
    <3> QED BY <3>1, <3>2, Zenon
  <2>4. waiters' \in Seq(Procs) /\ woken' \in [Procs -> BOOLEAN]
    <3>0. waiters \in Seq(Procs) /\ woken \in [Procs -> BOOLEAN]
      BY Zenon DEF TypeOK
    <3>1. CASE UNCHANGED <<waiters, woken>>
      BY <3>0, <3>1, Zenon
    <3>2. CASE /\ waiters # <<>>
               /\ waiters' = SubSeq(waiters, 1, Len(waiters) - 1)
               /\ woken' = [woken EXCEPT ![waiters[Len(waiters)]] = TRUE]
      <4>1. waiters' \in Seq(Procs)
        BY <3>0, <3>2
      <4>2. woken' \in [Procs -> BOOLEAN]
        BY <3>0, <3>2, Zenon
      <4> QED BY <4>1, <4>2, Zenon
    <3> QED BY <1>1, <3>1, <3>2, Zenon DEF release
  <2>5. needed' \in 0..MinIdle
    <3>0. needed \in 0..MinIdle /\ MinIdle \in Nat
      BY DEF TypeOK
    <3>1. needed' \in {needed, 0} \/ (needed > 0 /\ needed' = needed - 1)
      BY <1>1, <3>0 DEF release, round_done, Minus1
    <3> QED BY <3>0, <3>1
  <2>6. live' \in 0..MaxSize /\ idle' \in 0..MaxSize
    BY <1>0, <2>2, <2>3
  <2>7. TypeOK'
    BY <1>1, <2>4, <2>5, <2>6, Zenon DEF release, TypeOK
  <2>8. Accounting'
    BY <1>0, <2>1, <2>2, <2>3 DEF Accounting
  <2> QED BY <2>7, <2>8, Zenon
<1>2. CASE drop_conn(p)
  <2>1. Slots(Holding) = Slots(Holding)' + 1 /\ Slots(Holding)' \in Nat
    BY <1>2, SlotsLeave, Zenon DEF drop_conn, TypeOK
  <2>2. lost < MaxSize
    BY <1>0, <2>1 DEF Accounting
  <2>3. TypeOK'
    BY <1>2, <2>2, SMTT(60) DEF drop_conn, TypeOK, waitVars, sweepVars
  <2> QED BY <1>0, <1>2, <2>1, <2>3 DEF drop_conn, Accounting, sweepVars
<1>3. CASE drop_acquire(p)
  <2>1. Slots(Holding)' = Slots(Holding)
    BY <1>3, SlotsStay, Zenon DEF drop_acquire, TypeOK
  <2>2. TypeOK'
    BY <1>3, Zenon DEF drop_acquire, TypeOK, waitVars, sweepVars
  <2> QED BY <1>3, <2>1, <2>2, QuietStep, Zenon DEF drop_acquire, sweepVars
<1> QED BY <1>1, <1>2, <1>3, Zenon DEF Use

LEMMA CloseInv ==
    ASSUME PoolInv, close
    PROVE  PoolInv'
<1> USE PoolAssumption DEF PoolInv, Holding
<1>0. idle \in Nat /\ live \in Nat /\ to_check \in Nat /\ survivors \in Nat /\ lost \in Nat
      /\ live <= MaxSize /\ MaxSize \in Nat
  BY DEF TypeOK
<1>s. Slots(Holding) \in Nat
  BY SlotsNat, Zenon
<1>1. Slots(Holding)' = Slots(Holding)
  BY Zenon DEF close, Slots
<1>2. live' = live - idle /\ live' \in 0..MaxSize
  BY <1>0, <1>s, SMTT(60) DEF close, Accounting
<1>3. woken' \in [Procs -> BOOLEAN] /\ waiters' \in Seq(Procs)
  BY DEF close
<1>4. TypeOK'
  BY <1>2, <1>3 DEF close, TypeOK, sweepVars
<1>5. Accounting'
  <2>1. idle' = 0 /\ UNCHANGED <<to_check, survivors, lost>>
    BY Zenon DEF close, sweepVars
  <2> QED BY <1>0, <1>s, <1>1, <1>2, <2>1, SMTT(60) DEF Accounting
<1> QED BY <1>4, <1>5, Zenon

LEMMA SweepInv ==
    ASSUME PoolInv, CheckInv, Sweep
    PROVE  PoolInv'
<1> USE PoolAssumption DEF PoolInv, Holding, poolVars
<1>0. idle \in Nat /\ live \in Nat /\ to_check \in Nat /\ survivors \in Nat /\ lost \in Nat
      /\ live <= MaxSize /\ MaxSize \in Nat
  BY DEF TypeOK
<1>s. Slots(Holding) \in Nat
  BY SlotsNat, Zenon
<1>1. Slots(Holding)' = Slots(Holding)
  BY Zenon DEF Sweep, monitor_tick, sweep_drain, sweep_evict, sweep_keep, sweep_return,
         sweep_idle_count, sweep_live_count, sweep_end, Slots
<1>2. CASE monitor_tick
  <2>1. TypeOK'
    BY <1>2 DEF monitor_tick, TypeOK, waitVars
  <2> QED BY <1>1, <1>2, <2>1, QuietStep, Zenon DEF monitor_tick
<1>3. CASE sweep_drain
  <2>1. to_check = 0
    BY <1>3, Zenon DEF sweep_drain, CheckInv
  <2>2. TypeOK'
    BY <1>3 DEF sweep_drain, TypeOK, waitVars
  <2> QED BY <1>0, <1>s, <1>1, <1>3, <2>1, <2>2, SMTT(60) DEF sweep_drain, Accounting
<1>4. CASE sweep_evict
  <2>1. live > 0
    BY <1>0, <1>s, <1>4, SMTT(60) DEF sweep_evict, Accounting
  <2>2. TypeOK'
    BY <1>0, <1>4, <2>1, SMTT(60) DEF sweep_evict, TypeOK, waitVars, Minus1
  <2> QED BY <1>0, <1>s, <1>1, <1>4, <2>1, <2>2, SMTT(60) DEF sweep_evict, Accounting, Minus1
<1>5. CASE sweep_keep
  <2>1. survivors < MaxSize
    BY <1>0, <1>s, <1>5, SMTT(60) DEF sweep_keep, Accounting
  <2>2. TypeOK'
    BY <1>5, <2>1 DEF sweep_keep, TypeOK, waitVars
  <2> QED BY <1>0, <1>s, <1>1, <1>5, <2>2, SMTT(60) DEF sweep_keep, Accounting
<1>6. CASE sweep_return
  <2>1. idle + survivors <= MaxSize
    BY <1>0, <1>s, SMTT(60) DEF Accounting
  <2>2. TypeOK'
    BY <1>0, <1>6, <2>1 DEF sweep_return, TypeOK, waitVars
  <2> QED BY <1>0, <1>s, <1>1, <1>6, <2>2, SMTT(60) DEF sweep_return, Accounting
<1>7. CASE sweep_idle_count
  <2>1. TypeOK'
    BY <1>7, Zenon DEF sweep_idle_count, TypeOK, waitVars
  <2> QED BY <1>1, <1>7, <2>1, QuietStep, Zenon DEF sweep_idle_count
<1>8. CASE sweep_live_count
  <2>1. needed' \in 0..MinIdle
    BY <1>8, SMTT(60) DEF sweep_live_count, TypeOK, Least
  <2>2. TypeOK'
    BY <1>8, <2>1, Zenon DEF sweep_live_count, TypeOK, waitVars
  <2> QED BY <1>1, <1>8, <2>2, QuietStep, SMTT(60) DEF sweep_live_count
<1>9. CASE sweep_end
  <2>1. TypeOK'
    BY <1>9, Zenon DEF sweep_end, TypeOK, waitVars
  <2> QED BY <1>1, <1>9, <2>1, QuietStep, Zenon DEF sweep_end
<1> QED BY <1>2, <1>3, <1>4, <1>5, <1>6, <1>7, <1>8, <1>9, ZenonT(60) DEF Sweep

LEMMA StutterInv ==
    ASSUME PoolInv, UNCHANGED vars
    PROVE  PoolInv'
BY Zenon  DEF PoolInv, TypeOK, Accounting, Slots, vars, waitVars, sweepVars

LEMMA CheckStep ==
    ASSUME CheckInv, TypeOK, [Next]_vars
    PROVE  CheckInv'
<1>1. CASE \E p \in Procs : Acquire(p)
  <2>1. UNCHANGED <<sweep, to_check>>
    BY <1>1, ZenonT(60)
       DEF Acquire, acquire, acquire_closed, acquire_evict, acquire_idle, acquire_reserve,
       acquire_full, open_connection, give_back, acquire_timeout, sweepVars
  <2> QED BY <2>1, Zenon DEF CheckInv
<1>2. CASE \E p \in Procs : Wait(p) \/ Use(p)
  <2>1. UNCHANGED <<sweep, to_check>>
    BY <1>2, Zenon DEF Wait, wait_for_release, register, deadline, sleep_over, wait_over,
       Use, release, drop_conn, drop_acquire, sweepVars
  <2> QED BY <2>1, Zenon DEF CheckInv
<1>3. CASE close \/ UNCHANGED vars
  BY <1>3, Zenon DEF close, vars, sweepVars, CheckInv
<1>4. CASE Sweep
  BY <1>4, Zenon DEF Sweep, monitor_tick, sweep_drain, sweep_evict, sweep_keep, sweep_return,
     sweep_idle_count, sweep_live_count, sweep_end, CheckInv
<1> QED BY <1>1, <1>2, <1>3, <1>4, Zenon DEF Next

\* PoolInv holds in every reachable state, whatever tasks, sweeps and close() interleave.
THEOREM PoolInvariant == Spec => [](PoolInv /\ CheckInv)
<1>1. ASSUME PoolInv /\ CheckInv, [Next]_vars PROVE (PoolInv /\ CheckInv)'
  <2>1. CheckInv'
    BY <1>1, CheckStep, Zenon DEF PoolInv
  <2>2. PoolInv'
    <3>1. CASE \E p \in Procs : Acquire(p) \/ Wait(p) \/ Use(p)
      BY <1>1, <3>1, AcquireInv, WaitInv, UseInv, Zenon
    <3> QED BY <1>1, <3>1, CloseInv, SweepInv, StutterInv DEF Next
  <2> QED BY <2>1, <2>2, Zenon
<1>2. Init => CheckInv
  BY DEF Init, CheckInv
<1> QED BY <1>1, <1>2, InitInv, PTL DEF Spec

\* The types of the pool's state: live, idle and the counts of the sweep never leave
\* 0..max_size.
THEOREM PoolTypeOK == Spec => []TypeOK
BY PoolInvariant, PTL DEF PoolInv

\* acquire, release, close and run_health_sweep keep live equal to the connections and
\* reserved slots there are, for any max_size, min_idle and number of clients.
THEOREM PoolAccounting == Spec => []Accounting
BY PoolInvariant, PTL DEF PoolInv

\* The pool never has more than max_size connections open or being opened.
THEOREM PoolAtMostMaxSize == Spec => []AtMostMaxSize
<1>1. PoolInv => AtMostMaxSize
  <2> SUFFICES ASSUME PoolInv PROVE AtMostMaxSize
    BY Zenon
  <2> DEFINE A == {p \in Procs : pc[p] \in {"opening", "using"}}
             B == {p \in Procs : pc[p] \in {"opening", "failed", "using"}}
  <2>1. A \subseteq B /\ IsFiniteSet(B)
    BY SlotsNat, Zenon
  <2>2. Cardinality(A) <= Cardinality(B) /\ Cardinality(A) \in Nat /\ Cardinality(B) \in Nat
    <3> HIDE DEF A, B
    <3>1. IsFiniteSet(A)
      BY <2>1, FS_Subset, Zenon
    <3> QED BY <2>1, <3>1, FS_Subset, FS_CardinalityType, Zenon
  <2>3. live \in 0..MaxSize /\ MaxSize \in Nat
    BY PoolAssumption, Zenon DEF PoolInv, TypeOK
  <2>4. live = idle + Cardinality(B) + to_check + survivors + lost
    BY Zenon DEF PoolInv, Accounting, Slots
  <2>5. idle + Cardinality(A) + to_check + survivors <= MaxSize
    <3> HIDE DEF A, B
    <3> QED BY <2>2, <2>3, <2>4, Numbers DEF PoolInv
  <2> QED BY <2>5, Zenon DEF AtMostMaxSize, Slots
<1> QED BY <1>1, PoolInvariant, PTL

-----------------------------------------------------------------------------
(* The migration engine.                                                      *)

\* The files that load_migrations does not skip, the names on disk, and the version of the
\* i-th file a runner has loaded.
Files == {f \in dir : parse_version(f) >= 0}
Names == {f.name : f \in dir}
Version(r, i) == parse_version(run[r].all[i])

Pcs == {"idle", "create", "load", "fetch", "next", "sql", "record", "commit", "rollback",
        "ok", "err"}

Sessions == [tx : {"I", "T", "E"}, ins : SUBSET Int, eff : Seq(Names)]
Runs == [pc : Pcs, all : Seq(dir), applied : SUBSET Int, i : Nat, count : Nat, skipped : Nat]

MigrateTypeOK ==
    /\ dir \in Dirs
    /\ recorded \subseteq Int
    /\ schema \in Seq(Names)
    /\ session \in [Runners -> Sessions]
    /\ run \in [Runners -> Runs]

\* What a transaction holds at each step of run.
SessionInv(r) ==
    /\ run[r].pc \in {"idle", "create", "err"} => session[r].tx \in {"I", "E"}
    /\ run[r].pc \in {"load", "fetch", "next", "ok"} => session[r].tx = "I"
    /\ run[r].pc = "sql" => session[r].eff = <<>>
    /\ run[r].pc \in {"record", "commit"} => session[r].eff = <<Current(r).name>>
    /\ session[r].ins = IF run[r].pc = "commit" THEN {Version(r, run[r].i)} ELSE {}

\* The loop of run: the files before the current one are recorded.
LoopInv(r) ==
    /\ run[r].pc \in {"fetch", "next", "sql", "record", "commit", "rollback", "ok"} =>
          run[r].all \in load_migrations
    /\ run[r].pc \in {"create", "load", "fetch"} =>
          run[r].i = 1 /\ run[r].count = 0 /\ run[r].skipped = 0
    /\ run[r].pc \in {"next", "sql", "record", "commit", "rollback", "ok"} =>
          /\ run[r].i \in 1..Len(run[r].all) + 1
          /\ run[r].count + run[r].skipped = run[r].i - 1
          /\ run[r].applied \subseteq recorded
          /\ \A k \in 1..run[r].i - 1 : Version(r, k) \in recorded
    /\ run[r].pc \in {"sql", "record", "commit"} => run[r].i \in 1..Len(run[r].all)
    /\ run[r].pc = "ok" => run[r].i = Len(run[r].all) + 1

\* An inserted row is in no other transaction and not committed.
RowInv(r) ==
    \A v \in session[r].ins : v \notin recorded /\ \A q \in Runners \ {r} : v \notin session[q].ins

\* The tracking table says what was applied, in ascending order, and has no gap: with a version
\* it has every lower one on disk.
TableInv ==
    /\ recorded = {VersionOf(schema[i]) : i \in DOMAIN schema}
    /\ \A i, j \in DOMAIN schema : i < j => VersionOf(schema[i]) < VersionOf(schema[j])
    /\ \A f \in Files, v \in recorded : parse_version(f) <= v => parse_version(f) \in recorded

\* The inductive invariant.
MigrateIInv ==
    /\ MigrateTypeOK /\ TableInv
    /\ \A r \in Runners : SessionInv(r) /\ LoopInv(r) /\ RowInv(r)

-----------------------------------------------------------------------------

\* load_migrations gives every file that has a version, in ascending order.
LEMMA Loaded ==
    ASSUME dir \in Dirs, NEW s \in load_migrations
    PROVE  /\ s \in Seq(Files) /\ s \in Seq(dir)
           /\ \A i, j \in 1..Len(s) : i < j => parse_version(s[i]) <= parse_version(s[j])
           /\ \A f \in Files : \E i \in 1..Len(s) : s[i] = f
<1>. DEFINE n == Cardinality(Files)
<1>1. n \in Nat
  BY MigrateAssumption, FS_Subset, FS_CardinalityType, Zenon DEF Files
<1>2. /\ s \in Bijection(1..n, Files)
      /\ \A i, j \in DOMAIN s : i < j => parse_version(s[i]) <= parse_version(s[j])
  BY Zenon DEF load_migrations, Files
<1>. HIDE DEF n
<1>3. s \in [1..n -> Files] /\ \A f \in Files : \E i \in 1..n : s[i] = f
  BY <1>2, Zenon DEF Bijection, Injection, Surjection
<1>4. Len(s) = n /\ s \in Seq(Files) /\ s \in Seq(dir)
  BY <1>1, <1>3 DEF Files
<1>. QED
  BY <1>2, <1>3, <1>4, Zenon

\* The name of a file determines its version.
LEMMA NameVersion ==
    ASSUME dir \in Dirs, NEW f \in dir
    PROVE  /\ VersionOf(f.name) = parse_version(f)
           /\ parse_version(f) \in Int
           /\ f.name \in Names
<1>1. \A g \in dir : g.name = f.name => g = f
  BY MigrateAssumption, Zenon
<1>2. (CHOOSE g \in dir : g.name = f.name) = f
  BY <1>1, Zenon
<1>3. f.digits \in Int
  BY MigrateAssumption, Zenon
<1>. QED
  BY <1>2, <1>3, Zenon DEF VersionOf, parse_version, Names

LEMMA MigrateInitial == MigrateInit => MigrateIInv
<1>. SUFFICES ASSUME MigrateInit PROVE MigrateIInv
  BY Zenon
<1>1. /\ recorded = {} /\ schema = <<>>
      /\ \A r \in Runners : session[r] = NoTx /\ run[r] = NoRun
  BY Zenon DEF MigrateInit
<1>2. <<>> \in Seq(Names) /\ <<>> \in Seq(dir) /\ DOMAIN <<>> = {}
  OBVIOUS
<1>3. NoTx \in Sessions /\ NoTx.ins = {} /\ NoTx.tx = "I"
  BY <1>2, Zenon DEF NoTx, Sessions
<1>4. NoRun \in Runs /\ NoRun.pc = "idle"
  BY <1>2, Zenon DEF NoRun, Runs, Pcs
<1>5. MigrateTypeOK
  BY <1>1, <1>2, <1>3, <1>4, Zenon DEF MigrateInit, MigrateTypeOK
<1>6. TableInv
  BY <1>1, <1>2, Zenon DEF TableInv
<1>7. \A r \in Runners : SessionInv(r) /\ LoopInv(r) /\ RowInv(r)
  BY <1>1, <1>3, <1>4, Zenon DEF SessionInv, LoopInv, RowInv
<1>. QED
  BY <1>5, <1>6, <1>7, Zenon DEF MigrateIInv

\* A step of one runner disturbs the others only through the tracking table.
LEMMA OneRunner ==
    ASSUME MigrateIInv, NEW r \in Runners, dir' = dir, recorded \subseteq recorded',
           \A q \in Runners \ {r} : run'[q] = run[q] /\ session'[q] = session[q],
           \A q \in Runners \ {r} : \A ver \in session[q].ins : ver \notin recorded',
           MigrateTypeOK', TableInv', SessionInv(r)', LoopInv(r)', RowInv(r)'
    PROVE  MigrateIInv'
<1>. SUFFICES ASSUME NEW q \in Runners, q # r
              PROVE  SessionInv(q)' /\ LoopInv(q)' /\ RowInv(q)'
  BY Zenon DEF MigrateIInv
<1>1. SessionInv(q) /\ LoopInv(q) /\ RowInv(q)
  BY Zenon DEF MigrateIInv
<1>2. run'[q] = run[q] /\ session'[q] = session[q]
  BY Zenon
<1>3. SessionInv(q)'
  BY <1>1, <1>2, Zenon DEF SessionInv, Version, Current
<1>4. load_migrations' = load_migrations
  BY Zenon  DEF load_migrations
<1>5. LoopInv(q)'
  BY <1>1, <1>2, <1>4, Zenon DEF LoopInv, Version
<1>6. RowInv(q)'
  BY <1>1, <1>2, Zenon DEF RowInv
<1>. QED
  BY <1>3, <1>5, <1>6, Zenon

\* A step that leaves the tracking table and the other runners alone.
LEMMA QuietRunners ==
    ASSUME MigrateIInv, NEW r \in Runners, UNCHANGED <<dir, recorded, schema>>,
           NEW s \in Sessions, NEW u \in Runs,
           session' = [session EXCEPT ![r] = s], run' = [run EXCEPT ![r] = u],
           SessionInv(r)', LoopInv(r)', RowInv(r)'
    PROVE  MigrateIInv'
<1>1. MigrateTypeOK /\ TableInv
  BY Zenon DEF MigrateIInv
<1>2. Names' = Names /\ Sessions' = Sessions /\ Runs' = Runs /\ Files' = Files
  BY Zenon DEF Names, Sessions, Runs, Files
<1>3. MigrateTypeOK'
  BY <1>1, <1>2, Zenon DEF MigrateTypeOK
<1>4. TableInv'
  BY <1>1, <1>2 DEF TableInv, VersionOf
<1>5. \A q \in Runners \ {r} : run'[q] = run[q] /\ session'[q] = session[q]
  BY <1>1, Zenon DEF MigrateTypeOK
<1>6. \A q \in Runners \ {r} : \A ver \in session[q].ins : ver \notin recorded'
  BY Zenon DEF MigrateIInv, RowInv
<1>. QED
  BY <1>3, <1>4, <1>5, <1>6, OneRunner, Zenon

\* What the invariant says of the runner that takes a step.
LEMMA AtRunner ==
    ASSUME MigrateIInv, NEW r \in Runners
    PROVE  /\ session[r] \in Sessions /\ run[r] \in Runs
           /\ SessionInv(r) /\ LoopInv(r) /\ RowInv(r)
           /\ dir \in Dirs /\ recorded \subseteq Int
           /\ session \in [Runners -> Sessions] /\ run \in [Runners -> Runs]
BY Zenon DEF MigrateIInv, MigrateTypeOK

LEMMA StartStep ==
    ASSUME MigrateIInv, NEW r \in Runners, start(r), UNCHANGED dir
    PROVE  MigrateIInv'
<1>. DEFINE u == [NoRun EXCEPT !.pc = "create"]
<1>0. /\ session[r] \in Sessions /\ SessionInv(r) /\ RowInv(r)
      /\ session \in [Runners -> Sessions] /\ run \in [Runners -> Runs]
  BY AtRunner, Zenon
<1>1. <<>> \in Seq(dir)
  OBVIOUS
<1>2. u \in Runs /\ u.pc = "create" /\ u.i = 1 /\ u.count = 0 /\ u.skipped = 0
  BY <1>1, Zenon DEF NoRun, Runs, Pcs
<1>. HIDE DEF u
<1>3. run' = [run EXCEPT ![r] = u] /\ session' = [session EXCEPT ![r] = session[r]]
  BY <1>0, Zenon DEF start, u
<1>4. run'[r] = u /\ session' = session
  BY <1>0, <1>3, Zenon DEF start
<1>5. SessionInv(r)'
  BY <1>0, <1>2, <1>4, Zenon DEF SessionInv, start
<1>6. LoopInv(r)'
  BY <1>2, <1>4, Zenon DEF LoopInv
<1>7. RowInv(r)'
  BY <1>0, <1>4, Zenon DEF RowInv, start
<1>. QED
  BY <1>0, <1>2, <1>3, <1>5, <1>6, <1>7, QuietRunners, ZenonT(60) DEF start

\* A step that only moves the program counter, between statements.
LEMMA MoveStep ==
    ASSUME MigrateIInv, NEW r \in Runners, NEW to \in Pcs, To(r, to),
           UNCHANGED <<dir, recorded, schema, session>>,
           run[r].pc # "commit", to # "commit", SessionInv(r)', LoopInv(r)'
    PROVE  MigrateIInv'
<1>. DEFINE u == [run[r] EXCEPT !.pc = to]
<1>0. /\ session[r] \in Sessions /\ run[r] \in Runs /\ SessionInv(r) /\ RowInv(r)
      /\ session \in [Runners -> Sessions] /\ run \in [Runners -> Runs]
  BY AtRunner, Zenon
<1>1. u \in Runs
  BY <1>0, Zenon DEF Runs
<1>2. run' = [run EXCEPT ![r] = u] /\ session' = [session EXCEPT ![r] = session[r]]
  BY <1>0, Zenon DEF To
<1>3. RowInv(r)'
  BY <1>0, Zenon DEF RowInv
<1>. QED
  BY <1>0, <1>1, <1>2, <1>3, QuietRunners, Zenon

LEMMA CreateStep ==
    ASSUME MigrateIInv, NEW r \in Runners, create(r), UNCHANGED dir
    PROVE  MigrateIInv'
<1>0. /\ session[r] \in Sessions /\ run[r] \in Runs /\ SessionInv(r) /\ LoopInv(r)
      /\ run \in [Runners -> Runs] /\ run[r].pc = "create"
      /\ UNCHANGED <<recorded, schema, session>>
  BY AtRunner, Zenon DEF create, At
<1>1. CASE session[r].tx = "E"
  <2>1. To(r, "err") /\ run'[r] = [run[r] EXCEPT !.pc = "err"]
    BY <1>0, <1>1, Zenon DEF create, Return, To
  <2>2. run'[r].pc = "err"
    BY <1>0, <2>1, Zenon DEF Runs
  <2>3. SessionInv(r)' /\ LoopInv(r)'
    BY <1>0, <1>1, <2>2, Zenon DEF SessionInv, LoopInv
  <2>. QED
    BY <1>0, <2>1, <2>3, MoveStep, Zenon DEF Pcs
<1>2. CASE session[r].tx # "E"
  <2>1. To(r, "load") /\ run'[r] = [run[r] EXCEPT !.pc = "load"]
    BY <1>0, <1>2, Zenon DEF create, To
  <2>2. /\ run'[r].pc = "load" /\ run'[r].i = run[r].i
        /\ run'[r].count = run[r].count /\ run'[r].skipped = run[r].skipped
    BY <1>0, <2>1, Zenon DEF Runs
  <2>3. SessionInv(r)' /\ LoopInv(r)'
    BY <1>0, <1>2, <2>2, ZenonT(60) DEF SessionInv, LoopInv
  <2>. QED
    BY <1>0, <2>1, <2>3, MoveStep, Zenon DEF Pcs
<1>. QED
  BY <1>1, <1>2, Zenon

LEMMA LoadStep ==
    ASSUME MigrateIInv, NEW r \in Runners, load(r), UNCHANGED dir
    PROVE  MigrateIInv'
<1>0. /\ session[r] \in Sessions /\ run[r] \in Runs /\ SessionInv(r) /\ LoopInv(r) /\ RowInv(r)
      /\ session \in [Runners -> Sessions] /\ run \in [Runners -> Runs] /\ dir \in Dirs
      /\ run[r].pc = "load" /\ UNCHANGED <<recorded, schema, session>>
  BY AtRunner, Zenon DEF load, At
<1>1. PICK all \in load_migrations : run' = [run EXCEPT ![r].all = all, ![r].pc = "fetch"]
  BY Zenon  DEF load
<1>. DEFINE u == [run[r] EXCEPT !.all = all, !.pc = "fetch"]
<1>2. all \in Seq(dir)
  BY <1>0, Loaded, Zenon
<1>3. /\ u \in Runs /\ u.pc = "fetch" /\ u.all = all /\ u.i = run[r].i
      /\ u.count = run[r].count /\ u.skipped = run[r].skipped
  BY <1>0, <1>2, Zenon DEF Runs, Pcs
<1>4. run' = [run EXCEPT ![r] = u] /\ session' = [session EXCEPT ![r] = session[r]]
  BY <1>0, <1>1, Zenon
<1>. HIDE DEF u
<1>5. run'[r] = u
  BY <1>0, <1>4, Zenon
<1>6. SessionInv(r)'
  BY <1>0, <1>3, <1>5, ZenonT(60) DEF SessionInv
<1>7. load_migrations' = load_migrations
  BY ZenonT(60)  DEF load_migrations
<1>8. LoopInv(r)'
  BY <1>0, <1>3, <1>5, <1>7, Zenon DEF LoopInv
<1>9. RowInv(r)'
  BY <1>0, Zenon DEF RowInv
<1>. QED
  BY <1>0, <1>3, <1>4, <1>6, <1>8, <1>9, QuietRunners, ZenonT(60)

LEMMA FetchStep ==
    ASSUME MigrateIInv, NEW r \in Runners, fetch_applied(r), UNCHANGED dir
    PROVE  MigrateIInv'
<1>. DEFINE u == [run[r] EXCEPT !.applied = recorded \cup session[r].ins, !.pc = "next"]
<1>0. /\ session[r] \in Sessions /\ run[r] \in Runs /\ SessionInv(r) /\ LoopInv(r) /\ RowInv(r)
      /\ session \in [Runners -> Sessions] /\ run \in [Runners -> Runs] /\ recorded \subseteq Int
      /\ run[r].pc = "fetch" /\ UNCHANGED <<recorded, schema, session>>
  BY AtRunner, Zenon DEF fetch_applied, At
<1>1. session[r].ins = {}
  BY <1>0, Zenon DEF SessionInv
<1>2. /\ u \in Runs /\ u.pc = "next" /\ u.applied = recorded /\ u.all = run[r].all
      /\ u.i = 1 /\ u.count = 0 /\ u.skipped = 0
  BY <1>0, <1>1, Zenon DEF Runs, Pcs, LoopInv
<1>3. run' = [run EXCEPT ![r] = u] /\ session' = [session EXCEPT ![r] = session[r]]
  BY <1>0, Zenon DEF fetch_applied
<1>. HIDE DEF u
<1>4. run'[r] = u
  BY <1>0, <1>3, Zenon
<1>5. SessionInv(r)'
  BY <1>0, <1>2, <1>4, Zenon DEF SessionInv
<1>6. load_migrations' = load_migrations
  BY Zenon DEF load_migrations
<1>7. LoopInv(r)'
  <2>1. Len(run[r].all) \in Nat
    BY <1>0 DEF Runs
  <2>2. 1 \in 1..Len(run[r].all) + 1 /\ 0 + 0 = 1 - 1 /\ 1..1 - 1 = {}
    BY <2>1
  <2>. QED
    BY <1>0, <1>2, <1>4, <1>6, <2>2, ZenonT(60) DEF LoopInv
<1>8. RowInv(r)'
  BY <1>0, Zenon DEF RowInv
<1>. QED
  BY <1>0, <1>2, <1>3, <1>5, <1>7, <1>8, QuietRunners, ZenonT(60)

\* The head of the loop: a recorded file is skipped, or a transaction begins.
LEMMA NextStep ==
    ASSUME MigrateIInv, NEW r \in Runners, next(r), UNCHANGED dir
    PROVE  MigrateIInv'
<1>0. /\ session[r] \in Sessions /\ run[r] \in Runs /\ SessionInv(r) /\ LoopInv(r) /\ RowInv(r)
      /\ session \in [Runners -> Sessions] /\ run \in [Runners -> Runs]
      /\ run[r].pc = "next" /\ run[r].i <= Len(run[r].all) /\ UNCHANGED <<recorded, schema>>
  BY AtRunner, ZenonT(60) DEF next, At
<1>1. load_migrations' = load_migrations
  BY Zenon DEF load_migrations
<1>2. run[r].i \in Nat /\ run[r].count \in Nat /\ run[r].skipped \in Nat /\ Len(run[r].all) \in Nat
  BY <1>0 DEF Runs
<1>3. CASE Version(r, run[r].i) \in run[r].applied
  <2>. DEFINE u == [run[r] EXCEPT !.skipped = @ + 1, !.i = @ + 1]
  <2>0. run[r].skipped + 1 \in Nat /\ run[r].i + 1 \in Nat
    BY <1>2, SMTT(60)
  <2>1. /\ u \in Runs /\ u.pc = "next" /\ u.all = run[r].all /\ u.applied = run[r].applied
        /\ u.i = run[r].i + 1 /\ u.count = run[r].count /\ u.skipped = run[r].skipped + 1
    <3>1. u = [run[r] EXCEPT !.skipped = run[r].skipped + 1, !.i = run[r].i + 1]
      BY <1>0, Zenon DEF Runs
    <3>. QED
      BY <1>0, <2>0, <3>1, Zenon DEF Runs
  <2>2. /\ run' = [run EXCEPT ![r] = u] /\ session' = [session EXCEPT ![r] = session[r]]
        /\ session' = session
    BY <1>0, <1>3, Zenon DEF next, Version, Current
  <2>. HIDE DEF u
  <2>3. run'[r] = u
    BY <1>0, <2>2, Zenon
  <2>4. SessionInv(r)' /\ RowInv(r)'
    BY <1>0, <2>1, <2>2, <2>3, Zenon DEF SessionInv, RowInv
  <2>5. \A k \in 1..u.i - 1 : Version(r, k)' \in recorded'
    <3>1. \A k \in 1..u.i - 1 : k \in 1..run[r].i - 1 \/ k = run[r].i
      BY <1>2, <2>1, SMTT(60)
    <3>2. \A k \in 1..u.i - 1 : Version(r, k)' = Version(r, k)
      BY <2>1, <2>3, Zenon DEF Version
    <3>. QED
      BY <1>0, <1>3, <3>1, <3>2, ZenonT(60) DEF LoopInv
  <2>6. /\ u.i \in 1..Len(run[r].all) + 1
        /\ u.count + u.skipped = u.i - 1
    <3>1. run[r].count + run[r].skipped = run[r].i - 1
      BY <1>0, Zenon DEF LoopInv
    <3>2. run[r].i <= Len(run[r].all)
      BY <1>0, Zenon
    <3>3. u.i \in 1..Len(run[r].all) + 1
      BY <1>2, <2>1, <3>2, SMTT(60)
    <3>4. u.count + u.skipped = u.i - 1
      <4>. DEFINE c == run[r].count
                  k == run[r].skipped
                  i == run[r].i
      <4>1. c \in Nat /\ k \in Nat /\ i \in Nat /\ c + k = i - 1
        BY <1>2, <3>1
      <4>. HIDE DEF c, k, i
      <4>2. c + (k + 1) = (i + 1) - 1
        BY <4>1, SMTT(60)
      <4>. QED
        BY <2>1, <4>2, Zenon DEF c, k, i
    <3>. QED
      BY <3>3, <3>4, Zenon
  <2>7. LoopInv(r)'
    BY <1>0, <1>1, <2>1, <2>3, <2>5, <2>6, SMTT(60) DEF LoopInv
  <2>. QED
    BY <1>0, <2>1, <2>2, <2>4, <2>7, QuietRunners, ZenonT(60)
<1>4. CASE Version(r, run[r].i) \notin run[r].applied
  <2>. DEFINE u == [run[r] EXCEPT !.pc = "sql"]
              s == [NoTx EXCEPT !.tx = "T"]
  <2>1. <<>> \in Seq(Names)
    OBVIOUS
  <2>2. s \in Sessions /\ s.ins = {} /\ s.eff = <<>>
    BY <2>1, Zenon DEF Sessions, NoTx
  <2>3. /\ u \in Runs /\ u.pc = "sql" /\ u.all = run[r].all /\ u.applied = run[r].applied
        /\ u.i = run[r].i /\ u.count = run[r].count /\ u.skipped = run[r].skipped
    BY <1>0, Zenon DEF Runs, Pcs
  <2>4. run' = [run EXCEPT ![r] = u] /\ session' = [session EXCEPT ![r] = s]
    BY <1>0, <1>4, Zenon DEF next, Version, Current, To
  <2>. HIDE DEF u, s
  <2>5. run'[r] = u /\ session'[r] = s
    BY <1>0, <2>4, Zenon
  <2>6. SessionInv(r)' /\ RowInv(r)'
    BY <2>2, <2>3, <2>5, ZenonT(60) DEF SessionInv, RowInv
  <2>7. LoopInv(r)'
    BY <1>0, <1>1, <1>2, <2>3, <2>5, SMTT(60) DEF LoopInv, Version
  <2>. QED
    BY <1>0, <2>2, <2>3, <2>4, <2>6, <2>7, QuietRunners, ZenonT(60)
<1>. QED
  BY <1>3, <1>4, Zenon

LEMMA ReportStep ==
    ASSUME MigrateIInv, NEW r \in Runners, report(r), UNCHANGED dir
    PROVE  MigrateIInv'
<1>0. /\ session[r] \in Sessions /\ run[r] \in Runs /\ SessionInv(r) /\ LoopInv(r)
      /\ run \in [Runners -> Runs]
      /\ run[r].pc = "next" /\ run[r].i > Len(run[r].all)
      /\ UNCHANGED <<recorded, schema, session>> /\ To(r, "ok")
  BY AtRunner, Zenon DEF report, At, Return, To
<1>1. load_migrations' = load_migrations
  BY Zenon DEF load_migrations
<1>2. run'[r] = [run[r] EXCEPT !.pc = "ok"]
  BY <1>0, Zenon DEF To
<1>3. /\ run'[r].pc = "ok" /\ run'[r].all = run[r].all /\ run'[r].applied = run[r].applied
      /\ run'[r].i = run[r].i /\ run'[r].count = run[r].count /\ run'[r].skipped = run[r].skipped
  BY <1>0, <1>2, ZenonT(60) DEF Runs
<1>4. run[r].i \in Nat /\ Len(run[r].all) \in Nat
  BY <1>0, SMTT(60) DEF Runs
<1>5. SessionInv(r)'
  BY <1>0, <1>3, SMTT(60) DEF SessionInv
<1>6. run[r].i = Len(run[r].all) + 1
  BY <1>0, <1>4, SMTT(60) DEF LoopInv
<1>7. LoopInv(r)'
  BY <1>0, <1>1, <1>3, <1>4, <1>6, ZenonT(60) DEF LoopInv, Version
<1>. QED
  BY <1>0, <1>5, <1>7, MoveStep, Zenon DEF Pcs

\* A call ends in an error with no row inserted by its session.
LEMMA FailStep ==
    ASSUME MigrateIInv, NEW r \in Runners, NEW s \in Sessions,
           s.ins = {}, s.tx \in {"I", "E"}, UNCHANGED <<dir, recorded, schema>>,
           session' = [session EXCEPT ![r] = s], To(r, "err")
    PROVE  MigrateIInv'
<1>. DEFINE u == [run[r] EXCEPT !.pc = "err"]
<1>0. /\ run[r] \in Runs /\ session \in [Runners -> Sessions] /\ run \in [Runners -> Runs]
  BY AtRunner, Zenon
<1>1. u \in Runs /\ u.pc = "err"
  BY <1>0, Zenon DEF Runs, Pcs
<1>2. run' = [run EXCEPT ![r] = u]
  BY <1>0, Zenon DEF To
<1>. HIDE DEF u
<1>3. run'[r] = u /\ session'[r] = s
  BY <1>0, <1>2, Zenon
<1>4. SessionInv(r)' /\ LoopInv(r)' /\ RowInv(r)'
  BY <1>1, <1>3, ZenonT(60) DEF SessionInv, LoopInv, RowInv
<1>. QED
  BY <1>1, <1>2, <1>4, QuietRunners, Zenon

LEMMA DiscardStep ==
    ASSUME MigrateIInv, NEW r \in Runners, EndTx(r, FALSE), Return(r, "err"), UNCHANGED dir
    PROVE  MigrateIInv'
<1>1. <<>> \in Seq(Names)
  OBVIOUS
<1>2. NoTx \in Sessions /\ NoTx.ins = {} /\ NoTx.tx = "I"
  BY <1>1, Zenon DEF NoTx, Sessions
<1>3. session' = [session EXCEPT ![r] = NoTx] /\ UNCHANGED <<recorded, schema>> /\ To(r, "err")
  BY Zenon DEF EndTx, Return, To
<1>. QED
  BY <1>2, <1>3, FailStep, Zenon

LEMMA ApplyStep ==
    ASSUME MigrateIInv, NEW r \in Runners, apply_sql(r), UNCHANGED dir
    PROVE  MigrateIInv'
<1>0. /\ session[r] \in Sessions /\ run[r] \in Runs /\ SessionInv(r) /\ LoopInv(r) /\ RowInv(r)
      /\ session \in [Runners -> Sessions] /\ run \in [Runners -> Runs]
      /\ run[r].pc = "sql" /\ UNCHANGED <<recorded, schema>>
  BY AtRunner, Zenon DEF apply_sql, At
<1>1. load_migrations' = load_migrations
  BY Zenon DEF load_migrations
<1>2. session[r].ins = {} /\ session[r].eff = <<>> /\ run[r].i \in 1..Len(run[r].all)
  BY <1>0, ZenonT(60) DEF SessionInv, LoopInv
<1>3. ASSUME NEW to \in {"record", "rollback"}, NEW s \in Sessions, s.ins = {},
             to = "record" => s.eff = <<Current(r).name>>,
             session' = [session EXCEPT ![r] = s], To(r, to)
      PROVE  MigrateIInv'
  <2>. DEFINE u == [run[r] EXCEPT !.pc = to]
  <2>1. /\ u \in Runs /\ u.pc = to /\ u.all = run[r].all /\ u.applied = run[r].applied
        /\ u.i = run[r].i /\ u.count = run[r].count /\ u.skipped = run[r].skipped
    BY <1>0, Zenon DEF Runs, Pcs
  <2>2. run' = [run EXCEPT ![r] = u]
    BY <1>0, <1>3, Zenon DEF To
  <2>. HIDE DEF u
  <2>3. run'[r] = u /\ session'[r] = s
    BY <1>0, <1>3, <2>2, ZenonT(60)
  <2>4. SessionInv(r)' /\ RowInv(r)'
    BY <1>3, <2>1, <2>3, ZenonT(60) DEF SessionInv, RowInv, Current
  <2>5. LoopInv(r)'
    BY <1>0, <1>1, <1>3, <2>1, <2>3, ZenonT(60) DEF LoopInv, Version
  <2>. QED
    BY <1>0, <1>3, <2>1, <2>2, <2>4, <2>5, QuietRunners, ZenonT(60)
<1>4. CASE /\ session' = [session EXCEPT ![r].eff = Append(@, Current(r).name)]
           /\ To(r, "record")
  <2>. DEFINE s == [session[r] EXCEPT !.eff = Append(@, Current(r).name)]
  <2>1. Current(r) \in dir
    BY <1>0, <1>2, SMTT(60) DEF Runs, Current
  <2>2. Current(r).name \in Names
    BY <2>1, ZenonT(60) DEF Names
  <2>3. Append(session[r].eff, Current(r).name) = <<Current(r).name>>
    BY <1>2
  <2>4. <<Current(r).name>> \in Seq(Names)
    BY <2>2
  <2>5. s \in Sessions /\ s.ins = {} /\ s.eff = <<Current(r).name>>
    BY <1>0, <1>2, <2>3, <2>4, Zenon DEF Sessions
  <2>6. session' = [session EXCEPT ![r] = s]
    BY <1>0, <1>4, Zenon
  <2>. QED
    BY <1>3, <1>4, <2>5, <2>6, ZenonT(60)
<1>5. CASE Abort(r) /\ To(r, "rollback")
  <2>. DEFINE s == [session[r] EXCEPT !.tx = IF @ = "T" THEN "E" ELSE @]
  <2>1. s \in Sessions /\ s.ins = {}
    BY <1>0, <1>2, Zenon DEF Sessions
  <2>2. session' = [session EXCEPT ![r] = s]
    BY <1>0, <1>5, Zenon DEF Abort
  <2>. QED
    BY <1>3, <1>5, <2>1, <2>2, Zenon
<1>. QED
  BY <1>4, <1>5, Zenon DEF apply_sql

\* The primary key: the row goes in only when neither the table nor another transaction has it.
LEMMA RecordStep ==
    ASSUME MigrateIInv, NEW r \in Runners, record(r), UNCHANGED dir
    PROVE  MigrateIInv'
<1>. DEFINE ver == Version(r, run[r].i)
<1>0. /\ session[r] \in Sessions /\ run[r] \in Runs /\ SessionInv(r) /\ LoopInv(r) /\ RowInv(r)
      /\ session \in [Runners -> Sessions] /\ run \in [Runners -> Runs] /\ dir \in Dirs
      /\ run[r].pc = "record" /\ UNCHANGED <<recorded, schema>>
  BY AtRunner, Zenon DEF record, At
<1>1. load_migrations' = load_migrations
  BY Zenon DEF load_migrations
<1>2. /\ session[r].ins = {} /\ session[r].eff = <<Current(r).name>>
      /\ run[r].i \in 1..Len(run[r].all)
  BY <1>0, Zenon DEF SessionInv, LoopInv
<1>3. ver \in Int
  <2>1. Current(r) \in dir
    BY <1>0, <1>2, SMTT(60) DEF Runs, Current
  <2>. QED
    BY <1>0, <2>1, NameVersion, ZenonT(60) DEF Version, Current
<1>4. CASE Conflicts(r, ver)
  <2>. DEFINE s == [session[r] EXCEPT !.tx = IF @ = "T" THEN "E" ELSE @]
  <2>1. s \in Sessions /\ s.ins = {} /\ s.tx \in {"I", "E"}
    BY <1>0, <1>2, Zenon DEF Sessions
  <2>2. session' = [session EXCEPT ![r] = s] /\ To(r, "err")
    BY <1>0, <1>4, Zenon DEF record, Abort, Return, To, Version, Current
  <2>. QED
    BY <1>0, <2>1, <2>2, FailStep, Zenon
<1>5. CASE ~Conflicts(r, ver)
  <2>. DEFINE s == [session[r] EXCEPT !.ins = @ \cup {ver}]
              u == [run[r] EXCEPT !.pc = "commit"]
  <2>0. session[r].ins \cup {ver} = {ver} /\ {ver} \in SUBSET Int
    BY <1>2, <1>3, Zenon
  <2>1. s \in Sessions /\ s.ins = {ver} /\ s.eff = session[r].eff
    BY <1>0, <2>0, SMTT(60) DEF Sessions
  <2>2. /\ u \in Runs /\ u.pc = "commit" /\ u.all = run[r].all /\ u.applied = run[r].applied
        /\ u.i = run[r].i /\ u.count = run[r].count /\ u.skipped = run[r].skipped
    BY <1>0, Zenon DEF Runs, Pcs
  <2>3. session' = [session EXCEPT ![r] = s] /\ run' = [run EXCEPT ![r] = u]
    BY <1>0, <1>5, Zenon DEF record, Insert, To, Version, Current
  <2>4. ver \notin recorded /\ \A q \in Runners \ {r} : ver \notin session[q].ins
    BY <1>5, Zenon DEF record, Blocked, Conflicts, Version, Current
  <2>. HIDE DEF u, s
  <2>5. /\ run'[r] = u /\ session'[r] = s
        /\ \A q \in Runners \ {r} : session'[q] = session[q]
    BY <1>0, <2>3, Zenon
  <2>6. SessionInv(r)'
    BY <1>2, <2>1, <2>2, <2>5, SMTT(60) DEF SessionInv, Current, Version
  <2>7. LoopInv(r)'
    BY <1>0, <1>1, <2>2, <2>5, ZenonT(60) DEF LoopInv, Version
  <2>8. RowInv(r)'
    BY <1>0, <2>1, <2>4, <2>5, ZenonT(60) DEF RowInv
  <2>. QED
    BY <1>0, <2>1, <2>2, <2>3, <2>6, <2>7, <2>8, QuietRunners, ZenonT(60)
<1>. QED
  BY <1>4, <1>5, Zenon

\* The version a runner is about to commit is above every recorded one, and all lower ones on
\* disk are recorded: a higher one could only be there with this one.
LEMMA CommitsNext ==
    ASSUME MigrateIInv, NEW r \in Runners, run[r].pc = "commit"
    PROVE  LET ver == Version(r, run[r].i) IN
           /\ ver \in Int /\ ver \notin recorded
           /\ \A w \in recorded : w < ver
           /\ \A f \in Files : parse_version(f) <= ver => parse_version(f) \in recorded \cup {ver}
           /\ session[r].ins = {ver} /\ session[r].eff = <<Current(r).name>>
           /\ Current(r).name \in Names /\ VersionOf(Current(r).name) = ver
<1>. DEFINE i == run[r].i
            all == run[r].all
            ver == Version(r, i)
<1>0. /\ run[r] \in Runs /\ SessionInv(r) /\ LoopInv(r) /\ RowInv(r)
      /\ dir \in Dirs /\ recorded \subseteq Int /\ TableInv
  BY AtRunner, Zenon DEF MigrateIInv
<1>1. /\ all \in load_migrations /\ i \in 1..Len(all) /\ i \in Nat
      /\ \A k \in 1..i - 1 : Version(r, k) \in recorded
  BY <1>0, ZenonT(60) DEF LoopInv, Runs
<1>2. /\ all \in Seq(Files) /\ Len(all) \in Nat
      /\ \A j, k \in 1..Len(all) : j < k => parse_version(all[j]) <= parse_version(all[k])
      /\ \A f \in Files : \E k \in 1..Len(all) : all[k] = f
  <2>. HIDE DEF all
  <2>1. /\ all \in Seq(Files)
        /\ \A j, k \in 1..Len(all) : j < k => parse_version(all[j]) <= parse_version(all[k])
        /\ \A f \in Files : \E k \in 1..Len(all) : all[k] = f
    BY <1>0, <1>1, Loaded, SMTT(60)
  <2>2. Len(all) \in Nat
    BY <2>1, SMTT(60)
  <2>. QED
    BY <2>1, <2>2, SMTT(60)
<1>3. Current(r) \in Files /\ Current(r) \in dir /\ ver = parse_version(Current(r))
  BY <1>1, <1>2, SMTT(60) DEF Current, Version, Files
<1>4. ver \in Int /\ VersionOf(Current(r).name) = ver /\ Current(r).name \in Names
  BY <1>0, <1>3, NameVersion, Zenon
<1>5. session[r].ins = {ver} /\ session[r].eff = <<Current(r).name>>
  BY <1>0, Zenon DEF SessionInv
<1>6. ver \notin recorded
  BY <1>0, <1>5, ZenonT(60) DEF RowInv
<1>7. ASSUME NEW w \in recorded PROVE w < ver
  <2>1. ver <= w => ver \in recorded
    BY <1>0, <1>3, Zenon DEF TableInv
  <2>. QED
    BY <1>0, <1>4, <1>6, <2>1, SMTT(60)
<1>8. ASSUME NEW f \in Files, parse_version(f) <= ver
      PROVE  parse_version(f) \in recorded \cup {ver}
  <2>1. PICK k \in 1..Len(all) : all[k] = f
    BY <1>2, Zenon
  <2>2. CASE k < i
    <3>1. k \in 1..i - 1
      <4>. HIDE DEF i, all
      <4>. QED
        BY <1>1, <1>2, <2>2, SMTT(60)
    <3>. QED
      BY <1>1, <2>1, <3>1, ZenonT(60) DEF Version
  <2>3. CASE k = i
    BY <2>1, <2>3, Zenon DEF Version
  <2>4. CASE i < k
    <3>1. parse_version(f) \in Int
      BY <1>0, NameVersion, Zenon DEF Files
    <3>2. ver <= parse_version(f)
      BY <1>1, <1>2, <2>1, <2>4, ZenonT(60) DEF Version
    <3>3. parse_version(f) = ver
      BY <1>4, <1>8, <3>1, <3>2, SMTT(60)
    <3>. QED
      BY <3>3, Zenon
  <2>5. k < i \/ k = i \/ i < k
    BY <1>1, <1>2, SMTT(60)
  <2>. QED
    BY <2>2, <2>3, <2>4, <2>5, Zenon
<1>. QED
  BY <1>4, <1>5, <1>6, <1>7, <1>8, ZenonT(60)

\* What a commit does to the table and the schema.
LEMMA CommitTable ==
    ASSUME MigrateIInv, NEW r \in Runners, commit_tx(r), UNCHANGED dir
    PROVE  /\ TableInv'
           /\ recorded' = recorded \cup {Version(r, run[r].i)}
           /\ recorded' \subseteq Int /\ schema' \in Seq(Names)
<1>. DEFINE ver == Version(r, run[r].i)
            n == Len(schema)
<1>0. /\ run[r].pc = "commit" /\ recorded \subseteq Int /\ schema \in Seq(Names) /\ TableInv
  BY Zenon DEF commit_tx, At, MigrateIInv, MigrateTypeOK
<1>1. PICK name \in Names : Current(r).name = name
  BY <1>0, CommitsNext, Zenon
<1>2. /\ ver \in Int /\ ver \notin recorded
      /\ \A w \in recorded : w < ver
      /\ \A f \in Files : parse_version(f) <= ver => parse_version(f) \in recorded \cup {ver}
      /\ session[r].ins = {ver} /\ session[r].eff = <<name>> /\ VersionOf(name) = ver
  BY <1>0, <1>1, CommitsNext, Zenon
<1>. HIDE DEF ver
<1>3. recorded' = recorded \cup {ver} /\ schema' = schema \o <<name>>
  BY <1>2, Zenon DEF commit_tx, EndTx
<1>4. /\ n \in Nat /\ Len(schema') = n + 1 /\ schema' \in Seq(Names)
      /\ \A k \in 1..n : schema'[k] = schema[k]
      /\ schema'[n + 1] = name
  BY <1>0, <1>3, SMTT(60)
<1>5. DOMAIN schema = 1..n /\ DOMAIN schema' = 1..n + 1
  BY <1>0, <1>4, SMTT(60)
<1>. HIDE DEF n
<1>6. \A k \in 1..n + 1 : k \in 1..n \/ k = n + 1
  BY <1>4
<1>7. \A k \in 1..n : k \in 1..n + 1
  BY <1>4
<1>8. n + 1 \in 1..n + 1
  BY <1>4
<1>9. \A name_ : VersionOf(name_)' = VersionOf(name_)
  BY Zenon DEF VersionOf, parse_version
<1>10. /\ \A k \in 1..n : VersionOf(schema'[k]) \in recorded
       /\ \A k \in 1..n : VersionOf(schema'[k]) = VersionOf(schema[k])
       /\ VersionOf(schema'[n + 1]) = ver
  BY <1>0, <1>2, <1>4, <1>5, Zenon DEF TableInv
<1>11. recorded' = {VersionOf(schema'[k]) : k \in 1..n + 1}
  <2>1. recorded = {VersionOf(schema[k]) : k \in 1..n}
    BY <1>0, <1>5, Zenon DEF TableInv
  <2>. QED
    BY <1>3, <1>6, <1>7, <1>8, <1>10, <2>1, ZenonT(60)
<1>12. \A j, k \in 1..n + 1 : j < k => VersionOf(schema'[j]) < VersionOf(schema'[k])
  <2>. SUFFICES ASSUME NEW j \in 1..n + 1, NEW k \in 1..n + 1, j < k
                PROVE  VersionOf(schema'[j]) < VersionOf(schema'[k])
    BY Zenon
  <2>1. j \in 1..n
    BY <1>4, SMTT(60)
  <2>2. CASE k \in 1..n
    BY <1>0, <1>5, <1>10, <2>1, <2>2, ZenonT(60) DEF TableInv
  <2>3. CASE k = n + 1
    BY <1>2, <1>10, <2>1, <2>3, Zenon
  <2>. QED
    BY <1>6, <2>2, <2>3, Zenon
<1>13. \A f \in Files, w \in recorded' : parse_version(f) <= w => parse_version(f) \in recorded'
  <2>. SUFFICES ASSUME NEW f \in Files, NEW w \in recorded', parse_version(f) <= w
                PROVE  parse_version(f) \in recorded'
    BY Zenon
  <2>1. CASE w \in recorded
    BY <1>0, <1>3, <2>1, Zenon DEF TableInv
  <2>2. CASE w = ver
    BY <1>2, <1>3, <2>2, Zenon
  <2>. QED
    BY <1>3, <2>1, <2>2, Zenon
<1>14. Files' = Files /\ \A f : parse_version(f)' = parse_version(f)
  BY Zenon DEF Files, parse_version
<1>15. TableInv'
  BY <1>5, <1>9, <1>11, <1>12, <1>13, <1>14, SMTT(60) DEF TableInv, VersionOf
<1>. QED
  BY <1>0, <1>2, <1>3, <1>4, <1>15, Zenon DEF ver

LEMMA CommitStep ==
    ASSUME MigrateIInv, NEW r \in Runners, commit_tx(r), UNCHANGED dir
    PROVE  MigrateIInv'
<1>. DEFINE ver == Version(r, run[r].i)
            u == [run[r] EXCEPT !.count = @ + 1, !.i = @ + 1, !.pc = "next"]
<1>0. /\ run[r] \in Runs /\ SessionInv(r) /\ LoopInv(r) /\ RowInv(r)
      /\ session \in [Runners -> Sessions] /\ run \in [Runners -> Runs] /\ dir \in Dirs
      /\ run[r].pc = "commit"
  BY AtRunner, Zenon DEF commit_tx, At
<1>1. /\ TableInv' /\ recorded' = recorded \cup {ver}
      /\ recorded' \subseteq Int /\ schema' \in Seq(Names)
  BY CommitTable, Zenon
<1>2. load_migrations' = load_migrations /\ Names' = Names /\ Sessions' = Sessions /\ Runs' = Runs
  BY Zenon DEF load_migrations, Names, Sessions, Runs
<1>3. session[r].ins = {ver}
  BY <1>0, ZenonT(60) DEF SessionInv
<1>4. run[r].i \in Nat /\ run[r].count \in Nat /\ run[r].skipped \in Nat /\ Len(run[r].all) \in Nat
  BY <1>0, SMTT(60) DEF Runs
<1>5. run[r].count + 1 \in Nat /\ run[r].i + 1 \in Nat
  BY <1>4
<1>6. /\ u \in Runs /\ u.pc = "next" /\ u.all = run[r].all /\ u.applied = run[r].applied
      /\ u.i = run[r].i + 1 /\ u.count = run[r].count + 1 /\ u.skipped = run[r].skipped
  <2>1. u = [run[r] EXCEPT !.count = run[r].count + 1, !.i = run[r].i + 1, !.pc = "next"]
    BY <1>0, Zenon DEF Runs
  <2>. QED
    BY <1>0, <1>5, <2>1, Zenon DEF Runs, Pcs
<1>7. run' = [run EXCEPT ![r] = u] /\ session' = [session EXCEPT ![r] = NoTx]
  BY <1>0, Zenon DEF commit_tx, EndTx
<1>8. NoTx \in Sessions /\ NoTx.ins = {} /\ NoTx.tx = "I"
  <2>1. <<>> \in Seq(Names)
    OBVIOUS
  <2>. QED
    BY <2>1, Zenon DEF NoTx, Sessions
<1>. HIDE DEF u
<1>9. /\ run'[r] = u /\ session'[r] = NoTx
      /\ \A q \in Runners \ {r} : run'[q] = run[q] /\ session'[q] = session[q]
  BY <1>0, <1>7, Zenon
<1>10. MigrateTypeOK'
  BY <1>0, <1>1, <1>2, <1>6, <1>7, <1>8, ZenonT(60) DEF MigrateTypeOK
<1>11. SessionInv(r)' /\ RowInv(r)'
  BY <1>6, <1>8, <1>9, Zenon DEF SessionInv, RowInv
<1>12. \A k \in 1..u.i - 1 : Version(r, k)' \in recorded'
  <2>1. \A k \in 1..u.i - 1 : k \in 1..run[r].i - 1 \/ k = run[r].i
    BY <1>4, <1>6, SMTT(60)
  <2>2. \A k \in 1..u.i - 1 : Version(r, k)' = Version(r, k)
    BY <1>6, <1>9, Zenon DEF Version
  <2>3. \A k \in 1..run[r].i - 1 : Version(r, k) \in recorded
    BY <1>0, Zenon DEF LoopInv
  <2>. QED
    BY <1>1, <2>1, <2>2, <2>3, ZenonT(60)
<1>13. u.i \in 1..Len(run[r].all) + 1 /\ u.count + u.skipped = u.i - 1
  <2>. DEFINE c == run[r].count
              k == run[r].skipped
              i == run[r].i
              n == Len(run[r].all)
  <2>1. c \in Nat /\ k \in Nat /\ i \in Nat /\ n \in Nat /\ c + k = i - 1 /\ i \in 1..n
    BY <1>0, <1>4, Zenon DEF LoopInv
  <2>. HIDE DEF c, k, i, n
  <2>2. (c + 1) + k = (i + 1) - 1 /\ i + 1 \in 1..n + 1
    BY <2>1, SMTT(60)
  <2>. QED
    BY <1>6, <2>2, ZenonT(60) DEF c, k, i, n
<1>14. run[r].all \in load_migrations /\ run[r].applied \subseteq recorded'
  BY <1>0, <1>1, ZenonT(60) DEF LoopInv
<1>15. LoopInv(r)'
  BY <1>2, <1>6, <1>9, <1>12, <1>13, <1>14, ZenonT(60) DEF LoopInv
<1>16. \A q \in Runners \ {r} : \A w \in session[q].ins : w \notin recorded'
  BY <1>0, <1>1, <1>3, Zenon DEF MigrateIInv, RowInv
<1>17. recorded \subseteq recorded'
  BY <1>1, Zenon
<1>. QED
  BY <1>1, <1>9, <1>10, <1>11, <1>15, <1>16, <1>17, OneRunner, ZenonT(60)

LEMMA MigrateStep == MigrateIInv /\ [MigrateNext]_migrateVars => MigrateIInv'
<1>. SUFFICES ASSUME MigrateIInv, [MigrateNext]_migrateVars PROVE MigrateIInv'
  BY SMTT(60)
<1>1. CASE MigrateNext
  <2>1. PICK r \in Runners : engine_run(r) /\ UNCHANGED dir
    BY <1>1, Zenon DEF MigrateNext
  <2>2. CASE start(r)         BY <2>1, <2>2, StartStep, Zenon
  <2>3. CASE create(r)        BY <2>1, <2>3, CreateStep, SMTT(60)
  <2>4. CASE load(r)          BY <2>1, <2>4, LoadStep, Zenon
  <2>5. CASE fetch_applied(r) BY <2>1, <2>5, FetchStep, Zenon
  <2>6. CASE next(r)          BY <2>1, <2>6, NextStep, Zenon
  <2>7. CASE report(r)        BY <2>1, <2>7, ReportStep, Zenon
  <2>8. CASE apply_sql(r)     BY <2>1, <2>8, ApplyStep, Zenon
  <2>9. CASE record(r)        BY <2>1, <2>9, RecordStep, Zenon
  <2>10. CASE commit_tx(r)    BY <2>1, <2>10, CommitStep, Zenon
  <2>11. CASE rollback_tx(r)  BY <2>1, <2>11, DiscardStep, ZenonT(60) DEF rollback_tx
  <2>12. CASE lose_connection(r) BY <2>1, <2>12, DiscardStep, Zenon DEF lose_connection
  <2>. QED
    BY <2>1, <2>2, <2>3, <2>4, <2>5, <2>6, <2>7, <2>8, <2>9, <2>10, <2>11, <2>12, SMTT(60) DEF engine_run
<1>2. CASE UNCHANGED migrateVars
  <2>1. UNCHANGED <<dir, recorded, schema, session, run>>
    BY <1>2, Zenon DEF migrateVars
  <2>2. MigrateTypeOK'
    BY <2>1, Zenon DEF MigrateIInv, MigrateTypeOK, Names, Sessions, Runs
  <2>3. TableInv'
    BY <2>1 DEF MigrateIInv, TableInv, Files, VersionOf
  <2>4. ASSUME NEW r \in Runners PROVE SessionInv(r)' /\ LoopInv(r)' /\ RowInv(r)'
    <3>1. SessionInv(r) /\ LoopInv(r) /\ RowInv(r) /\ load_migrations' = load_migrations
      BY <2>1, SMTT(60) DEF MigrateIInv, load_migrations
    <3>2. SessionInv(r)' /\ RowInv(r)'
      BY <2>1, <3>1, Zenon DEF SessionInv, RowInv, Version, Current
    <3>3. LoopInv(r)'
      BY <2>1, <3>1, ZenonT(60) DEF LoopInv, Version
    <3>. QED
      BY <3>2, <3>3, ZenonT(60)
  <2>. QED
    BY <2>2, <2>3, <2>4, Zenon DEF MigrateIInv
<1>. QED
  BY <1>1, <1>2, Zenon

-----------------------------------------------------------------------------
(* Theorems                                                                  *)

\* The inductive invariant holds of every execution of MigrationEngine::run, by any number of
\* instances over the same database.
THEOREM MigrateInvariant == MigrateSpec => []MigrateIInv
<1>. QED
  BY MigrateInitial, MigrateStep, PTL DEF MigrateSpec

\* The statements of a migration and its row in the tracking table are committed together, no
\* version twice, in ascending order; a call that reports success leaves every version on disk
\* recorded, a report that adds up and no open transaction (MigrationEngine::run).
THEOREM MigrateAppliedOnce == MigrateSpec => []AppliedOnce
<1>1. MigrateIInv => AppliedOnce
  <2>. SUFFICES ASSUME MigrateIInv PROVE AppliedOnce
    BY Zenon
  <2>1. TableInv
    BY Zenon DEF MigrateIInv
  <2>2. ASSUME NEW r \in Runners, run[r].pc = "ok"
        PROVE  /\ \A i \in DOMAIN run[r].all : parse_version(run[r].all[i]) \in recorded
               /\ run[r].count + run[r].skipped = Len(run[r].all)
               /\ session[r].tx = "I"
    <3>1. run[r] \in Runs /\ LoopInv(r) /\ SessionInv(r)
      BY AtRunner, Zenon
    <3>. DEFINE n == Len(run[r].all)
    <3>2. n \in Nat /\ DOMAIN run[r].all = 1..n
      BY <3>1, SMTT(60) DEF Runs
    <3>3. /\ run[r].i = n + 1 /\ run[r].count + run[r].skipped = run[r].i - 1
          /\ \A k \in 1..run[r].i - 1 : Version(r, k) \in recorded
      BY <2>2, <3>1, Zenon DEF LoopInv
    <3>. HIDE DEF n
    <3>4. (n + 1) - 1 = n
      BY <3>2, SMTT(60)
    <3>5. session[r].tx = "I"
      BY <2>2, <3>1, Zenon DEF SessionInv
    <3>. QED
      BY <3>2, <3>3, <3>4, <3>5, Zenon DEF Version, n
  <2>. QED
    BY <2>1, <2>2, Zenon DEF AppliedOnce, TableInv
<1>. QED
  BY <1>1, MigrateInvariant, PTL

\* Whoever commits, the tracking table changes only by one version at a time, the lowest on disk
\* that it does not have, and the statements of a file with that version go into the schema in
\* the same step (the loop of MigrationEngine::run).
THEOREM MigrateCommitsLowest ==
    MigrateSpec => [][recorded' # recorded =>
                        \E f \in Files :
                           /\ parse_version(f) \notin recorded
                           /\ \A g \in Files : parse_version(g) < parse_version(f)
                                               => parse_version(g) \in recorded
                           /\ recorded' = recorded \cup {parse_version(f)}
                           /\ schema' = Append(schema, f.name)]_migrateVars
<1>. DEFINE Lowest(f) ==
              /\ parse_version(f) \notin recorded
              /\ \A g \in Files : parse_version(g) < parse_version(f)
                                  => parse_version(g) \in recorded
              /\ recorded' = recorded \cup {parse_version(f)}
              /\ schema' = Append(schema, f.name)
<1>1. ASSUME MigrateIInv, [MigrateNext]_migrateVars, recorded' # recorded
      PROVE  \E f \in Files : Lowest(f)
  <2>1. PICK r \in Runners : engine_run(r) /\ UNCHANGED dir
    BY <1>1, Zenon DEF MigrateNext, migrateVars
  <2>2. commit_tx(r)
    BY <1>1, <2>1, Zenon DEF engine_run, start, create, load, fetch_applied, next, report, apply_sql,
                      record, rollback_tx, lose_connection, EndTx
  <2>3. run[r].pc = "commit" /\ run[r] \in Runs /\ LoopInv(r) /\ dir \in Dirs /\ schema \in Seq(Names)
    BY <1>1, <2>2, AtRunner, SMTT(60) DEF commit_tx, At, MigrateIInv, MigrateTypeOK
  <2>4. Current(r) \in Files
    <3>1. run[r].all \in load_migrations /\ run[r].i \in 1..Len(run[r].all)
      BY <2>3, Zenon DEF LoopInv
    <3>. QED
      BY <2>3, <3>1, Loaded, SMTT(60) DEF Current
  <2>. DEFINE ver == Version(r, run[r].i)
  <2>5. /\ ver \in Int /\ ver \notin recorded
        /\ \A f \in Files : parse_version(f) <= ver => parse_version(f) \in recorded \cup {ver}
        /\ session[r].ins = {ver} /\ session[r].eff = <<Current(r).name>>
        /\ Current(r).name \in Names
    BY <1>1, <2>3, CommitsNext, Zenon
  <2>6. ver = parse_version(Current(r))
    BY Zenon DEF Version, Current
  <2>7. \A g \in Files : parse_version(g) \in Int
    BY <2>3, NameVersion, Zenon DEF Files
  <2>. HIDE DEF ver
  <2>8. recorded' = recorded \cup {ver} /\ schema' = schema \o <<Current(r).name>>
    BY <2>2, <2>5, ZenonT(60) DEF commit_tx, EndTx
  <2>9. schema' = Append(schema, Current(r).name)
    BY <2>3, <2>5, <2>8, SMTT(60)
  <2>10. \A g \in Files : parse_version(g) < ver => parse_version(g) \in recorded
    BY <2>5, <2>7, SMTT(60)
  <2>. QED
    BY <2>4, <2>5, <2>6, <2>8, <2>9, <2>10, ZenonT(60)
<1>. HIDE DEF Lowest
<1>2. MigrateIInv /\ [MigrateNext]_migrateVars
        => [recorded' # recorded => \E f \in Files : Lowest(f)]_migrateVars
  BY <1>1, Zenon
<1>3. MigrateSpec => [][recorded' # recorded => \E f \in Files : Lowest(f)]_migrateVars
  BY <1>2, MigrateInvariant, PTL DEF MigrateSpec
<1>. QED
  BY <1>3, SMTT(60) DEF Lowest
=============================================================================
