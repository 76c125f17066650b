---------------------------- MODULE RuntimeProof ----------------------------
(***************************************************************************)
(* Proofs about the primitives of the runtime: the oneshot and mpsc         *)
(* channels, the async mutex, Interval, signals and task-locals, each for   *)
(* every instance.                                                          *)
(***************************************************************************)
EXTENDS Oneshot, Mpsc, AsyncMutex, Interval, Signal, TaskLocal, FiniteSetTheorems, TLAPS

-----------------------------------------------------------------------------
(***************************************************************************)
(* Proofs about sync::oneshot, for every set of values.                     *)
(***************************************************************************)

\* Who may have put the channel into its state, and where the value is.
OneshotValue ==
    /\ spc = "alive" => value = NoValue
    /\ spc \in {"cas", "reclaim"} => value = arg /\ arg \in Values
    /\ state = "SENT" <=> spc \in {"wake", "sent"}
    /\ spc \in {"reclaim", "err", "refused", "dropwake", "dropped"} => state = "CLOSED"
    /\ state = "SENT" => arg \in Values
    /\ state = "SENT" /\ rpc # "got" => value = arg
    /\ rpc = "got" => state = "SENT" /\ got = arg
    /\ rpc # "got" => got = NoValue

\* Where the receiver's wake is: in the slot, delivered, or no longer needed.
OneshotWake ==
    /\ rpc \in {"recheck", "pending"} => waker \/ recv_woken
    /\ state = "CLOSED" => rpc \in {"dropped"} \/ spc \in {"dropwake", "dropped"}
    /\ rpc = "pending" /\ state # "EMPTY" /\ spc \notin {"wake", "dropwake"} => recv_woken

OneshotIInv == OneshotTypes /\ OneshotValue /\ OneshotWake

LEMMA OneshotInitIInv == OneshotInit => OneshotIInv
  BY NoValueAssumption, ZenonT(60)
     DEF OneshotInit, OneshotIInv, OneshotTypes, OneshotValue, OneshotWake, SenderPcs, ReceiverPcs

LEMMA OneshotNextIInv == OneshotIInv /\ [OneshotNext]_oneshotVars => OneshotIInv'
<1> SUFFICES ASSUME OneshotIInv, [OneshotNext]_oneshotVars PROVE OneshotIInv'
  BY Zenon
<1> USE DEF OneshotIInv, OneshotTypes, OneshotValue, OneshotWake, SenderPcs, ReceiverPcs
<1>1. ASSUME NEW v \in Values, send_write(v) PROVE OneshotIInv'
  BY <1>1, NoValueAssumption, Zenon DEF send_write
<1>2. CASE send_cas
  BY <1>2 DEF send_cas
<1>3. CASE send_wake
  BY <1>3, ZenonT(60) DEF send_wake, take_waker
<1>4. CASE send_reclaim
  BY <1>4, Zenon DEF send_reclaim
<1>5. CASE sender_drop
  BY <1>5 DEF sender_drop
<1>6. CASE sender_drop_wake
  BY <1>6, ZenonT(30) DEF sender_drop_wake, take_waker
<1>7. CASE poll_load
  BY <1>7, NoValueAssumption, ZenonT(60) DEF poll_load, resolve
<1>8. CASE poll_register
  BY <1>8 DEF poll_register
<1>9. CASE poll_recheck
  BY <1>9, NoValueAssumption DEF poll_recheck, resolve
<1>10. CASE receiver_drop
  BY <1>10 DEF receiver_drop
<1>11. CASE UNCHANGED oneshotVars
  BY <1>11 DEF oneshotVars
<1> QED
  BY <1>1, <1>2, <1>3, <1>4, <1>5, <1>6, <1>7, <1>8, <1>9, <1>10, <1>11, Zenon
     DEF OneshotNext, SenderStep, ReceiverStep

\* The inductive invariant holds in every state of the channel.
THEOREM OneshotInvariant == OneshotSpec => []OneshotIInv
  BY OneshotInitIInv, OneshotNextIInv, PTL DEF OneshotSpec

\* Type correctness of the channel's state.
THEOREM OneshotTypeOK == OneshotSpec => []OneshotTypes
<1>1. OneshotIInv => OneshotTypes
  BY Zenon DEF OneshotIInv
<1> QED
  BY <1>1, OneshotInvariant, PTL

\* No interleaving of send, poll and the two drops makes an expect() or an unwrap()
\* of oneshot.rs fail, for any set of values.
THEOREM OneshotNoPanic == OneshotSpec => []NoPanic
<1>1. OneshotIInv => NoPanic
  BY NoValueAssumption, Zenon DEF OneshotIInv, OneshotValue, OneshotTypes, NoPanic
<1> QED
  BY <1>1, OneshotInvariant, PTL

\* The receiver's wake is never lost between its registration and the sender's
\* compare_exchange or swap.
THEOREM OneshotNoLostWake == OneshotSpec => []NoLostWake
<1>1. OneshotIInv => NoLostWake
  BY Zenon DEF OneshotIInv, OneshotWake, OneshotTypes, NoLostWake
<1> QED
  BY <1>1, OneshotInvariant, PTL

-----------------------------------------------------------------------------
(* Refinement                                                                *)

LEMMA InitRefines == OneshotInit => Channel!Init
  BY SMTT(60) DEF OneshotInit, Channel!Init, chanMap, itemMap, sresMap, rresMap

LEMMA NextRefines == OneshotIInv /\ [OneshotNext]_oneshotVars => [Channel!Next]_(Channel!vars)
<1> SUFFICES ASSUME OneshotIInv, [OneshotNext]_oneshotVars PROVE [Channel!Next]_(Channel!vars)
  BY Zenon
<1> USE DEF OneshotIInv, OneshotTypes, OneshotValue, OneshotWake, SenderPcs, ReceiverPcs,
            Channel!vars, chanMap, itemMap, sresMap, rresMap
<1>1. ASSUME NEW v \in Values, send_write(v) PROVE UNCHANGED Channel!vars
  BY <1>1, Zenon DEF send_write
<1>2. ASSUME send_cas PROVE (\E v \in Values : Channel!Send(v)) \/ Channel!Refuse
  <2>1. CASE state = "EMPTY"
    <3>1. Channel!Send(arg)
      BY <1>2, <2>1 DEF send_cas, Channel!Send
    <3> QED
      BY <3>1, <1>2, Zenon DEF send_cas
  <2>2. CASE state # "EMPTY"
    BY <1>2, <2>2, SMTT(60) DEF send_cas, Channel!Refuse
  <2> QED
    BY <2>1, <2>2, Zenon
<1>3. ASSUME send_wake \/ send_reclaim \/ sender_drop_wake \/ poll_register
      PROVE UNCHANGED Channel!vars
  BY <1>3, Zenon DEF send_wake, send_reclaim, sender_drop_wake, poll_register, take_waker
<1>4. ASSUME sender_drop PROVE Channel!DropSender \/ UNCHANGED Channel!vars
  BY <1>4, SMTT(60) DEF sender_drop, Channel!DropSender
<1>5. ASSUME poll_load \/ poll_recheck
      PROVE Channel!Receive \/ Channel!ReceiveClosed \/ UNCHANGED Channel!vars
  BY <1>5, Zenon DEF poll_load, poll_recheck, resolve, Channel!Receive, Channel!ReceiveClosed
<1>6. ASSUME receiver_drop PROVE Channel!DropReceiver
  BY <1>6, Zenon DEF receiver_drop, Channel!DropReceiver
<1>7. ASSUME UNCHANGED oneshotVars PROVE UNCHANGED Channel!vars
  BY <1>7, Zenon DEF oneshotVars
<1> QED
  BY <1>1, <1>2, <1>3, <1>4, <1>5, <1>6, <1>7, Zenon
     DEF OneshotNext, SenderStep, ReceiverStep, Channel!Next

\* sync::oneshot implements the atomic channel: every behaviour of the code, with
\* any set of values, is one of OneshotChannel under the refinement mapping.
THEOREM OneshotRefinement == OneshotSpec => ImplementsChannel
  BY InitRefines, NextRefines, OneshotInvariant, PTL DEF OneshotSpec, ImplementsChannel, Channel!Spec

-----------------------------------------------------------------------------
(***************************************************************************)
(* The receiving side of the channel, for any number of senders, any        *)
(* capacity, bounded or not, with futures polled and dropped at will.       *)
(***************************************************************************)

\* A receiver that waits without having been woken left its waker in the channel when
\* there was nothing to receive and a Sender was alive, and both are still so.
WaitInv ==
    (rx = "pending" /\ ~rx_woken) => (recv_waker /\ queue = <<>> /\ handles # {})

\* Once the receiver got None it stays true that nothing is queued and no Sender is left.
ClosedInv == rx = "closed" => (queue = <<>> /\ handles = {})

ChannelInv ==
    /\ bounded \in BOOLEAN
    /\ queue \in Seq(Senders \X Nat) /\ handles \subseteq Senders
    /\ accepted \in [Senders -> Nat]
    /\ rx \in {"idle", "pending", "closed", "dropped"}
    /\ rx_woken \in BOOLEAN /\ recv_waker \in BOOLEAN
    /\ WithinCapacity /\ WaitInv /\ ClosedInv

LEMMA RoomNat == Room \in Nat /\ Room > 0
BY MpscAssumption DEF Room

\* A value is put in the queue only while there is room and a Sender.
LEMMA DepositInv ==
    ASSUME ChannelInv, NEW s \in Senders, deposit(s), has_capacity, handles # {},
           UNCHANGED <<handles, rx, bounded>>
    PROVE  ChannelInv'
<1>1. /\ queue' = Append(queue, <<s, accepted[s] + 1>>) /\ queue' \in Seq(Senders \X Nat)
      /\ Len(queue') = Len(queue) + 1 /\ queue' # <<>>
      /\ accepted' \in [Senders -> Nat]
  BY DEF deposit, ChannelInv
<1>2. WithinCapacity'
  BY <1>1, RoomNat DEF WithinCapacity, has_capacity, ChannelInv
<1>3. recv_waker' = FALSE /\ rx_woken' = (rx_woken \/ recv_waker)
  BY Zenon DEF deposit, wake_receiver
<1>4. WaitInv'
  BY <1>3, Zenon DEF ChannelInv, WaitInv
<1>5. ClosedInv'
  BY Zenon DEF ChannelInv, ClosedInv
<1>6. rx_woken' \in BOOLEAN /\ recv_waker' \in BOOLEAN
  BY <1>3, ZenonT(30)
<1> QED BY <1>1, <1>2, <1>4, <1>5, <1>6, Zenon DEF ChannelInv

\* Steps that touch neither the queue nor the receiver's side.
LEMMA SenderSideInv ==
    ASSUME ChannelInv, UNCHANGED <<queue, handles, accepted, rx, rx_woken, recv_waker, bounded>>
    PROVE  ChannelInv'
BY Zenon DEF ChannelInv, WithinCapacity, WaitInv, ClosedInv

LEMMA SendingInv ==
    ASSUME ChannelInv, NEW s \in Senders, Sending(s)
    PROVE  ChannelInv'
<1>1. CASE clone(s)
  <2>1. handles # {} /\ handles' = handles \cup {s}
        /\ UNCHANGED <<queue, accepted, rx, rx_woken, recv_waker, bounded>>
    BY <1>1, Zenon DEF clone, sendVars, mode, recvVars
  <2> QED BY <2>1, Zenon DEF ChannelInv, WithinCapacity, WaitInv, ClosedInv
<1>2. CASE drop_sender(s)
  <2>1. handles' = handles \ {s} /\ s \in handles /\ UNCHANGED <<queue, accepted, rx, bounded>>
    BY <1>2, Zenon DEF drop_sender, sendVars, mode
  <2>2. CASE handles = {s}
    <3>1. recv_waker' = FALSE /\ rx_woken' = (rx_woken \/ recv_waker)
      BY <1>2, <2>2, Zenon DEF drop_sender, wake_receiver
    <3>2. WaitInv'
      BY <2>1, <3>1, Zenon DEF ChannelInv, WaitInv
    <3>3. rx_woken' \in BOOLEAN /\ recv_waker' \in BOOLEAN
      BY <3>1, ZenonT(30)
    <3> QED BY <2>1, <3>2, <3>3, Zenon DEF ChannelInv, WithinCapacity, ClosedInv
  <2>3. CASE handles # {s}
    <3>1. UNCHANGED <<recv_waker, rx_woken>>
      BY <1>2, <2>3, Zenon DEF drop_sender
    <3>2. handles' # {}
      BY <2>1, <2>3, Zenon
    <3> QED BY <2>1, <3>1, <3>2, Zenon DEF ChannelInv, WithinCapacity, WaitInv, ClosedInv
  <2> QED BY <2>2, <2>3, Zenon
<1>3. CASE send(s)
  BY <1>3, SenderSideInv, Zenon DEF send, recvVars, mode
<1>4. CASE send_poll_ready(s)
  <2>1. CASE is_closed
    BY <1>4, <2>1, SenderSideInv, Zenon DEF send_poll_ready, mode
  <2>2. CASE ~is_closed
    BY <1>4, <2>2, DepositInv, Zenon DEF send_poll_ready, mode, is_closed
  <2> QED BY <2>1, <2>2, Zenon
<1>5. CASE send_poll_full(s)
  BY <1>5, SenderSideInv, Zenon DEF send_poll_full, recvVars, mode
<1>6. CASE send_cancel(s)
  BY <1>6, SenderSideInv DEF send_cancel, recvVars, mode
<1>7. CASE unbounded_send(s)
  <2>1. CASE is_closed
    BY <1>7, <2>1, SenderSideInv, Zenon DEF unbounded_send, mode
  <2>2. CASE ~is_closed
    BY <1>7, <2>2, DepositInv, SMTT(60) DEF unbounded_send, mode, is_closed, has_capacity
  <2> QED BY <2>1, <2>2, Zenon
<1> QED BY <1>1, <1>2, <1>3, <1>4, <1>5, <1>6, <1>7, Zenon DEF Sending, send_poll

LEMMA ReceivingInv ==
    ASSUME ChannelInv, recv_poll \/ recv_cancel \/ drop_receiver
    PROVE  ChannelInv'
<1> USE DEF ChannelInv
<1>1. CASE recv_value
  <2>1. /\ queue # <<>> /\ queue' = Tail(queue) /\ rx' = "idle" /\ rx_woken' = FALSE
        /\ UNCHANGED <<handles, accepted, recv_waker, bounded>>
    BY <1>1, Zenon DEF recv_value, mode
  <2>2. queue' \in Seq(Senders \X Nat) /\ Len(queue') = Len(queue) - 1
    BY <2>1
  <2>3. WithinCapacity'
    BY <2>1, <2>2, RoomNat DEF WithinCapacity
  <2> QED BY <2>1, <2>2, <2>3, ZenonT(30) DEF WaitInv, ClosedInv
<1>2. CASE recv_none
  BY <1>2, ZenonT(30) DEF recv_none, sendVars, mode, WithinCapacity, WaitInv, ClosedInv
<1>3. CASE recv_pending
  BY <1>3, ZenonT(30) DEF recv_pending, sendVars, mode, WithinCapacity, WaitInv, ClosedInv
<1>4. CASE recv_cancel
  BY <1>4, ZenonT(30) DEF recv_cancel, sendVars, mode, WithinCapacity, WaitInv, ClosedInv
<1>5. CASE drop_receiver
  BY <1>5, Zenon DEF drop_receiver, mode, WithinCapacity, WaitInv, ClosedInv
<1> QED BY <1>1, <1>2, <1>3, <1>4, <1>5, Zenon DEF recv_poll

\* The invariant of the receiving side.
THEOREM MpscInvariant == MpscSpec => []ChannelInv
<1>1. MpscInit => ChannelInv
  <2> SUFFICES ASSUME MpscInit PROVE ChannelInv
    BY Zenon
  <2>1. queue = <<>> /\ queue \in Seq(Senders \X Nat) /\ Len(queue) = 0
    BY DEF MpscInit
  <2>2. WithinCapacity
    BY <2>1, RoomNat DEF WithinCapacity
  <2> QED BY <2>1, <2>2, MpscAssumption, ZenonT(30) DEF MpscInit, ChannelInv, WaitInv, ClosedInv
<1>2. ASSUME ChannelInv, [MpscNext]_mpscVars PROVE ChannelInv'
  <2>1. CASE \E s \in Senders : Sending(s)
    BY <1>2, <2>1, SendingInv, Zenon
  <2>2. CASE UNCHANGED mpscVars
    BY <1>2, <2>2, SenderSideInv DEF mpscVars, sendVars, mode, recvVars
  <2> QED BY <1>2, <2>1, <2>2, ReceivingInv DEF MpscNext
<1> QED BY <1>1, <1>2, PTL DEF MpscSpec

\* RecvFuture never sleeps through a value or through the drop of the last Sender: for any
\* senders, capacity and interleaving of sends, clones, drops and cancelled futures.
THEOREM MpscRecvNotMissed == MpscSpec => []RecvNotMissed
<1>1. ChannelInv => RecvNotMissed
  BY Zenon DEF ChannelInv, WaitInv, RecvNotMissed
<1> QED BY <1>1, MpscInvariant, PTL

\* The bounded channel never buffers more than its capacity.
THEOREM MpscWithinCapacity == MpscSpec => []WithinCapacity
<1>1. ChannelInv => WithinCapacity
  BY SMTT(60) DEF ChannelInv
<1> QED BY <1>1, MpscInvariant, PTL

-----------------------------------------------------------------------------
(***************************************************************************)
(* Mutual exclusion of the async Mutex, for any number of tasks.            *)
(***************************************************************************)

\* What mutual exclusion rests on: locked is set by the poll that makes the guard and
\* cleared by the guard's Drop, whatever the wait queue holds.
LockInv ==
    /\ locked \in BOOLEAN
    /\ lock_fut \in [Contenders -> {"none", "new", "pending", "held"}]
    /\ GuardExclusive

LEMMA LockStep ==
    ASSUME LockInv, [MutexNext]_mutexVars
    PROVE  LockInv'
<1> USE DEF LockInv, GuardExclusive
<1>1. ASSUME NEW t \in Contenders, lock(t) PROVE LockInv'
  BY <1>1, Zenon DEF lock
<1>2. ASSUME NEW t \in Contenders, poll_acquire(t) PROVE LockInv'
  <2>1. \A u \in Contenders : lock_fut[u] # "held"
    BY <1>2, Zenon DEF poll_acquire
  <2>2. lock_fut' = [lock_fut EXCEPT ![t] = "held"] /\ locked' = TRUE
    BY <1>2, Zenon DEF poll_acquire
  <2>3. \A u \in Contenders : lock_fut'[u] = "held" <=> u = t
    BY <2>1, <2>2, Zenon
  <2> QED BY <2>2, <2>3, Zenon
<1>3. ASSUME NEW t \in Contenders, poll_wait(t) PROVE LockInv'
  <2>1. lock_fut[t] # "held" /\ lock_fut' = [lock_fut EXCEPT ![t] = "pending"] /\ locked' = locked
    BY <1>3, Zenon DEF poll_wait, polled
  <2>2. \A u \in Contenders : lock_fut'[u] = "held" <=> lock_fut[u] = "held"
    BY <2>1, Zenon
  <2> QED BY <2>1, <2>2, Zenon
<1>4. ASSUME NEW t \in Contenders, cancel(t) PROVE LockInv'
  <2>1. lock_fut[t] # "held" /\ lock_fut' = [lock_fut EXCEPT ![t] = "none"] /\ locked' = locked
    BY <1>4, Zenon DEF cancel
  <2>2. \A u \in Contenders : lock_fut'[u] = "held" <=> lock_fut[u] = "held"
    BY <2>1, Zenon
  <2> QED BY <2>1, <2>2, Zenon
<1>5. ASSUME NEW t \in Contenders, unlock(t) PROVE LockInv'
  <2>1. lock_fut[t] = "held" /\ lock_fut' = [lock_fut EXCEPT ![t] = "none"] /\ locked' = FALSE
    BY <1>5, Zenon DEF unlock
  <2>2. \A u \in Contenders : lock_fut'[u] # "held"
    BY <2>1, Zenon
  <2> QED BY <2>1, <2>2, ZenonT(30)
<1>6. CASE UNCHANGED mutexVars
  BY <1>6 DEF mutexVars
<1> QED BY <1>1, <1>2, <1>3, <1>4, <1>5, <1>6, Zenon DEF MutexNext, Step

\* Two MutexGuards never exist at once, however lock futures are polled, woken and
\* dropped: the argument behind the `unsafe` dereferences of value_ptr.
THEOREM MutexGuardExclusive == MutexSpec => []GuardExclusive
<1>1. MutexInit => LockInv
  BY ZenonT(30) DEF MutexInit, LockInv, GuardExclusive
<1>2. LockInv => GuardExclusive
  BY Zenon DEF LockInv
<1> QED BY <1>1, <1>2, LockStep, PTL DEF MutexSpec

-----------------------------------------------------------------------------
(***************************************************************************)
(* The accounting of Interval, for every period.  The invariant adds to      *)
(* TicksAccounted its types and that the deadline to come is past the last   *)
(* one returned.                                                             *)
(***************************************************************************)

IntervalTypes ==
    /\ clock \in Nat /\ next_deadline \in Nat /\ missed \in Nat
    /\ tick \in {"none", "idle", "timer"}
    /\ fired \in Seq(Nat)

IntervalIInv ==
    /\ IntervalTypes
    /\ TicksAccounted
    /\ Len(fired) > 0 => fired[Len(fired)] < next_deadline

\* Advancing by k periods keeps the deadline a multiple of the period.
LEMMA IntervalAdvance ==
    ASSUME NEW n \in Nat, NEW k \in Nat, NEW p \in Nat
    PROVE  n * p + p * k = (n + k) * p
BY SMT

\* A late poll skips a natural number of periods.
LEMMA ExtraNat ==
    ASSUME NEW a \in Nat, NEW b \in Nat, a >= b
    PROVE  (a - b) \div Period \in Nat
BY IntervalAssumption, SMT

\* The step of a poll that returns a deadline.
LEMMA IntervalFire ==
    ASSUME IntervalIInv, poll_tick, clock >= next_deadline
    PROVE  IntervalIInv'
<1> DEFINE extra == (clock - next_deadline) \div Period
           k     == Least(extra + 1, MaxAdvance)
<1>1. /\ clock \in Nat /\ next_deadline \in Nat /\ missed \in Nat /\ fired \in Seq(Nat)
      /\ Period \in Nat /\ Period > 0 /\ MaxAdvance \in Nat /\ MaxAdvance > 0
  BY IntervalAssumption DEF IntervalIInv, IntervalTypes
<1>2. extra \in Nat
  BY <1>1, ExtraNat, SMTT(60)
<1>3. k \in Nat /\ k >= 1 /\ k <= extra + 1 /\ (extra < MaxAdvance => k = extra + 1)
  BY <1>1, <1>2 DEF Least
<1>4. /\ fired' = Append(fired, next_deadline) /\ missed' = missed + extra
      /\ next_deadline' = next_deadline + Period * k /\ tick' = "none" /\ clock' = clock
  BY Zenon DEF poll_tick
<1> HIDE DEF extra, k
<1>5. Period * k \in Nat /\ Period * k >= Period
  BY <1>1, <1>3
<1>6. IntervalTypes'
  BY <1>1, <1>2, <1>4, <1>5 DEF IntervalTypes
<1>7. /\ Len(fired') = Len(fired) + 1 /\ fired'[Len(fired')] = next_deadline
      /\ \A i \in 1..Len(fired) : fired'[i] = fired[i]
      /\ Len(fired) \in Nat
  BY <1>1, <1>4
<1>8. \E n \in 1..(Len(fired) + missed + 1)' : next_deadline' = n * Period
  <2>1. PICK n \in 1..(Len(fired) + missed + 1) : next_deadline = n * Period
    BY Zenon DEF IntervalIInv, TicksAccounted
  <2>2. n \in Nat /\ next_deadline' = (n + k) * Period
    BY <1>1, <1>3, <1>4, <1>7, <2>1, IntervalAdvance
  <2>3. n + k \in 1..(Len(fired') + missed' + 1)
    BY <1>1, <1>2, <1>3, <1>4, <1>7, <2>1
  <2> QED
    BY <2>2, <2>3, Zenon
<1>9. missed' < MaxAdvance => next_deadline' = (Len(fired') + missed' + 1) * Period
  <2> HAVE missed' < MaxAdvance
  <2>1. missed < MaxAdvance /\ k = extra + 1
    BY <1>1, <1>2, <1>3, <1>4
  <2>2. next_deadline = (Len(fired) + missed + 1) * Period
    BY <2>1, Zenon DEF IntervalIInv, TicksAccounted
  <2>3. next_deadline' = (Len(fired) + missed + 1 + k) * Period
    <3>1. Len(fired) + missed + 1 \in Nat
      BY <1>1, <1>7
    <3> QED
      BY <1>1, <1>3, <1>4, <2>2, <3>1, IntervalAdvance
  <2>4. Len(fired) + missed + 1 + k = Len(fired') + missed' + 1
    BY <1>1, <1>2, <1>4, <1>7, <2>1
  <2> QED
    BY <2>3, <2>4, Zenon
<1>10. \A i \in 1..Len(fired') : fired'[i] <= clock'
  BY <1>1, <1>4, <1>7, SMTT(60) DEF IntervalIInv, TicksAccounted
<1>11. \A i \in 1..(Len(fired') - 1) : fired'[i] < fired'[i + 1]
  BY <1>1, <1>4, <1>7, SMTT(60) DEF IntervalIInv, TicksAccounted
<1>12. fired'[Len(fired')] < next_deadline'
  BY <1>1, <1>4, <1>5, <1>7
<1> QED
  BY <1>6, <1>8, <1>9, <1>10, <1>11, <1>12, Zenon DEF IntervalIInv, TicksAccounted

\* The invariant holds of a new Interval (Interval::new).
LEMMA IntervalStart == IvInit => IntervalIInv
<1> SUFFICES ASSUME IvInit PROVE IntervalIInv
  BY Zenon
<1>1. IntervalTypes /\ Len(fired) = 0
  BY IntervalAssumption DEF IvInit, IntervalTypes
<1>2. next_deadline = 1 * Period /\ Len(fired) + missed + 1 = 1
  BY IntervalAssumption, <1>1 DEF IvInit
<1> QED
  BY <1>1, <1>2 DEF IntervalIInv, TicksAccounted

\* Time passing and the steps that do not return a deadline leave the accounting alone.
LEMMA IntervalOther ==
    ASSUME IntervalIInv, UNCHANGED <<next_deadline, missed, fired>>, clock' \in Nat, clock' >= clock,
           tick' \in {"none", "idle", "timer"}
    PROVE  IntervalIInv'
<1>1. clock \in Nat /\ next_deadline \in Nat /\ missed \in Nat /\ fired \in Seq(Nat)
  BY Zenon DEF IntervalIInv, IntervalTypes
<1>2. IntervalTypes'
  BY <1>1, Zenon DEF IntervalTypes
<1>3. \A i \in 1..Len(fired) : fired[i] <= clock'
  <2> TAKE i \in 1..Len(fired)
  <2>1. fired[i] <= clock /\ fired[i] \in Nat
    BY <1>1, SMTT(60) DEF IntervalIInv, TicksAccounted
  <2> QED
    BY <1>1, <2>1
<1> QED
  BY <1>2, <1>3, Zenon DEF IntervalIInv, TicksAccounted

\* The invariant is kept by every step.
LEMMA IntervalStep == IntervalIInv /\ [IvNext]_intervalVars => IntervalIInv'
<1> SUFFICES ASSUME IntervalIInv, [IvNext]_intervalVars PROVE IntervalIInv'
  BY Zenon
<1>0. clock \in Nat /\ tick \in {"none", "idle", "timer"}
  BY Zenon DEF IntervalIInv, IntervalTypes
<1>1. ASSUME NEW d \in 1..(2 * Period), pass(d) PROVE IntervalIInv'
  <2>1. d \in Nat
    BY IntervalAssumption
  <2> QED
    BY <1>0, <1>1, <2>1, IntervalOther DEF pass
<1>2. CASE new_tick
  BY <1>0, <1>2, IntervalOther DEF new_tick
<1>3. CASE poll_tick
  <2>1. CASE clock >= next_deadline
    BY <1>3, <2>1, IntervalFire, Zenon
  <2>2. CASE ~(clock >= next_deadline)
    BY <1>0, <1>3, <2>2, IntervalOther DEF poll_tick
  <2> QED
    BY <2>1, <2>2, Zenon
<1>4. CASE drop_tick
  BY <1>0, <1>4, IntervalOther DEF drop_tick
<1>5. CASE UNCHANGED intervalVars
  BY <1>0, <1>5, IntervalOther DEF intervalVars
<1> QED
  BY <1>1, <1>2, <1>3, <1>4, <1>5, Zenon DEF IvNext

\* For every period and however late tick() is polled: each deadline is returned once or
\* counted as missed, none is returned early, and the deadlines do not drift
\* (TickFuture::poll).
THEOREM IntervalTicksAccounted == IvSpec => []TicksAccounted
<1>1. IntervalIInv => TicksAccounted
  BY Zenon DEF IntervalIInv
<1> QED
  BY <1>1, IntervalStart, IntervalStep, PTL DEF IvSpec

-----------------------------------------------------------------------------
(***************************************************************************)
(* Proofs about signals, for any set of tasks and both backends.            *)
(***************************************************************************)

\* A set of natural numbers has a least one.
LEMMA LeastOf ==
    ASSUME NEW T, T \subseteq Nat, T # {}
    PROVE  \E x \in T : \A y \in T : x <= y
<1>. DEFINE R == OpToRel(<, Nat)
<1>1. IsWellFoundedOn(R, Nat)
  BY NatLessThanWellFounded, Zenon
<1>2. \A y, x \in Nat : y < x => <<y, x>> \in R
  BY Zenon DEF OpToRel
<1>. HIDE DEF R
<1>3. PICK x \in T : \A y \in T : ~ (<<y, x>> \in R)
  BY <1>1, WFMin, Zenon
<1>4. ASSUME NEW y \in T PROVE x <= y
  <2>1. x \in Nat /\ y \in Nat
    BY Zenon
  <2>2. ~ y < x
    BY <1>2, <1>3, <2>1, Zenon
  <2>. QED
    BY <2>1, <2>2
<1>. QED
  BY <1>4, Zenon

-----------------------------------------------------------------------------
(* How often a kind of signal occurs in a list.                               *)

At(vec, k) == {i \in DOMAIN vec : vec[i] = k}

LEMMA CountType ==
    ASSUME NEW S, NEW vec \in Seq(S), NEW k
    PROVE  /\ At(vec, k) \subseteq 1..Len(vec) /\ IsFiniteSet(At(vec, k))
           /\ Count(vec, k) = Cardinality(At(vec, k)) /\ Count(vec, k) \in Nat
<1>1. At(vec, k) \subseteq 1..Len(vec) /\ Len(vec) \in Nat
  BY DEF At
<1>2. IsFiniteSet(1..Len(vec))
  BY <1>1, FS_Interval
<1>3. IsFiniteSet(At(vec, k))
  BY <1>1, <1>2, FS_Subset, Zenon
<1>4. Count(vec, k) = Cardinality(At(vec, k))
  BY Zenon DEF Count, At
<1>. QED
  BY <1>1, <1>3, <1>4, FS_CardinalityType, Zenon

LEMMA CountEmpty == ASSUME NEW k PROVE Count(<<>>, k) = 0
<1>1. At(<<>>, k) = {}
  BY DEF At
<1>. QED
  BY <1>1, FS_EmptySet, Zenon DEF Count, At

LEMMA CountAppend ==
    ASSUME NEW S, NEW vec \in Seq(S), NEW x \in S, NEW k
    PROVE  Count(Append(vec, x), k) = IF x = k THEN Count(vec, k) + 1 ELSE Count(vec, k)
<1>. DEFINE n == Len(vec) + 1
<1>1. At(vec, k) \subseteq 1..Len(vec) /\ IsFiniteSet(At(vec, k)) /\ Count(vec, k) = Cardinality(At(vec, k))
  BY CountType, Zenon
<1>2. n \notin At(vec, k)
  BY <1>1
<1>3. At(Append(vec, x), k) = IF x = k THEN At(vec, k) \cup {n} ELSE At(vec, k)
  BY DEF At
<1>4. Count(Append(vec, x), k) = Cardinality(At(Append(vec, x), k))
  BY Zenon DEF Count, At
<1>. HIDE DEF n
<1>5. Cardinality(At(vec, k) \cup {n}) = Cardinality(At(vec, k)) + 1
  BY <1>1, <1>2, FS_AddElement, Zenon
<1>. QED
  BY <1>1, <1>3, <1>4, <1>5, Zenon

LEMMA CountConcat ==
    ASSUME NEW S, NEW u \in Seq(S), NEW v \in Seq(S), NEW k
    PROVE  Count(u \o v, k) = Count(u, k) + Count(v, k)
<1>. DEFINE A == At(u, k)
            B == At(v, k)
            C == {Len(u) + j : j \in B}
            f == [j \in B |-> Len(u) + j]
<1>1. /\ A \subseteq 1..Len(u) /\ IsFiniteSet(A) /\ Count(u, k) = Cardinality(A)
      /\ B \subseteq 1..Len(v) /\ IsFiniteSet(B) /\ Count(v, k) = Cardinality(B)
  BY CountType, Zenon
<1>2. f \in Bijection(B, C)
  <2>1. f \in [B -> C] /\ \A c \in C : \E b \in B : f[b] = c
    BY Zenon
  <2>2. \A a, b \in B : f[a] = f[b] => a = b
    BY <1>1
  <2>. HIDE DEF f, C
  <2>. QED
    BY <2>1, <2>2, Zenon DEF Bijection, Injection, Surjection, IsInjective
<1>. HIDE DEF f
<1>3. IsFiniteSet(C) /\ Cardinality(C) = Cardinality(B)
  BY <1>1, <1>2, FS_Bijection, Zenon DEF ExistsBijection
<1>4. A \cap C = {}
  BY <1>1
<1>5. At(u \o v, k) = A \cup C
  <2>1. ASSUME NEW i \in At(u \o v, k) PROVE i \in A \cup C
    <3>1. CASE i <= Len(u)
      BY <2>1, <3>1 DEF At
    <3>2. CASE i > Len(u)
      <4>1. i - Len(u) \in DOMAIN v /\ v[i - Len(u)] = k /\ i = Len(u) + (i - Len(u))
        BY <2>1, <3>2 DEF At
      <4>. QED
        BY <4>1, Zenon DEF At
    <3>. QED
      BY <2>1, <3>1, <3>2 DEF At
  <2>2. A \subseteq At(u \o v, k)
    BY DEF At
  <2>3. C \subseteq At(u \o v, k)
    BY DEF At
  <2>. QED
    BY <2>1, <2>2, <2>3, Zenon
<1>6. Count(u \o v, k) = Cardinality(At(u \o v, k))
  BY Zenon DEF Count, At
<1>. HIDE DEF A, B, C
<1>7. Cardinality(A \cup C) = Cardinality(A) + Cardinality(C)
  <2>1. Cardinality(A \cup C) = Cardinality(A) + Cardinality(C) - Cardinality(A \cap C)
    BY <1>1, <1>3, FS_Union, Zenon
  <2>2. Cardinality(A) \in Nat /\ Cardinality(C) \in Nat /\ Cardinality(A \cap C) = 0
    BY <1>1, <1>3, <1>4, FS_CardinalityType, FS_EmptySet, Zenon
  <2>. QED
    BY <2>1, <2>2
<1>. QED
  BY <1>1, <1>3, <1>5, <1>6, <1>7, Zenon

\* Vec::remove takes one occurrence.
LEMMA CountRemove ==
    ASSUME NEW S, NEW vec \in Seq(S), NEW p \in DOMAIN vec, NEW k
    PROVE  /\ remove(vec, p) \in Seq(S)
           /\ Count(remove(vec, p), k) = IF vec[p] = k THEN Count(vec, k) - 1 ELSE Count(vec, k)
<1>. DEFINE r == remove(vec, p)
            A == At(vec, k) \ {p}
            B == At(r, k)
            f == [j \in B |-> IF j < p THEN j ELSE j + 1]
<1>1. Len(vec) \in Nat /\ p \in 1..Len(vec) /\ Len(vec) - 1 \in Nat
  OBVIOUS
<1>2. r \in Seq(S) /\ Len(r) = Len(vec) - 1 /\ DOMAIN r = 1..Len(vec) - 1
  BY <1>1 DEF remove
<1>3. /\ At(vec, k) \subseteq 1..Len(vec) /\ IsFiniteSet(At(vec, k))
      /\ Count(vec, k) = Cardinality(At(vec, k))
      /\ B \subseteq 1..Len(r) /\ IsFiniteSet(B) /\ Count(r, k) = Cardinality(B)
  BY <1>2, CountType, Zenon
<1>4. f \in Bijection(B, A)
  <2>1. ASSUME NEW j \in B PROVE f[j] \in A
    BY <1>1, <1>2, <1>3 DEF At, remove
  <2>2. \A a, b \in B : f[a] = f[b] => a = b
    BY <1>1, <1>2, <1>3
  <2>3. ASSUME NEW a \in A PROVE \E b \in B : f[b] = a
    <3>1. CASE a < p
      <4>1. a \in B /\ f[a] = a
        BY <1>1, <1>2, <1>3, <3>1 DEF At, remove
      <4>. QED
        BY <4>1, Zenon
    <3>2. CASE a > p
      <4>1. a - 1 \in B /\ f[a - 1] = a
        BY <1>1, <1>2, <1>3, <3>2 DEF At, remove
      <4>. QED
        BY <4>1, Zenon
    <3>. QED
      BY <1>1, <1>3, <3>1, <3>2
  <2>4. f \in [B -> A]
    BY <2>1, Zenon
  <2>. HIDE DEF f, A, B
  <2>. QED
    BY <2>2, <2>3, <2>4, Zenon DEF Bijection, Injection, Surjection, IsInjective
<1>. HIDE DEF f, B
<1>5. Cardinality(A) = Cardinality(B)
  <2>1. IsFiniteSet(B) /\ ExistsBijection(B, A)
    BY <1>3, <1>4, Zenon DEF ExistsBijection
  <2>. QED
    BY <2>1, FS_Bijection, Zenon
<1>6. p \in At(vec, k) <=> vec[p] = k
  BY Zenon DEF At
<1>7. Cardinality(A) = IF vec[p] = k THEN Count(vec, k) - 1 ELSE Count(vec, k)
  BY <1>3, <1>6, FS_RemoveElement, Zenon
<1>. QED
  BY <1>2, <1>3, <1>5, <1>7, Zenon

-----------------------------------------------------------------------------
(* The inductive invariant of the signals.                                    *)

SigTypes ==
    /\ pipe \in Seq(SignalKinds) /\ pending \in Seq(SignalKinds)
    /\ signals \in [SignalKinds -> Nat]
    /\ signal_waiters \subseteq SignalKinds \X SignalTasks
    /\ sigDue \subseteq SignalTasks
    /\ signal_fut \in [SignalTasks -> [kind : SignalKinds \cup {"none"}, at : {"none", "waiting", "done"}]]

\* Who is scheduled still waits; who waits and is not scheduled has registered its waker, and
\* nothing for it is pending; who is registered waits and is not scheduled.
SigWaits(t) ==
    /\ t \in sigDue => signal_fut[t].at = "waiting" /\ signal_fut[t].kind \in SignalKinds
    /\ (signal_fut[t].at = "waiting" /\ t \notin sigDue) =>
          <<signal_fut[t].kind, t>> \in signal_waiters /\ signal_fut[t].kind \notin Range(pending)
    /\ \A k \in SignalKinds : <<k, t>> \in signal_waiters =>
          signal_fut[t] = [kind |-> k, at |-> "waiting"] /\ t \notin sigDue

SigCounted(k) == signals[k] = Count(pipe, k) + Count(pending, k) + Cardinality(Resolved(k))

SigIInv == SigTypes /\ (\A t \in SignalTasks : SigWaits(t)) /\ (\A k \in SignalKinds : SigCounted(k))

LEMMA ResolvedFinite ==
    ASSUME NEW k PROVE IsFiniteSet(Resolved(k)) /\ Cardinality(Resolved(k)) \in Nat
<1>1. Resolved(k) \subseteq SignalTasks
  BY Zenon DEF Resolved
<1>. QED
  BY <1>1, SignalAssumption, FS_Subset, FS_CardinalityType, Zenon

LEMMA SigInitial == SigInit => SigIInv
<1>. SUFFICES ASSUME SigInit PROVE SigIInv
  BY Zenon
<1>1. SigTypes
  BY DEF SigInit, SigTypes, SignalKinds
<1>2. ASSUME NEW t \in SignalTasks PROVE SigWaits(t)
  BY Zenon DEF SigInit, SigWaits
<1>3. ASSUME NEW k \in SignalKinds PROVE SigCounted(k)
  <2>1. Resolved(k) = {}
    BY Zenon DEF SigInit, Resolved
  <2>2. Cardinality(Resolved(k)) = 0
    BY <2>1, FS_EmptySet, Zenon
  <2>3. Count(pipe, k) = 0 /\ Count(pending, k) = 0
    BY CountEmpty, Zenon DEF SigInit
  <2>. QED
    BY <2>2, <2>3 DEF SigInit, SigCounted
<1>. QED
  BY <1>1, <1>2, <1>3, Zenon DEF SigIInv

\* A step that changes neither the lists nor the futures.
LEMMA SigIdle ==
    ASSUME SigIInv,
           UNCHANGED <<pipe, pending, signals, signal_waiters, sigDue, signal_fut>>
    PROVE  SigIInv'
<1>1. SigTypes'
  BY Zenon DEF SigIInv, SigTypes
<1>2. ASSUME NEW t \in SignalTasks PROVE SigWaits(t)'
  BY Zenon DEF SigIInv, SigWaits
<1>3. ASSUME NEW k \in SignalKinds PROVE SigCounted(k)'
  BY Zenon DEF SigIInv, SigCounted, Resolved
<1>. QED
  BY <1>1, <1>2, <1>3, Zenon DEF SigIInv

\* signal(kind) makes a future, which its task polls.
LEMMA SignalStep ==
    ASSUME SigIInv, NEW t \in SignalTasks, NEW kind \in SignalKinds, signal(t, kind)
    PROVE  SigIInv'
<1>1. CASE UNCHANGED <<signal_fut, sigDue>>
  <2>1. UNCHANGED <<pipe, pending, signals, signal_waiters>>
    BY Zenon DEF signal
  <2>. QED
    BY <1>1, <2>1, SigIdle, Zenon
<1>2. CASE /\ signal_fut' = [signal_fut EXCEPT ![t] = [kind |-> kind, at |-> "waiting"]]
           /\ sigDue' = sigDue \cup {t}
  <2>1. /\ signal_fut[t].at = "none"
        /\ UNCHANGED <<pipe, pending, signals, signal_waiters>>
    BY Zenon DEF signal
  <2>2. SigTypes'
    BY <1>2, <2>1, Zenon DEF SigIInv, SigTypes
  <2>3. ASSUME NEW u \in SignalTasks PROVE SigWaits(u)'
    <3>1. SigWaits(u) /\ signal_fut' = [signal_fut EXCEPT ![t] = [kind |-> kind, at |-> "waiting"]]
      BY <1>2, Zenon DEF SigIInv
    <3>2. signal_fut \in [SignalTasks -> [kind : SignalKinds \cup {"none"}, at : {"none", "waiting", "done"}]]
      BY Zenon DEF SigIInv, SigTypes
    <3>3. CASE u = t
      <4>1. signal_fut'[t] = [kind |-> kind, at |-> "waiting"]
        BY <3>1, <3>2, Zenon
      <4>2. ASSUME NEW k \in SignalKinds, <<k, t>> \in signal_waiters PROVE FALSE
        <5>1. signal_fut[t] = [kind |-> k, at |-> "waiting"]
          BY <3>1, <3>3, <4>2, Zenon DEF SigWaits
        <5>. QED
          BY <2>1, <5>1
      <4>. QED
        BY <1>2, <2>1, <3>3, <4>1, <4>2 DEF SigWaits
    <3>4. CASE u # t
      BY <1>2, <2>1, <3>1, <3>2, <3>4 DEF SigWaits
    <3>. QED
      BY <3>3, <3>4, Zenon
  <2>4. ASSUME NEW k \in SignalKinds PROVE SigCounted(k)'
    <3>1. Resolved(k)' = Resolved(k)
      BY <1>2, <2>1 DEF Resolved, SigIInv, SigTypes
    <3>. QED
      BY <2>1, <3>1, Zenon DEF SigIInv, SigCounted
  <2>. QED
    BY <2>2, <2>3, <2>4, Zenon DEF SigIInv
<1>. QED
  BY <1>1, <1>2, Zenon DEF signal

\* The handler puts the signal into the pipe.
LEMMA HandlerStep ==
    ASSUME SigIInv, NEW kind \in SignalKinds, signal_handler(kind)
    PROVE  SigIInv'
<1>1. /\ signals' = [signals EXCEPT ![kind] = @ + 1] /\ pipe' = Append(pipe, kind)
      /\ UNCHANGED <<pending, signal_waiters, signal_fut, sigDue>>
  BY Zenon DEF signal_handler
<1>2. SigTypes'
  BY <1>1 DEF SigIInv, SigTypes
<1>3. ASSUME NEW t \in SignalTasks PROVE SigWaits(t)'
  BY <1>1, Zenon DEF SigIInv, SigWaits
<1>4. ASSUME NEW k \in SignalKinds PROVE SigCounted(k)'
  <2>1. Resolved(k)' = Resolved(k) /\ pending' = pending
    BY <1>1, Zenon DEF Resolved
  <2>2. pipe \in Seq(SignalKinds) /\ pending \in Seq(SignalKinds) /\ signals \in [SignalKinds -> Nat]
    BY Zenon DEF SigIInv, SigTypes
  <2>3. Count(pipe', k) = IF kind = k THEN Count(pipe, k) + 1 ELSE Count(pipe, k)
    BY <1>1, <2>2, CountAppend
  <2>4. Count(pipe, k) \in Nat /\ Count(pending, k) \in Nat /\ Cardinality(Resolved(k)) \in Nat
    BY <2>2, CountType, ResolvedFinite, Zenon
  <2>5. signals'[k] = IF kind = k THEN signals[k] + 1 ELSE signals[k]
    BY <1>1, <2>2, Zenon
  <2>6. signals[k] = Count(pipe, k) + Count(pending, k) + Cardinality(Resolved(k))
    BY Zenon DEF SigIInv, SigCounted
  <2>7. signals'[k] = Count(pipe', k) + Count(pending, k) + Cardinality(Resolved(k))
    BY <2>3, <2>4, <2>5, <2>6
  <2>. QED
    BY <2>1, <2>7, Zenon DEF SigCounted
<1>. QED
  BY <1>2, <1>3, <1>4, Zenon DEF SigIInv

\* The pipe is moved to the pending list, and those who wait for what is there are woken.
LEMMA ReadableStep ==
    ASSUME SigIInv, on_signal_readable, UNCHANGED <<signal_fut, signals>>
    PROVE  SigIInv'
<1>1. CASE signal_state # "ready"
  <2>1. UNCHANGED <<pending, pipe, signal_waiters, sigDue>>
    BY <1>1, Zenon DEF on_signal_readable
  <2>. QED
    BY <2>1, SigIdle, Zenon
<1>2. CASE signal_state = "ready"
  <2>. DEFINE hit == {p \in signal_waiters : p[1] \in Range(pending \o pipe)}
  <2>1. /\ pending' = pending \o pipe /\ pipe' = <<>>
        /\ signal_waiters' = signal_waiters \ hit
        /\ sigDue' = sigDue \cup {p[2] : p \in hit}
    BY <1>2, Zenon DEF on_signal_readable
  <2>2. /\ pipe \in Seq(SignalKinds) /\ pending \in Seq(SignalKinds) /\ signals \in [SignalKinds -> Nat]
        /\ signal_waiters \subseteq SignalKinds \X SignalTasks
        /\ signal_fut \in [SignalTasks -> [kind : SignalKinds \cup {"none"}, at : {"none", "waiting", "done"}]]
        /\ sigDue \subseteq SignalTasks
    BY Zenon DEF SigIInv, SigTypes
  <2>3. SigTypes'
    <3>1. pending' \in Seq(SignalKinds) /\ pipe' \in Seq(SignalKinds)
      BY <2>1, <2>2
    <3>2. signal_waiters' \subseteq SignalKinds \X SignalTasks /\ sigDue' \subseteq SignalTasks
      BY <2>1, <2>2
    <3>. QED
      BY <2>2, <3>1, <3>2, Zenon DEF SigTypes
  <2>4. ASSUME NEW t \in SignalTasks PROVE SigWaits(t)'
    <3>1. SigWaits(t)
      BY Zenon DEF SigIInv
    <3>2. \A k : <<k, t>> \in hit <=> <<k, t>> \in signal_waiters /\ k \in Range(pending')
      BY <2>1, Zenon
    <3>9. \A p \in hit : p \in SignalKinds \X SignalTasks /\ p = <<p[1], p[2]>> /\ p[1] \in SignalKinds
      BY <2>2
    <3>3. t \in sigDue' <=> t \in sigDue \/ \E k \in SignalKinds : <<k, t>> \in hit
      <4>1. ASSUME NEW k \in SignalKinds, <<k, t>> \in hit PROVE t \in sigDue'
        <5>1. <<k, t>>[2] = t
          BY Zenon
        <5>. QED
          BY <2>1, <4>1, <5>1, Zenon
      <4>2. ASSUME t \in sigDue', t \notin sigDue PROVE \E k \in SignalKinds : <<k, t>> \in hit
        <5>1. PICK p \in hit : t = p[2]
          BY <2>1, <4>2, Zenon
        <5>. QED
          BY <3>9, <5>1, Zenon
      <4>. QED
        BY <2>1, <4>1, <4>2, Zenon
    <3>4. \A k : <<k, t>> \in signal_waiters' <=> <<k, t>> \in signal_waiters /\ <<k, t>> \notin hit
      BY <2>1, Zenon
    <3>. HIDE DEF hit
    <3>5. ASSUME NEW k \in SignalKinds, <<k, t>> \in signal_waiters
          PROVE  signal_fut[t] = [kind |-> k, at |-> "waiting"] /\ t \notin sigDue
                 /\ signal_fut[t].kind = k /\ signal_fut[t].at = "waiting"
      <4>1. signal_fut[t] = [kind |-> k, at |-> "waiting"] /\ t \notin sigDue
        BY <3>1, <3>5, Zenon DEF SigWaits
      <4>. QED
        BY <4>1
    <3>6. t \in sigDue' => signal_fut[t].at = "waiting" /\ signal_fut[t].kind \in SignalKinds
      <4>1. ASSUME NEW k \in SignalKinds, <<k, t>> \in hit
            PROVE  signal_fut[t].at = "waiting" /\ signal_fut[t].kind \in SignalKinds
        BY <3>2, <3>5, <4>1, Zenon
      <4>. QED
        BY <3>1, <3>3, <4>1, Zenon DEF SigWaits
    <3>7. ASSUME signal_fut[t].at = "waiting", t \notin sigDue'
          PROVE  /\ <<signal_fut[t].kind, t>> \in signal_waiters'
                 /\ signal_fut[t].kind \notin Range(pending')
      <4>1. t \notin sigDue /\ <<signal_fut[t].kind, t>> \in signal_waiters
        BY <3>1, <3>3, <3>7, Zenon DEF SigWaits
      <4>2. signal_fut[t].kind \in SignalKinds
        BY <2>2, <4>1, Zenon
      <4>3. <<signal_fut[t].kind, t>> \notin hit
        BY <3>3, <3>7, <4>2, Zenon
      <4>. QED
        BY <3>2, <3>4, <4>1, <4>3, Zenon
    <3>8. ASSUME NEW k \in SignalKinds, <<k, t>> \in signal_waiters'
          PROVE  signal_fut[t] = [kind |-> k, at |-> "waiting"] /\ t \notin sigDue'
      <4>1. <<k, t>> \in signal_waiters /\ <<k, t>> \notin hit
        BY <3>4, <3>8, Zenon
      <4>2. ASSUME NEW j \in SignalKinds, <<j, t>> \in hit PROVE FALSE
        <5>1. signal_fut[t].kind = j /\ signal_fut[t].kind = k
          BY <3>2, <3>5, <4>1, <4>2, Zenon
        <5>. QED
          BY <4>1, <4>2, <5>1, Zenon
      <4>. QED
        BY <3>3, <3>5, <4>1, <4>2, Zenon
    <3>. QED
      BY <3>6, <3>7, <3>8, Zenon DEF SigWaits
  <2>5. ASSUME NEW k \in SignalKinds PROVE SigCounted(k)'
    <3>1. Resolved(k)' = Resolved(k)
      BY Zenon DEF Resolved
    <3>2. Count(pending', k) = Count(pending, k) + Count(pipe, k) /\ Count(pipe', k) = 0
      BY <2>1, <2>2, CountConcat, CountEmpty
    <3>3. Count(pipe, k) \in Nat /\ Count(pending, k) \in Nat /\ Cardinality(Resolved(k)) \in Nat
      BY <2>2, CountType, ResolvedFinite, Zenon
    <3>4. signals[k] = Count(pipe, k) + Count(pending, k) + Cardinality(Resolved(k))
      BY Zenon DEF SigIInv, SigCounted
    <3>5. signals[k] = Count(pipe', k) + Count(pending', k) + Cardinality(Resolved(k))
      BY <3>2, <3>3, <3>4
    <3>. QED
      BY <3>1, <3>5, Zenon DEF SigCounted
  <2>. QED
    BY <2>3, <2>4, <2>5, Zenon DEF SigIInv
<1>. QED
  BY <1>1, <1>2, Zenon

\* Signal::poll takes one pending signal, or waits.
LEMMA PollStep ==
    ASSUME SigIInv, NEW t \in SignalTasks, poll_signal(t)
    PROVE  SigIInv'
<1>. DEFINE k0 == signal_fut[t].kind
            at == {i \in DOMAIN pending : pending[i] = k0}
            Futs == [SignalTasks -> [kind : SignalKinds \cup {"none"}, at : {"none", "waiting", "done"}]]
<1>1. /\ t \in sigDue /\ sigDue' = sigDue \ {t} /\ UNCHANGED <<pipe, signals>>
  BY Zenon DEF poll_signal
<1>2. /\ pipe \in Seq(SignalKinds) /\ pending \in Seq(SignalKinds) /\ signals \in [SignalKinds -> Nat]
      /\ signal_waiters \subseteq SignalKinds \X SignalTasks
      /\ signal_fut \in Futs /\ sigDue \subseteq SignalTasks
  BY Zenon DEF SigIInv, SigTypes
<1>3. SigWaits(t) /\ \A u \in SignalTasks : SigWaits(u)
  BY Zenon DEF SigIInv
<1>4. signal_fut[t].at = "waiting" /\ k0 \in SignalKinds
  BY <1>1, <1>3, Zenon DEF SigWaits
<1>5. \A k \in SignalKinds : <<k, t>> \notin signal_waiters
  BY <1>1, <1>3, Zenon DEF SigWaits
<1>6. CASE at # {}
  <2>. DEFINE p == CHOOSE i \in at : \A j \in at : i <= j
  <2>1. /\ pending' = remove(pending, p) /\ signal_fut' = [signal_fut EXCEPT ![t].at = "done"]
        /\ signal_waiters' = signal_waiters
    BY <1>6, Zenon DEF poll_signal
  <2>2. p \in at
    <3>1. at \subseteq Nat
      BY <1>2
    <3>2. \E i \in at : \A j \in at : i <= j
      BY <1>6, <3>1, LeastOf, Zenon
    <3>. QED
      BY <3>2, Zenon
  <2>3. p \in DOMAIN pending /\ pending[p] = k0
    BY <2>2, Zenon
  <2>. HIDE DEF p, at
  <2>4. /\ pending' \in Seq(SignalKinds)
        /\ \A k : Count(pending', k) = IF k0 = k THEN Count(pending, k) - 1 ELSE Count(pending, k)
    BY <1>2, <2>1, <2>3, CountRemove
  <2>5. /\ signal_fut' \in Futs /\ signal_fut'[t] = [kind |-> k0, at |-> "done"]
        /\ \A u \in SignalTasks \ {t} : signal_fut'[u] = signal_fut[u]
    BY <1>2, <2>1, Zenon
  <2>6. SigTypes'
    <3>1. sigDue' \subseteq SignalTasks
      BY <1>1, <1>2, Zenon
    <3>. QED
      BY <1>1, <1>2, <2>1, <2>4, <2>5, <3>1, Zenon DEF SigTypes
  <2>7. Range(pending') \subseteq Range(pending)
    <3>1. ASSUME NEW j \in DOMAIN pending' PROVE pending'[j] \in Range(pending)
      BY <1>2, <2>1, <2>3, SMTT(30) DEF remove, Range
    <3>. QED
      BY <3>1, Zenon DEF Range
  <2>8. ASSUME NEW u \in SignalTasks PROVE SigWaits(u)'
    <3>1. CASE u = t
      <4>1. u \notin sigDue' /\ signal_fut'[u].at # "waiting" /\ \A k \in SignalKinds : <<k, u>> \notin signal_waiters'
        BY <1>1, <1>5, <2>1, <2>5, <3>1
      <4>. QED
        BY <4>1, Zenon DEF SigWaits
    <3>2. CASE u # t
      <4>1. signal_fut'[u] = signal_fut[u] /\ (u \in sigDue' <=> u \in sigDue)
        BY <1>1, <2>5, <3>2, Zenon
      <4>2. SigWaits(u) /\ signal_waiters' = signal_waiters
        BY <1>3, <2>1, Zenon
      <4>3. signal_fut[u].kind \notin Range(pending) => signal_fut[u].kind \notin Range(pending')
        BY <2>7, Zenon
      <4>. QED
        BY <4>1, <4>2, <4>3, Zenon DEF SigWaits
    <3>. QED
      BY <3>1, <3>2, Zenon
  <2>9. ASSUME NEW k \in SignalKinds PROVE SigCounted(k)'
    <3>1. IsFiniteSet(Resolved(k)) /\ Cardinality(Resolved(k)) \in Nat
      BY ResolvedFinite, Zenon
    <3>2. t \notin Resolved(k)
      BY <1>4 DEF Resolved
    <3>3. Resolved(k)' = IF k = k0 THEN Resolved(k) \cup {t} ELSE Resolved(k)
      BY <2>5 DEF Resolved
    <3>. HIDE DEF k0
    <3>4. Cardinality(Resolved(k)') = IF k = k0 THEN Cardinality(Resolved(k)) + 1 ELSE Cardinality(Resolved(k))
      BY <3>1, <3>2, <3>3, FS_AddElement, Zenon
    <3>5. Count(pipe, k) \in Nat /\ Count(pending, k) \in Nat
      BY <1>2, CountType, Zenon
    <3>6. signals[k] = Count(pipe, k) + Count(pending, k) + Cardinality(Resolved(k))
      BY Zenon DEF SigIInv, SigCounted
    <3>7. Count(pending', k) = IF k0 = k THEN Count(pending, k) - 1 ELSE Count(pending, k)
      BY <2>4, Zenon
    <3>8. signals[k] = Count(pipe, k) + Count(pending', k) + Cardinality(Resolved(k)')
      BY <3>1, <3>4, <3>5, <3>6, <3>7
    <3>. QED
      BY <1>1, <3>8, Zenon DEF SigCounted
  <2>. QED
    BY <2>6, <2>8, <2>9, Zenon DEF SigIInv
<1>7. CASE at = {}
  <2>1. signal_waiters' = signal_waiters \cup {<<k0, t>>} /\ UNCHANGED <<pending, signal_fut>>
    BY <1>7, Zenon DEF poll_signal
  <2>2. k0 \notin Range(pending)
    BY <1>7, Zenon DEF Range
  <2>3. SigTypes'
    <3>1. sigDue' \subseteq SignalTasks /\ signal_waiters' \subseteq SignalKinds \X SignalTasks
      BY <1>1, <1>2, <1>4, <2>1
    <3>. QED
      BY <1>1, <1>2, <2>1, <3>1, Zenon DEF SigTypes
  <2>4. ASSUME NEW u \in SignalTasks PROVE SigWaits(u)'
    <3>1. CASE u = t
      <4>1. /\ t \notin sigDue' /\ signal_fut'[t].at = "waiting" /\ <<k0, t>> \in signal_waiters'
            /\ signal_fut'[t] = [kind |-> k0, at |-> "waiting"] /\ signal_fut'[t].kind = k0
        BY <1>1, <1>2, <1>4, <2>1, Zenon
      <4>2. \A k \in SignalKinds : <<k, t>> \in signal_waiters' => k = k0
        BY <1>5, <2>1, Zenon
      <4>. QED
        BY <2>1, <2>2, <3>1, <4>1, <4>2, Zenon DEF SigWaits
    <3>2. CASE u # t
      <4>1. u \in sigDue' <=> u \in sigDue
        BY <1>1, <3>2, Zenon
      <4>2. \A k : <<k, u>> \in signal_waiters' <=> <<k, u>> \in signal_waiters
        BY <2>1, <3>2, Zenon
      <4>3. SigWaits(u) /\ signal_fut' = signal_fut /\ pending' = pending
        BY <1>3, <2>1, Zenon
      <4>. HIDE DEF at
      <4>. QED
        BY <4>1, <4>2, <4>3, Zenon DEF SigWaits
    <3>. QED
      BY <3>1, <3>2, Zenon
  <2>5. ASSUME NEW k \in SignalKinds PROVE SigCounted(k)'
    BY <1>1, <2>1, Zenon DEF SigIInv, SigCounted, Resolved
  <2>. QED
    BY <2>3, <2>4, <2>5, Zenon DEF SigIInv
<1>. QED
  BY <1>6, <1>7, Zenon

LEMMA SigInductive == SigIInv /\ [SigNext]_sigVars => SigIInv'
<1>. SUFFICES ASSUME SigIInv, [SigNext]_sigVars PROVE SigIInv'
  BY Zenon
<1>1. CASE UNCHANGED sigVars
  <2>1. UNCHANGED <<pipe, pending, signals, signal_waiters, sigDue, signal_fut>>
    BY <1>1, Zenon DEF sigVars
  <2>. QED
    BY <2>1, SigIdle, Zenon
<1>2. CASE notify_worker
  <2>1. UNCHANGED <<pipe, pending, signals, signal_waiters, sigDue, signal_fut>>
    BY <1>2, Zenon DEF notify_worker
  <2>. QED
    BY <2>1, SigIdle, Zenon
<1>3. CASE park_main \/ park_worker
  <2>1. /\ UNCHANGED <<signal_fut, signals>>
        /\ on_signal_readable \/ UNCHANGED <<pending, pipe, signal_waiters, sigDue>>
    BY <1>3, Zenon DEF park_main, park_worker
  <2>. QED
    BY <2>1, ReadableStep, SigIdle, Zenon
<1>4. ASSUME NEW k \in SignalKinds, signal_handler(k) PROVE SigIInv'
  BY <1>4, HandlerStep, Zenon
<1>5. ASSUME NEW t \in SignalTasks, (\E k \in SignalKinds : signal(t, k)) \/ poll_signal(t) PROVE SigIInv'
  BY <1>5, SignalStep, PollStep
<1>. QED
  BY <1>1, <1>2, <1>3, <1>4, <1>5, Zenon DEF SigNext

\* The inductive invariant of the self-pipe, the pending list and the Signal futures: every
\* signal raised is in one of them or was taken, and a waiter is in the list it is woken from
\* (signal_handler, on_signal_readable, Signal::poll).
THEOREM SignalInvariant == SigSpec => []SigIInv
<1>. QED
  BY SigInitial, SigInductive, PTL DEF SigSpec

\* For any number of tasks and signals, none is lost or delivered twice between the handler and
\* the Signal futures (signal_handler, on_signal_readable, Signal::poll).
THEOREM SignalConserved == SigSpec => []SignalsConserved
<1>1. SigIInv => SignalsConserved
  <2>. SUFFICES ASSUME SigIInv PROVE SignalsConserved
    BY Zenon
  <2>1. \A t \in SignalTasks : SigWaits(t)
    BY Zenon DEF SigIInv
  <2>2. \A k \in SignalKinds : SigCounted(k)
    BY Zenon DEF SigIInv
  <2>. QED
    BY <2>1, <2>2, Zenon DEF SignalsConserved, SigWaits, SigCounted
<1>. QED
  BY <1>1, SignalInvariant, PTL

-----------------------------------------------------------------------------
(***************************************************************************)
(* Task-locals: for any tasks and any nesting of their scopes.             *)
(***************************************************************************)

ScopeKeys == UNION {{Key(t, i) : i \in DOMAIN ScopesOf[t]} : t \in ScopeTasks}
ScopeVals == UNION {{Val(t, i) : i \in DOMAIN ScopesOf[t]} : t \in ScopeTasks}
Storages  == UNION {[D -> ScopeVals] : D \in SUBSET ScopeKeys}
Frames    == [t : ScopeTasks, i : Nat, prev : Storages]

\* The key that the n-th poll on the stack has set, and its value.
KeyAt(n) == Key(frames[n].t, frames[n].i)
ValAt(n) == Val(frames[n].t, frames[n].i)

\* The m-th poll is the innermost of the first n that has set k.
Innermost(k, m, n) == m \in 1..n /\ KeyAt(m) = k /\ \A j \in m + 1..n : KeyAt(j) # k

ScopeTypes ==
    /\ storage \in Storages
    /\ frames \in Seq(Frames)
    /\ \A n \in 1..Len(frames) : frames[n].i \in DOMAIN ScopesOf[frames[n].t]

\* The slots hold what the innermost polls have put there.
SlotInv ==
    /\ DOMAIN storage = {KeyAt(n) : n \in 1..Len(frames)}
    /\ \A k \in DOMAIN storage : \E m \in Nat : Innermost(k, m, Len(frames)) /\ storage[k] = ValAt(m)

\* A poll has saved what the polls outside it had put into its slot.
SavedInv ==
    \A n \in 1..Len(frames) :
        /\ DOMAIN frames[n].prev = {KeyAt(n)} \cap {KeyAt(j) : j \in 1..n - 1}
        /\ \A k \in DOMAIN frames[n].prev :
              \E m \in Nat : Innermost(k, m, n - 1) /\ frames[n].prev[k] = ValAt(m)

ScopeIInv == ScopeTypes /\ SlotInv /\ SavedInv

LEMMA ScopeInitial == TlInit => ScopeIInv
<1>. SUFFICES ASSUME TlInit PROVE ScopeIInv
  BY Zenon
<1>1. storage = <<>> /\ frames = <<>>
  BY Zenon DEF TlInit
<1>2. <<>> \in Seq(Frames) /\ Len(<<>>) = 0 /\ DOMAIN <<>> = {} /\ 1..0 = {}
  OBVIOUS
<1>3. storage \in Storages
  <2>1. <<>> \in [{} -> ScopeVals]
    OBVIOUS
  <2>. QED
    BY <1>1, <2>1, Zenon DEF Storages
<1>. QED
  BY <1>1, <1>2, <1>3, Zenon DEF ScopeIInv, ScopeTypes, SlotInv, SavedInv

\* Scope::poll saves the slot and fills it.
LEMMA ScopeEnter == ASSUME ScopeIInv, NEW t \in ScopeTasks, enter(t) PROVE ScopeIInv'
<1>. PICK n \in Nat : n = Len(frames)
  BY DEF ScopeIInv, ScopeTypes
<1>. DEFINE i == IF frames # <<>> /\ Top.t = t THEN Top.i ELSE 0
            key == Key(t, i + 1)
            saved == Restrict(storage, DOMAIN storage \cap {key})
            new == [t |-> t, i |-> i + 1, prev |-> saved]
<1>0. /\ storage \in Storages /\ frames \in Seq(Frames)
      /\ \A j \in 1..n : frames[j].i \in DOMAIN ScopesOf[frames[j].t]
      /\ SlotInv /\ SavedInv
  BY Zenon DEF ScopeIInv, ScopeTypes
<1>1. n \in Nat /\ \A j \in 1..n : frames[j] \in Frames
  BY <1>0
<1>2. i + 1 \in DOMAIN ScopesOf[t] /\ i \in Nat
  <2>1. i \in Nat
    <3>1. CASE frames # <<>>
      <4>1. Top \in Frames
        BY <1>0, <3>1 DEF Top
      <4>. QED
        BY <4>1, Zenon DEF Frames
    <3>2. CASE frames = <<>>
      BY <3>2, Zenon
    <3>. QED
      BY <3>1, <3>2, Zenon
  <2>2. i < Len(ScopesOf[t])
    BY Zenon DEF enter, Inner
  <2>3. Len(ScopesOf[t]) \in Nat /\ DOMAIN ScopesOf[t] = 1..Len(ScopesOf[t])
    BY ScopeAssumption
  <2>. HIDE DEF i
  <2>. QED
    BY <2>1, <2>2, <2>3
<1>3. frames' = Append(frames, new)
  BY Zenon DEF enter
<1>4. storage' = [k \in DOMAIN storage \cup {key} |-> IF k = key THEN Val(t, i + 1) ELSE storage[k]]
  BY Zenon DEF enter
<1>. HIDE DEF i
<1>5. key \in ScopeKeys /\ Val(t, i + 1) \in ScopeVals
  BY <1>2 DEF ScopeKeys, ScopeVals
<1>6. DOMAIN storage \in SUBSET ScopeKeys /\ storage \in [DOMAIN storage -> ScopeVals]
  BY <1>0, Zenon DEF Storages
<1>7. /\ saved \in Storages /\ DOMAIN saved = DOMAIN storage \cap {key}
      /\ \A k \in DOMAIN saved : saved[k] = storage[k]
  <2>1. saved \in [DOMAIN storage \cap {key} -> ScopeVals]
    BY <1>6, Zenon DEF Restrict
  <2>2. DOMAIN storage \cap {key} \in SUBSET ScopeKeys
    BY <1>6, Zenon
  <2>. QED
    BY <2>1, <2>2, Zenon DEF Storages, Restrict
<1>. HIDE DEF saved, key
<1>8. storage' \in Storages /\ DOMAIN storage' = DOMAIN storage \cup {key}
  <2>1. storage' \in [DOMAIN storage \cup {key} -> ScopeVals]
    BY <1>4, <1>5, <1>6, Zenon
  <2>2. DOMAIN storage \cup {key} \in SUBSET ScopeKeys
    BY <1>5, <1>6, Zenon
  <2>. QED
    BY <1>4, <2>1, <2>2, SMTT(60) DEF Storages
<1>9. new \in Frames /\ new.t = t /\ new.i = i + 1 /\ new.prev = saved
  BY <1>2, <1>7, SMTT(30) DEF Frames
<1>. HIDE DEF new
<1>10. /\ frames' \in Seq(Frames) /\ Len(frames') = n + 1 /\ frames'[n + 1] = new
       /\ \A j \in 1..n : frames'[j] = frames[j]
  BY <1>0, <1>3, <1>9, SMTT(60)
<1>11. /\ \A j \in 1..n : KeyAt(j)' = KeyAt(j) /\ ValAt(j)' = ValAt(j)
       /\ KeyAt(n + 1)' = key /\ ValAt(n + 1)' = Val(t, i + 1)
  BY <1>9, <1>10, Zenon DEF KeyAt, ValAt, Key, Val, key
<1>12. \A j \in 1..n + 1 : j \in 1..n \/ j = n + 1
  BY <1>1
<1>13. ScopeTypes'
  BY <1>2, <1>0, <1>8, <1>9, <1>10, <1>12, Zenon DEF ScopeTypes
<1>14. \A k, m : \A p \in 0..n : Innermost(k, m, p) => Innermost(k, m, p)'
  <2>. SUFFICES ASSUME NEW k, NEW m, NEW p \in 0..n, Innermost(k, m, p)
                PROVE  Innermost(k, m, p)'
    BY Zenon
  <2>1. m \in 1..p /\ m \in 1..n /\ \A j \in m + 1..p : j \in 1..n
    BY <1>1 DEF Innermost
  <2>. QED
    BY <1>11, <2>1, Zenon DEF Innermost
<1>15. SlotInv'
  <2>1. DOMAIN storage' = {KeyAt(j)' : j \in 1..n + 1}
    <3>1. DOMAIN storage = {KeyAt(j) : j \in 1..n}
      BY <1>0, Zenon DEF SlotInv
    <3>2. \A j \in 1..n : j \in 1..n + 1
      BY <1>1
    <3>3. n + 1 \in 1..n + 1
      BY <1>1
    <3>. QED
      BY <1>8, <1>11, <1>12, <3>1, <3>2, <3>3, Zenon
  <2>2. ASSUME NEW k \in DOMAIN storage'
        PROVE  \E m \in Nat : Innermost(k, m, n + 1)' /\ storage'[k] = ValAt(m)'
    <3>1. CASE k = key
      <4>1. Innermost(k, n + 1, n + 1)'
        BY <1>1, <1>11, <3>1 DEF Innermost
      <4>2. storage'[k] = ValAt(n + 1)'
        BY <1>4, <1>8, <1>11, <3>1
      <4>. QED
        BY <1>1, <4>1, <4>2
    <3>2. CASE k # key
      <4>1. k \in DOMAIN storage /\ storage'[k] = storage[k]
        BY <1>4, <1>8, <3>2, Zenon
      <4>2. PICK m \in Nat : Innermost(k, m, n) /\ storage[k] = ValAt(m)
        BY <1>0, <4>1, Zenon DEF SlotInv
      <4>3. Innermost(k, m, n)' /\ m \in 1..n
        BY <1>1, <1>14, <4>2 DEF Innermost
      <4>4. Innermost(k, m, n + 1)'
        BY <1>1, <1>11, <1>12, <3>2, <4>3 DEF Innermost
      <4>. QED
        BY <1>11, <4>1, <4>2, <4>3, <4>4, Zenon
    <3>. QED
      BY <3>1, <3>2, Zenon
  <2>. QED
    BY <1>10, <2>1, <2>2, Zenon DEF SlotInv
<1>16. SavedInv'
  <2>. SUFFICES ASSUME NEW p \in 1..n + 1
                PROVE  /\ DOMAIN frames'[p].prev = {KeyAt(p)'} \cap {KeyAt(j)' : j \in 1..p - 1}
                       /\ \A k \in DOMAIN frames'[p].prev :
                             \E m \in Nat : Innermost(k, m, p - 1)' /\ frames'[p].prev[k] = ValAt(m)'
    BY <1>10, Zenon DEF SavedInv
  <2>1. CASE p \in 1..n
    <3>1. frames'[p] = frames[p] /\ KeyAt(p)' = KeyAt(p) /\ p - 1 \in 0..n
      BY <1>1, <1>10, <1>11, <2>1
    <3>2. \A j \in 1..p - 1 : j \in 1..n
      BY <1>1
    <3>3. /\ DOMAIN frames[p].prev = {KeyAt(p)} \cap {KeyAt(j) : j \in 1..p - 1}
          /\ \A k \in DOMAIN frames[p].prev :
                \E m \in Nat : Innermost(k, m, p - 1) /\ frames[p].prev[k] = ValAt(m)
      BY <1>0, <2>1, Zenon DEF SavedInv
    <3>4. {KeyAt(j)' : j \in 1..p - 1} = {KeyAt(j) : j \in 1..p - 1}
      BY <1>11, <3>2, Zenon
    <3>5. ASSUME NEW k \in DOMAIN frames[p].prev
          PROVE  \E m \in Nat : Innermost(k, m, p - 1)' /\ frames[p].prev[k] = ValAt(m)'
      <4>1. PICK m \in Nat : Innermost(k, m, p - 1) /\ frames[p].prev[k] = ValAt(m)
        BY <3>3, Zenon
      <4>2. Innermost(k, m, p - 1)'
        BY <1>14, <3>1, <4>1, Zenon
      <4>3. m \in 1..n
        BY <3>2, <4>1, Zenon DEF Innermost
      <4>. QED
        BY <1>11, <4>1, <4>2, <4>3, Zenon
    <3>. QED
      BY <3>1, <3>3, <3>4, <3>5, Zenon
  <2>2. CASE p = n + 1
    <3>1. frames'[p].prev = saved /\ KeyAt(p)' = key /\ p - 1 = n
      BY <1>1, <1>9, <1>10, <1>11, <2>2
    <3>2. DOMAIN storage = {KeyAt(j) : j \in 1..n}
      BY <1>0, Zenon DEF SlotInv
    <3>3. {KeyAt(j)' : j \in 1..n} = {KeyAt(j) : j \in 1..n}
      BY <1>11, Zenon
    <3>4. ASSUME NEW k \in DOMAIN saved
          PROVE  \E m \in Nat : Innermost(k, m, n)' /\ saved[k] = ValAt(m)'
      <4>1. k \in DOMAIN storage /\ saved[k] = storage[k]
        BY <1>7, Zenon
      <4>2. PICK m \in Nat : Innermost(k, m, n) /\ storage[k] = ValAt(m)
        BY <1>0, <4>1, Zenon DEF SlotInv
      <4>3. Innermost(k, m, n)' /\ m \in 1..n
        BY <1>1, <1>14, <4>2, SMTT(60) DEF Innermost
      <4>. QED
        BY <1>11, <4>1, <4>2, <4>3, Zenon
    <3>. QED
      BY <1>7, <3>1, <3>2, <3>3, <3>4, Zenon
  <2>. QED
    BY <1>12, <2>1, <2>2, Zenon
<1>. QED
  BY <1>13, <1>15, <1>16, Zenon DEF ScopeIInv

\* The end of Scope::poll puts back what it had saved.
LEMMA ScopeExit == ASSUME ScopeIInv, NEW ready \in BOOLEAN, exit(ready) PROVE ScopeIInv'
<1>. PICK n \in Nat : n = Len(frames)
  BY DEF ScopeIInv, ScopeTypes
<1>. DEFINE key == KeyAt(n)
            saved == frames[n].prev
<1>0. /\ storage \in Storages /\ frames \in Seq(Frames)
      /\ \A j \in 1..n : frames[j].i \in DOMAIN ScopesOf[frames[j].t]
      /\ SlotInv /\ SavedInv
  BY Zenon DEF ScopeIInv, ScopeTypes
<1>1. n \in 1..n /\ n - 1 \in Nat /\ frames[n] \in Frames
  BY <1>0 DEF exit
<1>2. frames' = SubSeq(frames, 1, n - 1)
  BY Zenon DEF exit
<1>3. storage' = [k \in (DOMAIN storage \ {key}) \cup DOMAIN saved |->
                     IF k \in DOMAIN saved THEN saved[k] ELSE storage[k]]
  BY Zenon DEF exit, Top, KeyAt
<1>4. DOMAIN storage \in SUBSET ScopeKeys /\ storage \in [DOMAIN storage -> ScopeVals]
  BY <1>0, Zenon DEF Storages
<1>5. DOMAIN saved \in SUBSET ScopeKeys /\ saved \in [DOMAIN saved -> ScopeVals]
  BY <1>1, Zenon DEF Frames, Storages
<1>6. /\ DOMAIN saved = {key} \cap {KeyAt(j) : j \in 1..n - 1}
      /\ \A k \in DOMAIN saved : \E m \in Nat : Innermost(k, m, n - 1) /\ saved[k] = ValAt(m)
  BY <1>0, <1>1, Zenon DEF SavedInv
<1>7. DOMAIN storage = {KeyAt(j) : j \in 1..n}
  BY <1>0, Zenon DEF SlotInv
<1>. HIDE DEF key, saved
<1>8. storage' \in Storages
  <2>1. storage' \in [(DOMAIN storage \ {key}) \cup DOMAIN saved -> ScopeVals]
    BY <1>3, <1>4, <1>5, Zenon
  <2>2. (DOMAIN storage \ {key}) \cup DOMAIN saved \in SUBSET ScopeKeys
    BY <1>4, <1>5, Zenon
  <2>. QED
    BY <2>1, <2>2, Zenon DEF Storages
<1>9. /\ frames' \in Seq(Frames) /\ Len(frames') = n - 1
      /\ \A j \in 1..n - 1 : frames'[j] = frames[j]
  BY <1>0, <1>1, <1>2, SMTT(60)
<1>10. \A j \in 1..n - 1 : j \in 1..n /\ KeyAt(j)' = KeyAt(j) /\ ValAt(j)' = ValAt(j)
  BY <1>9 DEF KeyAt, ValAt, Key, Val
<1>11. \A j \in 1..n : j \in 1..n - 1 \/ j = n
  BY <1>1
<1>12. ScopeTypes'
  BY <1>0, <1>8, <1>9, <1>10, Zenon DEF ScopeTypes
<1>13. \A k, m : \A p \in 0..n - 1 : Innermost(k, m, p) => Innermost(k, m, p)' /\ m \in 1..n - 1
  <2>. SUFFICES ASSUME NEW k, NEW m, NEW p \in 0..n - 1, Innermost(k, m, p)
                PROVE  Innermost(k, m, p)' /\ m \in 1..n - 1
    BY Zenon
  <2>1. m \in 1..p /\ m \in 1..n - 1 /\ \A j \in m + 1..p : j \in 1..n - 1
    BY <1>1 DEF Innermost
  <2>. QED
    BY <1>10, <2>1, Zenon DEF Innermost
<1>14. SlotInv'
  <2>1. DOMAIN storage' = {KeyAt(j) : j \in 1..n - 1}
    <3>1. DOMAIN storage' = (DOMAIN storage \ {key}) \cup ({key} \cap {KeyAt(j) : j \in 1..n - 1})
      BY <1>3, <1>6, Zenon
    <3>2. KeyAt(n) = key
      BY Zenon DEF key
    <3>. QED
      BY <1>7, <1>10, <1>11, <3>1, <3>2
  <2>2. {KeyAt(j)' : j \in 1..n - 1} = {KeyAt(j) : j \in 1..n - 1}
    BY <1>10, Zenon
  <2>3. ASSUME NEW k \in DOMAIN storage'
        PROVE  \E m \in Nat : Innermost(k, m, n - 1) /\ storage'[k] = ValAt(m)
    <3>1. CASE k \in DOMAIN saved
      BY <1>3, <1>6, <3>1, Zenon
    <3>2. CASE k \notin DOMAIN saved
      <4>1. k \in DOMAIN storage /\ storage'[k] = storage[k] /\ k # KeyAt(n)
        BY <1>3, <3>2, Zenon DEF key
      <4>2. PICK m \in Nat : Innermost(k, m, n) /\ storage[k] = ValAt(m)
        BY <1>0, <4>1, Zenon DEF SlotInv
      <4>3. Innermost(k, m, n - 1)
        BY <1>1, <1>10, <1>11, <4>1, <4>2 DEF Innermost
      <4>. QED
        BY <4>1, <4>2, <4>3, Zenon
    <3>. QED
      BY <3>1, <3>2, Zenon
  <2>4. ASSUME NEW k \in DOMAIN storage'
        PROVE  \E m \in Nat : Innermost(k, m, n - 1)' /\ storage'[k] = ValAt(m)'
    <3>1. PICK m \in Nat : Innermost(k, m, n - 1) /\ storage'[k] = ValAt(m)
      BY <2>3, Zenon
    <3>2. Innermost(k, m, n - 1)' /\ m \in 1..n - 1
      BY <1>1, <1>13, <3>1, SMTT(30)
    <3>. QED
      BY <1>10, <3>1, <3>2, Zenon
  <2>. QED
    BY <1>9, <2>1, <2>2, <2>4, Zenon DEF SlotInv
<1>15. SavedInv'
  <2>. SUFFICES ASSUME NEW p \in 1..n - 1
                PROVE  /\ DOMAIN frames'[p].prev = {KeyAt(p)'} \cap {KeyAt(j)' : j \in 1..p - 1}
                       /\ \A k \in DOMAIN frames'[p].prev :
                             \E m \in Nat : Innermost(k, m, p - 1)' /\ frames'[p].prev[k] = ValAt(m)'
    BY <1>9, SMTT(60) DEF SavedInv
  <2>1. frames'[p] = frames[p] /\ KeyAt(p)' = KeyAt(p) /\ p - 1 \in 0..n - 1 /\ p \in 1..n
    BY <1>1, <1>9, <1>10
  <2>2. \A j \in 1..p - 1 : j \in 1..n - 1
    BY <1>1
  <2>3. /\ DOMAIN frames[p].prev = {KeyAt(p)} \cap {KeyAt(j) : j \in 1..p - 1}
        /\ \A k \in DOMAIN frames[p].prev :
              \E m \in Nat : Innermost(k, m, p - 1) /\ frames[p].prev[k] = ValAt(m)
    BY <1>0, <2>1, Zenon DEF SavedInv
  <2>4. {KeyAt(j)' : j \in 1..p - 1} = {KeyAt(j) : j \in 1..p - 1}
    BY <1>10, <2>2, Zenon
  <2>5. ASSUME NEW k \in DOMAIN frames[p].prev
        PROVE  \E m \in Nat : Innermost(k, m, p - 1)' /\ frames[p].prev[k] = ValAt(m)'
    <3>1. PICK m \in Nat : Innermost(k, m, p - 1) /\ frames[p].prev[k] = ValAt(m)
      BY <2>3, Zenon
    <3>2. Innermost(k, m, p - 1)' /\ m \in 1..n - 1
      BY <1>13, <2>1, <3>1, Zenon
    <3>. QED
      BY <1>10, <3>1, <3>2, Zenon
  <2>. QED
    BY <2>1, <2>3, <2>4, <2>5, SMTT(60)
<1>. QED
  BY <1>12, <1>14, <1>15, Zenon DEF ScopeIInv

\* The inductive invariant of Scope::poll.
THEOREM ScopeInvariant == TlSpec => []ScopeIInv
<1>1. ScopeIInv /\ [TlNext]_scopeVars => ScopeIInv'
  <2>. SUFFICES ASSUME ScopeIInv, [TlNext]_scopeVars PROVE ScopeIInv'
    BY Zenon
  <2>1. CASE UNCHANGED scopeVars
    BY <2>1 DEF scopeVars, ScopeIInv, ScopeTypes, SlotInv, SavedInv, Innermost, KeyAt, ValAt
  <2>. QED
    BY <2>1, ScopeEnter, ScopeExit, ZenonT(30) DEF TlNext
<1>. QED
  BY <1>1, ScopeInitial, PTL DEF TlSpec

\* try_with() reads the value of the innermost scope being polled and nothing outside every
\* scope, however scopes nest and polls of different tasks interleave on the stack.
THEOREM ScopeInnermost == TlSpec => []InnermostScope
<1>1. ScopeIInv => InnermostScope
  <2>. SUFFICES ASSUME ScopeIInv PROVE InnermostScope
    BY Zenon
  <2>0. SlotInv /\ frames \in Seq(Frames) /\ DOMAIN frames = 1..Len(frames) /\ Len(frames) \in Nat
    BY DEF ScopeIInv, ScopeTypes
  <2>1. ASSUME NEW k \in DOMAIN storage
        PROVE  LET n == CHOOSE n \in Setting(k) : \A m \in Setting(k) : m <= n
               IN  storage[k] = ValAt(n)
    <3>1. PICK m \in Nat : Innermost(k, m, Len(frames)) /\ storage[k] = ValAt(m)
      BY <2>0, Zenon DEF SlotInv
    <3>2. m \in Setting(k)
      BY <2>0, <3>1, Zenon DEF Setting, Innermost, KeyAt
    <3>3. \A j \in Setting(k) : j <= m /\ j \in Nat
      BY <2>0, <3>1 DEF Setting, Innermost, KeyAt
    <3>. DEFINE n == CHOOSE n \in Setting(k) : \A j \in Setting(k) : j <= n
    <3>4. n \in Setting(k) /\ \A j \in Setting(k) : j <= n
      BY <3>2, <3>3, Zenon
    <3>. HIDE DEF n
    <3>5. n = m
      BY <3>2, <3>3, <3>4
    <3>. QED
      BY <3>1, <3>5, Zenon DEF n
  <2>. QED
    BY <2>0, <2>1, Zenon DEF InnermostScope, SlotInv, KeyAt, ValAt
<1>. QED
  BY <1>1, ScopeInvariant, PTL
=============================================================================
