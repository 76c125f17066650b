-------------------------------- MODULE Mpsc --------------------------------
(***************************************************************************)
(* sync::mpsc: senders on several tasks, one receiver.  Every operation     *)
(* runs inside the Mutex around Inner, so each is one step; the wake-ups    *)
(* they make after releasing it touch nothing of the channel and are part   *)
(* of the step.  A waker is the pair of the sending task and the number of  *)
(* the send it registered for: the executor makes a new waker for every     *)
(* poll, so will_wake never confuses two of them.                           *)
(***************************************************************************)
EXTENDS Naturals, Sequences

CONSTANTS Senders,    \* the tasks that may hold a Sender
          First,      \* the one channel() gave its Sender to
          Capacity,   \* what channel() is called with
          MaxSends    \* sends each task starts

ASSUME MpscAssumption ==
    First \in Senders /\ Capacity \in Nat /\ MaxSends \in Nat

VARIABLES
    bounded,           \* Inner.capacity is Some: channel(Capacity), or unbounded()
    composed,          \* the futures are combined with others in their tasks, so they may
                       \* be polled without a wake-up and dropped before they resolve
    queue,             \* Inner.queue
    handles,           \* the tasks holding a Sender: sender_count is their number
    cloned,            \* the tasks that were ever given a Sender
    receiver_dropped,  \* Inner.receiver_dropped
    recv_waker,        \* Inner.recv_waker is Some
    send_wakers,       \* Inner.send_wakers
    started,           \* sends begun, per task
    fut,               \* the task's SendFuture
    registered,        \* SendFuture.registered_waker is Some
    woken,             \* the task was woken since its last poll
    rx,                \* the receiving task
    rx_woken,
    accepted,          \* sends that returned Ok, per task
    received           \* values of each task that recv returned

mode     == <<bounded, composed>>
sendVars == <<started, fut, registered, woken, accepted>>
recvVars == <<receiver_dropped, rx, rx_woken, received>>
mpscVars == <<mode, queue, handles, cloned, recv_waker, send_wakers, sendVars, recvVars>>

\* channel()'s capacity.max(1)
Room == IF Capacity = 0 THEN 1 ELSE Capacity

MpscInit ==
    /\ bounded \in BOOLEAN /\ composed \in BOOLEAN
    /\ queue = <<>> /\ send_wakers = <<>>
    /\ handles = {First} /\ cloned = {First}
    /\ receiver_dropped = FALSE /\ recv_waker = FALSE
    /\ started = [s \in Senders |-> 0]
    /\ fut = [s \in Senders |-> "none"]
    /\ registered = [s \in Senders |-> FALSE]
    /\ woken = [s \in Senders |-> FALSE]
    /\ rx = "idle" /\ rx_woken = FALSE
    /\ accepted = [s \in Senders |-> 0]
    /\ received = [s \in Senders |-> 0]

has_capacity == bounded => Len(queue) < Room
is_closed    == handles = {} \/ receiver_dropped

\* recv_waker.take() and wake()
wake_receiver == recv_waker' = FALSE /\ rx_woken' = (rx_woken \/ recv_waker)

\* when the executor polls a future: it is new, its task was woken, or a sibling was
send_polled(s) == fut[s] = "new" \/ (fut[s] = "pending" /\ (woken[s] \/ composed))
recv_polled    == rx = "idle" \/ (rx = "pending" /\ (rx_woken \/ composed))

-----------------------------------------------------------------------------
(* Sender                                                                    *)

\* Clone for Sender and UnboundedSender
clone(s) ==
    /\ handles # {} /\ s \notin cloned
    /\ handles' = handles \cup {s} /\ cloned' = cloned \cup {s}
    /\ UNCHANGED <<mode, queue, recv_waker, send_wakers, sendVars, recvVars>>

\* Drop for Sender and UnboundedSender; a SendFuture borrows its Sender
drop_sender(s) ==
    /\ s \in handles /\ fut[s] = "none"
    /\ handles' = handles \ {s}
    /\ IF handles = {s} THEN wake_receiver ELSE UNCHANGED <<recv_waker, rx_woken>>
    /\ UNCHANGED <<mode, queue, cloned, send_wakers, sendVars, receiver_dropped, rx, received>>

\* queue.push_back and the wake of the receiver; n numbers the accepted values
deposit(s) ==
    /\ queue' = Append(queue, <<s, accepted[s] + 1>>)
    /\ accepted' = [accepted EXCEPT ![s] = @ + 1]
    /\ wake_receiver

\* Sender::send makes the future
send(s) ==
    /\ bounded /\ s \in handles /\ fut[s] = "none" /\ started[s] < MaxSends
    /\ fut' = [fut EXCEPT ![s] = "new"]
    /\ started' = [started EXCEPT ![s] = @ + 1]
    /\ registered' = [registered EXCEPT ![s] = FALSE]
    /\ UNCHANGED <<mode, queue, handles, cloned, recv_waker, send_wakers, woken, accepted, recvVars>>

\* SendFuture::poll, ready: the receiver is gone, or there is room.  The future's
\* waker, if one is queued, stays in send_wakers.
send_poll_ready(s) ==
    /\ send_polled(s) /\ (is_closed \/ has_capacity)
    /\ fut' = [fut EXCEPT ![s] = "none"]
    /\ registered' = [registered EXCEPT ![s] = FALSE]
    /\ woken' = [woken EXCEPT ![s] = FALSE]
    /\ IF is_closed THEN UNCHANGED <<queue, accepted, recv_waker, rx_woken>> ELSE deposit(s)
    /\ UNCHANGED <<mode, handles, cloned, send_wakers, started, receiver_dropped, rx, received>>

\* SendFuture::poll, full: the first time the waker is queued; later the stale one is
\* replaced where it stands, if it is still there.
send_poll_full(s) ==
    /\ send_polled(s) /\ ~is_closed /\ ~has_capacity
    /\ fut' = [fut EXCEPT ![s] = "pending"]
    /\ registered' = [registered EXCEPT ![s] = TRUE]
    /\ woken' = [woken EXCEPT ![s] = FALSE]
    /\ send_wakers' = IF registered[s] THEN send_wakers
                      ELSE Append(send_wakers, <<s, started[s]>>)
    /\ UNCHANGED <<mode, queue, handles, cloned, recv_waker, started, accepted, recvVars>>

\* Drop for SendFuture before it resolved
send_cancel(s) ==
    /\ composed /\ fut[s] # "none"
    /\ fut' = [fut EXCEPT ![s] = "none"]
    /\ registered' = [registered EXCEPT ![s] = FALSE]
    /\ woken' = [woken EXCEPT ![s] = FALSE]
    /\ send_wakers' = IF registered[s] THEN SelectSeq(send_wakers, LAMBDA w : w # <<s, started[s]>>)
                      ELSE send_wakers
    /\ UNCHANGED <<mode, queue, handles, cloned, recv_waker, started, accepted, recvVars>>

\* UnboundedSender::send; refused when the receiver is gone
unbounded_send(s) ==
    /\ ~bounded /\ s \in handles /\ started[s] < MaxSends
    /\ started' = [started EXCEPT ![s] = @ + 1]
    /\ IF is_closed THEN UNCHANGED <<queue, accepted, recv_waker, rx_woken>> ELSE deposit(s)
    /\ UNCHANGED <<mode, handles, cloned, send_wakers, fut, registered, woken, receiver_dropped, rx,
                   received>>

-----------------------------------------------------------------------------
(* Receiver                                                                  *)

\* variant: no blocked sender is woken
recv_value_NoWake ==
    /\ recv_polled /\ queue # <<>>
    /\ queue' = Tail(queue)
    /\ received' = [received EXCEPT ![Head(queue)[1]] = @ + 1]
    /\ rx' = "idle" /\ rx_woken' = FALSE
    /\ UNCHANGED <<mode, handles, cloned, recv_waker, send_wakers, sendVars, receiver_dropped>>

\* RecvFuture::poll: a value, and one blocked sender is woken
recv_value ==
    /\ recv_polled /\ queue # <<>>
    /\ queue' = Tail(queue)
    /\ received' = [received EXCEPT ![Head(queue)[1]] = @ + 1]
    /\ IF send_wakers # <<>>
       THEN /\ send_wakers' = Tail(send_wakers)
            /\ woken' = [woken EXCEPT ![Head(send_wakers)[1]] = TRUE]
       ELSE UNCHANGED <<send_wakers, woken>>
    /\ rx' = "idle" /\ rx_woken' = FALSE
    /\ UNCHANGED <<mode, handles, cloned, recv_waker, started, fut, registered, accepted,
                   receiver_dropped>>

\* RecvFuture::poll: None
recv_none ==
    /\ recv_polled /\ queue = <<>> /\ handles = {}
    /\ rx' = "closed" /\ rx_woken' = FALSE
    /\ UNCHANGED <<mode, queue, handles, cloned, recv_waker, send_wakers, sendVars,
                   receiver_dropped, received>>

\* RecvFuture::poll: Pending
recv_pending ==
    /\ recv_polled /\ queue = <<>> /\ handles # {}
    /\ rx' = "pending" /\ recv_waker' = TRUE /\ rx_woken' = FALSE
    /\ UNCHANGED <<mode, queue, handles, cloned, send_wakers, sendVars, receiver_dropped, received>>

\* the RecvFuture is dropped while it waits; it has no Drop, so its waker stays
recv_cancel ==
    /\ composed /\ rx = "pending"
    /\ rx' = "idle" /\ rx_woken' = FALSE
    /\ UNCHANGED <<mode, queue, handles, cloned, recv_waker, send_wakers, sendVars,
                   receiver_dropped, received>>

\* Drop for Receiver: every queued waker is called
drop_receiver ==
    /\ rx \in {"idle", "closed"}
    /\ rx' = "dropped" /\ receiver_dropped' = TRUE
    /\ send_wakers' = <<>>
    /\ woken' = [s \in Senders |-> woken[s] \/ \E i \in 1..Len(send_wakers) : send_wakers[i][1] = s]
    /\ UNCHANGED <<mode, queue, handles, cloned, recv_waker, started, fut, registered, accepted,
                   rx_woken, received>>

-----------------------------------------------------------------------------

send_poll(s) == send_poll_ready(s) \/ send_poll_full(s)
recv_poll    == recv_value \/ recv_none \/ recv_pending

Sending(s) == clone(s) \/ drop_sender(s) \/ send(s) \/ send_poll(s) \/ send_cancel(s)
              \/ unbounded_send(s)

MpscNext == (\E s \in Senders : Sending(s)) \/ recv_poll \/ recv_cancel \/ drop_receiver

MpscSpec == MpscInit /\ [][MpscNext]_mpscVars

\* A future is polled when it is made and again after it was woken; every Sender is
\* dropped in the end.  The receiver keeps receiving, or is dropped.
MpscFairSpec ==
    /\ MpscSpec
    /\ \A s \in Senders : /\ WF_mpscVars((fut[s] = "new" \/ woken[s]) /\ send_poll(s))
                          /\ WF_mpscVars(drop_sender(s))
    /\ WF_mpscVars((rx = "idle" \/ rx_woken) /\ recv_poll)

-----------------------------------------------------------------------------

\* The buffer never grows past the capacity, however many woken and new senders race for
\* the room one recv made.
WithinCapacity == bounded => Len(queue) <= Room

\* A receiver that waits has been woken as soon as there is something for it: a value, or
\* the news that the last Sender is gone (RecvFuture::poll against send and Drop).
RecvNotMissed ==
    (rx = "pending" /\ (queue # <<>> \/ handles = {})) => rx_woken

\* SendFuture::poll found the room taken again after its wake-up and did not queue its
\* waker anew, so nothing will wake it.
SendForgotten(s) ==
    /\ fut[s] = "pending" /\ ~woken[s]
    /\ \A i \in 1..Len(send_wakers) : send_wakers[i] # <<s, started[s]>>

\* A send suspended on a full buffer resumes as the receiver goes on consuming items, when
\* tasks await their sends to the end and unless it is forgotten.
SendResumes ==
    \A s \in Senders : (~composed /\ fut[s] = "pending") ~> (fut[s] = "none" \/ SendForgotten(s))
=============================================================================
