------------------------------ MODULE Oneshot ------------------------------
(***************************************************************************)
(* sync::oneshot: one value from a Sender to a Receiver on another thread.  *)
(* Every atomic access, every access to the UnsafeCell and every critical   *)
(* section of the waker Mutex is a step.                                    *)
(***************************************************************************)
CONSTANTS Values, NoValue

ASSUME NoValueAssumption == NoValue \notin Values

VARIABLES
    state,   \* Inner.state
    value,   \* Inner.value, NoValue when None
    waker,   \* Inner.waker is Some
    arg,     \* the value passed to send
    spc,     \* where the Sender is
    rpc,     \* where the Receiver is
    got,     \* the value the Receiver resolved to
    recv_woken    \* the receiver's task has been woken since its last poll

oneshotVars == <<state, value, waker, arg, spc, rpc, got, recv_woken>>

\* "alive" until send or drop; "cas", "wake", "reclaim" inside send; "err" when send
\* failed and self is about to be dropped; "dropwake" inside drop.
SenderPcs == {"alive", "cas", "wake", "reclaim", "sent", "err", "refused",
              "dropwake", "dropped"}

\* "new" before the first poll; "register", "recheck" inside poll; then Pending,
\* Ready(Ok), Ready(Err(Closed)), or dropped unresolved.
ReceiverPcs == {"new", "register", "recheck", "pending", "got", "closed", "dropped"}

OneshotTypes ==
    /\ state \in {"EMPTY", "SENT", "CLOSED"}
    /\ value \in Values \cup {NoValue}
    /\ waker \in BOOLEAN
    /\ arg \in Values \cup {NoValue}
    /\ spc \in SenderPcs
    /\ rpc \in ReceiverPcs
    /\ got \in Values \cup {NoValue}
    /\ recv_woken \in BOOLEAN

OneshotInit ==
    /\ state = "EMPTY" /\ value = NoValue /\ waker = FALSE
    /\ arg = NoValue /\ got = NoValue
    /\ spc = "alive" /\ rpc = "new" /\ recv_woken = FALSE

\* waker.lock().take() and wake()
take_waker == waker' = FALSE /\ recv_woken' = (recv_woken \/ waker)

-----------------------------------------------------------------------------
(* Sender                                                                    *)

\* send: the value is written before the state changes
send_write(v) ==
    /\ spc = "alive"
    /\ spc' = "cas" /\ value' = v /\ arg' = v
    /\ UNCHANGED <<state, waker, rpc, got, recv_woken>>

\* send: compare_exchange(EMPTY, SENT)
send_cas ==
    /\ spc = "cas"
    /\ IF state = "EMPTY"
       THEN state' = "SENT" /\ spc' = "wake"
       ELSE state' = state /\ spc' = "reclaim"
    /\ UNCHANGED <<value, waker, arg, rpc, got, recv_woken>>

\* send returns Ok; sent = true makes the drop of self do nothing
send_wake ==
    /\ spc = "wake"
    /\ spc' = "sent"
    /\ take_waker
    /\ UNCHANGED <<state, value, arg, rpc, got>>

\* send returns Err(value)
send_reclaim ==
    /\ spc = "reclaim"
    /\ spc' = "err" /\ value' = NoValue
    /\ UNCHANGED <<state, waker, arg, rpc, got, recv_woken>>

\* Drop for Sender, also at the end of a failed send: swap(CLOSED)
sender_drop ==
    /\ \/ spc = "alive" /\ spc' = IF state = "EMPTY" THEN "dropwake" ELSE "dropped"
       \/ spc = "err" /\ spc' = IF state = "EMPTY" THEN "dropwake" ELSE "refused"
    /\ state' = "CLOSED"
    /\ UNCHANGED <<value, waker, arg, rpc, got, recv_woken>>

sender_drop_wake ==
    /\ spc = "dropwake"
    /\ spc' = "dropped"
    /\ take_waker
    /\ UNCHANGED <<state, value, arg, rpc, got>>

-----------------------------------------------------------------------------
(* Receiver                                                                  *)

\* What a poll does when it has read SENT or CLOSED.
resolve ==
    \/ /\ state = "SENT"
       /\ rpc' = "got" /\ got' = value /\ value' = NoValue
    \/ /\ state = "CLOSED"
       /\ rpc' = "closed" /\ UNCHANGED <<got, value>>

\* Receiver::poll: the first load.  A Pending receiver may be polled again before
\* it is woken, by a future that also waits for something else.
poll_load ==
    /\ rpc \in {"new", "pending"}
    /\ \/ resolve
       \/ state = "EMPTY" /\ rpc' = "register" /\ UNCHANGED <<got, value>>
    /\ recv_woken' = FALSE
    /\ UNCHANGED <<state, waker, arg, spc>>

\* variant: Pending right after registering
poll_register_NoRecheck ==
    /\ rpc = "register"
    /\ rpc' = "pending" /\ waker' = TRUE
    /\ UNCHANGED <<state, value, arg, spc, got, recv_woken>>

poll_register ==
    /\ rpc = "register"
    /\ rpc' = "recheck" /\ waker' = TRUE
    /\ UNCHANGED <<state, value, arg, spc, got, recv_woken>>

\* Receiver::poll: the load after the waker was registered
poll_recheck ==
    /\ rpc = "recheck"
    /\ \/ resolve
       \/ state = "EMPTY" /\ rpc' = "pending" /\ UNCHANGED <<got, value>>
    /\ UNCHANGED <<state, waker, arg, spc, recv_woken>>

\* variant: a plain store of CLOSED
receiver_drop_Always ==
    /\ rpc \in {"new", "pending"}
    /\ rpc' = "dropped" /\ state' = "CLOSED"
    /\ UNCHANGED <<value, waker, arg, spc, got, recv_woken>>

\* Drop for Receiver, unresolved: compare_exchange(EMPTY, CLOSED)
receiver_drop ==
    /\ rpc \in {"new", "pending"}
    /\ rpc' = "dropped"
    /\ state' = IF state = "EMPTY" THEN "CLOSED" ELSE state
    /\ UNCHANGED <<value, waker, arg, spc, got, recv_woken>>

-----------------------------------------------------------------------------

SenderStep   == send_cas \/ send_wake \/ send_reclaim \/ sender_drop_wake
ReceiverStep == poll_register \/ poll_recheck

OneshotNext ==
    \/ \E v \in Values : send_write(v)
    \/ sender_drop \/ SenderStep
    \/ poll_load \/ ReceiverStep \/ receiver_drop

OneshotSpec == OneshotInit /\ [][OneshotNext]_oneshotVars

-----------------------------------------------------------------------------
(* Properties                                                                *)

\* Neither the expect("SENT state but value is None") of Receiver::poll nor the unwrap() of a
\* refused send can panic: a receiver that has not resolved and reads SENT finds the
\* value, and a refused send finds it still there, never taken by the receiver.
NoPanic ==
    /\ state = "SENT" /\ rpc # "got" => value = arg /\ arg # NoValue
    /\ spc = "reclaim" => value = arg /\ arg # NoValue /\ rpc # "got"

\* "Re-check state after registering to avoid lost wake": a Pending receiver whose
\* channel is no longer EMPTY has been woken, or the sender is about to wake it.
NoLostWake ==
    rpc = "pending" /\ state # "EMPTY" => recv_woken \/ (waker /\ spc \in {"wake", "dropwake"})

\* The refinement mapping to OneshotChannel: the channel changes at the
\* compare_exchange or swap, the results are known where the calls return.
chanMap == IF state = "EMPTY" THEN "open" ELSE IF state = "SENT" THEN "full" ELSE "closed"
itemMap == IF state = "SENT" THEN arg ELSE NoValue
sresMap == IF spc \in {"alive", "cas"} THEN "none"
           ELSE IF spc \in {"wake", "sent"} THEN "ok"
           ELSE IF spc \in {"dropwake", "dropped"} THEN "dropped" ELSE "err"
rresMap == IF rpc \in {"got", "closed", "dropped"} THEN rpc ELSE "none"

Channel == INSTANCE OneshotChannel
           WITH chan <- chanMap, item <- itemMap, sres <- sresMap, rres <- rresMap, rval <- got

\* sync::oneshot implements OneshotChannel: no interleaving loses, duplicates or
\* invents a value, or tells one side something else than the other.
ImplementsChannel == Channel!Spec
=============================================================================
