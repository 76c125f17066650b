--------------------------- MODULE OneshotChannel ---------------------------
(***************************************************************************)
(* What sync::oneshot promises, with every operation atomic: at most one    *)
(* value passes from the sender to the receiver, the sender learns whether  *)
(* it was accepted, and the receiver gets the value or learns that none     *)
(* will come.  Oneshot is shown to implement this specification.            *)
(***************************************************************************)
CONSTANTS Values, NoValue

VARIABLES chan,   \* "open", "full", or "closed"
          item,   \* the value accepted, NoValue before
          sres,   \* what the sender knows: "none", "ok", "err" or "dropped"
          rres,   \* what the receiver knows: "none", "got", "closed" or "dropped"
          rval    \* the value it got, NoValue before

vars == <<chan, item, sres, rres, rval>>

Init ==
    /\ chan = "open" /\ item = NoValue
    /\ sres = "none" /\ rres = "none" /\ rval = NoValue

\* send accepted: the channel was open
Send(v) ==
    /\ sres = "none" /\ chan = "open"
    /\ chan' = "full" /\ item' = v /\ sres' = "ok"
    /\ UNCHANGED <<rres, rval>>

\* send refused: the receiver was dropped before
Refuse ==
    /\ sres = "none" /\ chan = "closed"
    /\ sres' = "err"
    /\ UNCHANGED <<chan, item, rres, rval>>

\* the sender is dropped without sending
DropSender ==
    /\ sres = "none"
    /\ sres' = "dropped" /\ chan' = "closed"
    /\ UNCHANGED <<item, rres, rval>>

\* the receiver resolves to Ok(item)
Receive ==
    /\ rres = "none" /\ chan = "full"
    /\ rres' = "got" /\ rval' = item
    /\ UNCHANGED <<chan, item, sres>>

\* the receiver resolves to Err(Closed)
ReceiveClosed ==
    /\ rres = "none" /\ chan = "closed"
    /\ rres' = "closed"
    /\ UNCHANGED <<chan, item, sres, rval>>

\* the receiver is dropped unresolved; an accepted value is then lost
DropReceiver ==
    /\ rres = "none"
    /\ rres' = "dropped"
    /\ chan' = IF chan = "open" THEN "closed" ELSE chan
    /\ UNCHANGED <<item, sres, rval>>

Next == \/ \E v \in Values : Send(v)
        \/ Refuse \/ DropSender \/ Receive \/ ReceiveClosed \/ DropReceiver

Spec == Init /\ [][Next]_vars
=============================================================================
