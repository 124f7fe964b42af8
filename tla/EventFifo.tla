------------------------------ MODULE EventFifo ------------------------------
(***************************************************************************)
(* What the network event queue promises: a bounded FIFO that drops a new  *)
(* event when, and only when, it is full, and tells the producer so.       *)
(***************************************************************************)
EXTENDS Integers, Sequences

CONSTANTS Events, NoEvent, Capacity

VARIABLES queue, put, got

Init == queue = <<>> /\ put = "none" /\ got = NoEvent

(* put: what the last event_enqueue answered *)
Accept(e) ==
    /\ Len(queue) < Capacity
    /\ queue' = Append(queue, e)
    /\ put' = "accepted"
    /\ UNCHANGED got

Drop ==
    /\ Len(queue) = Capacity
    /\ put' = "dropped"
    /\ UNCHANGED <<queue, got>>

(* got: what the last net_event_get returned *)
Take ==
    /\ queue /= <<>>
    /\ got' = Head(queue)
    /\ queue' = Tail(queue)
    /\ UNCHANGED put

TakeNothing ==
    /\ queue = <<>>
    /\ got' = NoEvent
    /\ UNCHANGED <<queue, put>>

Next == (\E e \in Events : Accept(e)) \/ Drop \/ Take \/ TakeNothing

Spec == Init /\ [][Next]_<<queue, put, got>>

=============================================================================
