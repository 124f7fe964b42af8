------------------------------ MODULE EventQueue ------------------------------
(***************************************************************************)
(* The lock-free event queue of net_stubs.c: a ring of N slots between the *)
(* lwIP callbacks (one producer) and net_event_get (one consumer), which   *)
(* may run on different cores.  Each access to head, tail or a slot that   *)
(* the other side also touches is a step of its own.                       *)
(***************************************************************************)
EXTENDS Integers, Sequences

CONSTANTS
    Events,
    NoEvent,
    N           \* NET_EVENT_QUEUE_SIZE: 32 in the code

ASSUME RingAssumption == N \in Nat /\ N >= 2 /\ NoEvent \notin Events

Index == 0 .. N - 1

VARIABLES
    event_queue, head, tail,
    producer,       \* where event_enqueue is
    event,          \* its argument
    next_head,      \* its local next_head; its local head is head itself
    put,            \* what it returned last
    consumer,       \* where net_event_get is
    copied,         \* the event it has copied out
    got             \* what it returned last

producerVars == <<producer, event, next_head, put>>
consumerVars == <<consumer, copied, got>>
vars == <<event_queue, head, tail, producerVars, consumerVars>>

Init ==
    /\ event_queue = [i \in Index |-> NoEvent]
    /\ head = 0 /\ tail = 0
    /\ producer = "idle" /\ event = NoEvent /\ next_head = 0 /\ put = "none"
    /\ consumer = "idle" /\ copied = NoEvent /\ got = NoEvent

(* (i + 1) & NET_EVENT_QUEUE_MASK *)
Succ(i) == (i + 1) % N

Enqueue(e) ==
    /\ producer = "idle"
    /\ producer' = "check" /\ event' = e /\ next_head' = Succ(head)
    /\ UNCHANGED <<event_queue, head, tail, put, consumerVars>>

(* Faulty variant: two slots are kept free. *)
FullEarly == next_head = tail \/ Succ(next_head) = tail

(* Faulty variant: never full. *)
FullNever == FALSE

Full == next_head = tail

CheckFull ==
    /\ producer = "check" /\ Full
    /\ producer' = "idle" /\ put' = "dropped"
    /\ event' = NoEvent /\ next_head' = 0
    /\ UNCHANGED <<event_queue, head, tail, consumerVars>>

CheckRoom ==
    /\ producer = "check" /\ ~Full
    /\ producer' = "write"
    /\ UNCHANGED <<event_queue, head, tail, event, next_head, put, consumerVars>>

WriteSlot ==
    /\ producer = "write"
    /\ event_queue' = [event_queue EXCEPT ![head] = event]
    /\ producer' = "advance"
    /\ UNCHANGED <<head, tail, event, next_head, put, consumerVars>>

AdvanceHead ==
    /\ producer = "advance"
    /\ head' = next_head
    /\ producer' = "idle" /\ put' = "accepted"
    /\ event' = NoEvent /\ next_head' = 0
    /\ UNCHANGED <<event_queue, tail, consumerVars>>

GetNothing ==
    /\ consumer = "idle" /\ tail = head
    /\ got' = NoEvent
    /\ UNCHANGED <<event_queue, head, tail, producerVars, consumer, copied>>

GetSomething ==
    /\ consumer = "idle" /\ tail /= head
    /\ consumer' = "read"
    /\ UNCHANGED <<event_queue, head, tail, producerVars, copied, got>>

ReadSlot ==
    /\ consumer = "read"
    /\ copied' = event_queue[tail]
    /\ consumer' = "advance"
    /\ UNCHANGED <<event_queue, head, tail, producerVars, got>>

AdvanceTail ==
    /\ consumer = "advance"
    /\ tail' = Succ(tail)
    /\ consumer' = "idle" /\ got' = copied /\ copied' = NoEvent
    /\ UNCHANGED <<event_queue, head, producerVars>>

Produce ==
    (\E e \in Events : Enqueue(e)) \/ CheckFull \/ CheckRoom \/ WriteSlot \/ AdvanceHead

Consume == GetNothing \/ GetSomething \/ ReadSlot \/ AdvanceTail

Next == Produce \/ Consume

Spec == Init /\ [][Next]_vars

-----------------------------------------------------------------------------
(* Properties                                                              *)

(* The type of every variable. *)
TypeOK ==
    /\ event_queue \in [Index -> Events \cup {NoEvent}]
    /\ head \in Index /\ tail \in Index /\ next_head \in Index
    /\ producer \in {"idle", "check", "write", "advance"}
    /\ event \in Events \cup {NoEvent}
    /\ put \in {"none", "accepted", "dropped"}
    /\ consumer \in {"idle", "read", "advance"}
    /\ copied \in Events \cup {NoEvent} /\ got \in Events \cup {NoEvent}

(* While a slot is being written the consumer is not copying it: the two   *)
(* sides need no lock, and no event is read half written.                  *)
SlotsDisjoint ==
    ~(producer \in {"write", "advance"} /\ consumer = "read" /\ head = tail)

(* The occupied slots, from tail to head, are the queue. *)
Used == IF head >= tail THEN head - tail ELSE head - tail + N

SlotOf(k) == IF tail + k - 1 < N THEN tail + k - 1 ELSE tail + k - 1 - N

Contents == [k \in 1 .. Used |-> event_queue[SlotOf(k)]]

Fifo == INSTANCE EventFifo
    WITH queue <- Contents, Capacity <- N - 1

(* The ring is a FIFO of N - 1 events that drops an event only when full.  *)
ImplementsFifo == Fifo!Spec

=============================================================================
