--------------------------- MODULE EventQueue_proofs ---------------------------
(***************************************************************************)
(* Proofs about EventQueue, for any ring size and set of events: producer  *)
(* and consumer never touch the same slot at once, and the ring implements *)
(* the bounded FIFO of EventFifo.                                          *)
(***************************************************************************)
EXTENDS EventQueue, SequenceTheorems, TLAPS

(* What each side knows between its steps. *)
ProducerInv ==
    /\ producer \in {"check", "write", "advance"} =>
          next_head = Succ(head) /\ event \in Events
    /\ producer \in {"write", "advance"} => next_head /= tail
    /\ producer = "advance" => event_queue[head] = event

ConsumerInv ==
    /\ consumer \in {"read", "advance"} => tail /= head
    /\ consumer = "advance" => copied = event_queue[tail]

IInv == TypeOK /\ ProducerInv /\ ConsumerInv

Value == Events \cup {NoEvent}

(* The masked successor, without the modulus. *)
LEMMA SuccValue ==
    \A i \in Index : Succ(i) \in Index /\ Succ(i) = IF i = N - 1 THEN 0 ELSE i + 1
<1> SUFFICES ASSUME NEW i \in Index
             PROVE  Succ(i) \in Index /\ Succ(i) = IF i = N - 1 THEN 0 ELSE i + 1
  OBVIOUS
<1>1. CASE i = N - 1
  BY <1>1, RingAssumption DEF Index, Succ
<1>2. CASE i /= N - 1
  <2>1. i + 1 \in 0 .. N - 1
    BY <1>2, RingAssumption DEF Index
  <2>2. \A x \in 0 .. N - 1 : x % N = x
    BY RingAssumption
  <2> QED  BY <1>2, <2>1, <2>2 DEF Index, Succ
<1> QED  BY <1>1, <1>2

LEMMA InitIInv == Init => IInv
BY RingAssumption DEF Init, IInv, TypeOK, ProducerInv, ConsumerInv, Index

LEMMA IInvInductive == IInv /\ [Next]_vars => IInv'
<1> SUFFICES ASSUME IInv, [Next]_vars  PROVE IInv'
  OBVIOUS
<1>0. TypeOK /\ ProducerInv /\ ConsumerInv
  BY DEF IInv
<1>1. ASSUME NEW e \in Events, Enqueue(e)  PROVE IInv'
  BY <1>0, <1>1, SuccValue DEF Enqueue, consumerVars, IInv, TypeOK, ProducerInv, ConsumerInv
<1>2. CASE CheckFull
  BY <1>0, <1>2, RingAssumption DEF CheckFull, consumerVars, IInv, TypeOK, ProducerInv,
     ConsumerInv, Index
<1>3. CASE CheckRoom
  BY <1>0, <1>3 DEF CheckRoom, Full, consumerVars, IInv, TypeOK, ProducerInv, ConsumerInv
<1>4. CASE WriteSlot
  BY <1>0, <1>4 DEF WriteSlot, consumerVars, IInv, TypeOK, ProducerInv, ConsumerInv
<1>5. CASE AdvanceHead
  BY <1>0, <1>5, RingAssumption DEF AdvanceHead, consumerVars, IInv, TypeOK, ProducerInv,
     ConsumerInv, Index
<1>6. CASE GetNothing
  BY <1>0, <1>6 DEF GetNothing, producerVars, IInv, TypeOK, ProducerInv, ConsumerInv
<1>7. CASE GetSomething
  BY <1>0, <1>7 DEF GetSomething, producerVars, IInv, TypeOK, ProducerInv, ConsumerInv
<1>8. CASE ReadSlot
  BY <1>0, <1>8 DEF ReadSlot, producerVars, IInv, TypeOK, ProducerInv, ConsumerInv
<1>9. CASE AdvanceTail
  BY <1>0, <1>9, SuccValue, RingAssumption
     DEF AdvanceTail, producerVars, IInv, TypeOK, ProducerInv, ConsumerInv, Index
<1>10. CASE UNCHANGED vars
  BY <1>0, <1>10 DEF vars, producerVars, consumerVars, IInv, TypeOK, ProducerInv, ConsumerInv
<1> QED
  BY <1>1, <1>2, <1>3, <1>4, <1>5, <1>6, <1>7, <1>8, <1>9, <1>10 DEF Next, Produce, Consume

LEMMA InvariantHolds == Spec => []IInv
BY InitIInv, IInvInductive, PTL DEF Spec

(* Every variable keeps its type: head and tail stay inside the ring. *)
THEOREM TypeCorrect == Spec => []TypeOK
<1>1. IInv => TypeOK
  BY DEF IInv
<1> QED  BY <1>1, InvariantHolds, PTL

(* The two sides never work on the same slot. *)
THEOREM SlotsDisjointHolds == Spec => []SlotsDisjoint
<1>1. IInv => SlotsDisjoint
  BY DEF IInv, ConsumerInv, SlotsDisjoint
<1> QED  BY <1>1, InvariantHolds, PTL

-----------------------------------------------------------------------------
(* Refinement                                                              *)

LEMMA ContentsType ==
    ASSUME TypeOK
    PROVE  /\ Used \in 0 .. N - 1
           /\ \A k \in 1 .. Used : SlotOf(k) \in Index /\ SlotOf(k) /= head
           /\ Contents \in Seq(Value) /\ Len(Contents) = Used
           /\ \A k \in 1 .. Used : Contents[k] = event_queue[SlotOf(k)]
<1>1. Used \in 0 .. N - 1
  BY RingAssumption DEF TypeOK, Index, Used
<1>2. \A k \in 1 .. Used : SlotOf(k) \in Index /\ SlotOf(k) /= head
  BY RingAssumption DEF TypeOK, Index, Used, SlotOf
<1>3. Contents \in [1 .. Used -> Value]
  BY <1>2 DEF TypeOK, Contents, Value
<1>4. Contents \in Seq(Value)
  BY <1>1, <1>3, SeqDef
<1>5. Len(Contents) = Used
  BY <1>1, <1>3, <1>4, LenProperties
<1> QED  BY <1>1, <1>2, <1>4, <1>5 DEF Contents

(* Nothing happens to the queue when its indices stay and no used slot is  *)
(* written.                                                                *)
LEMMA SameContents ==
    ASSUME TypeOK, head' = head, tail' = tail,
           \A k \in 1 .. Used : event_queue'[SlotOf(k)] = event_queue[SlotOf(k)]
    PROVE  Contents' = Contents
BY DEF Contents, Used, SlotOf

(* Moving head over the slot just written appends its event. *)
LEMMA HeadAppends ==
    ASSUME TypeOK, TypeOK', NEW e \in Value,
           event_queue' = event_queue, tail' = tail,
           head' = Succ(head), head' /= tail, event_queue[head] = e
    PROVE  Contents' = Append(Contents, e) /\ Used < N - 1
<1>1. head' = IF head = N - 1 THEN 0 ELSE head + 1
  BY SuccValue DEF TypeOK
<1>2. Used < N - 1 /\ Used' = Used + 1
  BY <1>1, RingAssumption DEF TypeOK, Index, Used
<1>3. \A k \in 1 .. Used' : SlotOf(k)' = SlotOf(k)
  BY DEF SlotOf
<1>4. SlotOf(Used + 1) = head
  BY <1>2, RingAssumption DEF TypeOK, Index, Used, SlotOf
<1>5. /\ Contents \in Seq(Value) /\ Len(Contents) = Used /\ Used \in Nat
      /\ \A k \in 1 .. Used : Contents[k] = event_queue[SlotOf(k)]
  BY ContentsType, RingAssumption
<1>6. /\ Contents' \in Seq(Value) /\ Len(Contents') = Used + 1
      /\ \A k \in 1 .. Used + 1 : Contents'[k] = event_queue[SlotOf(k)]
  <2>1. (Contents \in Seq(Value))' /\ (Len(Contents) = Used)'
        /\ (\A k \in 1 .. Used : Contents[k] = event_queue[SlotOf(k)])'
    BY ContentsType, PTL
  <2> QED  BY <1>2, <1>3, <2>1 DEF Value
<1>7. /\ Append(Contents, e) \in Seq(Value)
      /\ Len(Append(Contents, e)) = Used + 1
      /\ \A k \in 1 .. Used + 1 : Append(Contents, e)[k] = event_queue[SlotOf(k)]
  BY <1>4, <1>5
<1> QED  BY <1>2, <1>5, <1>6, <1>7, SeqEqual

(* Moving tail takes the first event away. *)
LEMMA TailTakes ==
    ASSUME TypeOK, TypeOK', event_queue' = event_queue, head' = head,
           tail' = Succ(tail), tail /= head
    PROVE  /\ Contents /= <<>> /\ Head(Contents) = event_queue[tail]
           /\ Contents' = Tail(Contents)
<1>1. tail' = IF tail = N - 1 THEN 0 ELSE tail + 1
  BY SuccValue DEF TypeOK
<1>2. Used > 0 /\ Used' = Used - 1
  BY <1>1, RingAssumption DEF TypeOK, Index, Used
<1>3. \A k \in 1 .. Used' : SlotOf(k)' = SlotOf(k + 1)
  BY <1>1, <1>2, ContentsType, RingAssumption DEF TypeOK, Index, Used, SlotOf
<1>4. SlotOf(1) = tail
  BY RingAssumption DEF TypeOK, Index, SlotOf
<1>5. /\ Contents \in Seq(Value) /\ Len(Contents) = Used /\ Used \in Nat
      /\ \A k \in 1 .. Used : Contents[k] = event_queue[SlotOf(k)]
  BY ContentsType, RingAssumption
<1>6. Contents /= <<>> /\ Head(Contents) = event_queue[tail]
  BY <1>2, <1>4, <1>5
<1>7. /\ Contents' \in Seq(Value) /\ Len(Contents') = Used - 1
      /\ \A k \in 1 .. Used - 1 : Contents'[k] = event_queue[SlotOf(k + 1)]
  <2>1. (Contents \in Seq(Value))' /\ (Len(Contents) = Used)'
        /\ (\A k \in 1 .. Used : Contents[k] = event_queue[SlotOf(k)])'
    BY ContentsType, PTL
  <2> QED  BY <1>2, <1>3, <2>1 DEF Value
<1>8. /\ Tail(Contents) \in Seq(Value) /\ Len(Tail(Contents)) = Used - 1
      /\ \A k \in 1 .. Used - 1 : Tail(Contents)[k] = event_queue[SlotOf(k + 1)]
  BY <1>2, <1>5, <1>6
<1> QED  BY <1>6, <1>7, <1>8, SeqEqual

(* The ring implements the bounded FIFO. *)
THEOREM Refinement == Spec => ImplementsFifo
<1>1. Init => Fifo!Init
  BY RingAssumption DEF Init, Fifo!Init, Contents, Used
<1>2. ASSUME IInv, IInv', [Next]_vars
      PROVE  [Fifo!Next]_<<Contents, put, got>>
  <2>0. TypeOK /\ TypeOK' /\ ProducerInv /\ ConsumerInv
    BY <1>2 DEF IInv
  <2>1. ASSUME NEW e \in Events, Enqueue(e)
        PROVE  UNCHANGED <<Contents, put, got>>
    BY <2>0, <2>1, SameContents DEF Enqueue, consumerVars
  <2>2. CASE CheckFull
    <3>a. tail = Succ(head) /\ head \in Index /\ tail \in Index
      BY <2>0, <2>2 DEF CheckFull, Full, ProducerInv, TypeOK
    <3>b. tail = IF head = N - 1 THEN 0 ELSE head + 1
      BY <3>a, SuccValue
    <3>1. Used = N - 1
      BY <3>a, <3>b, RingAssumption DEF Index, Used
    <3>2. Contents' = Contents
      BY <2>0, <2>2, SameContents DEF CheckFull
    <3>3. Fifo!Drop
      BY <2>0, <2>2, <3>1, <3>2, ContentsType DEF CheckFull, consumerVars, Fifo!Drop
    <3> QED  BY <3>3 DEF Fifo!Next
  <2>3. CASE CheckRoom
    BY <2>0, <2>3, SameContents DEF CheckRoom, consumerVars
  <2>4. CASE WriteSlot
    <3>1. \A k \in 1 .. Used : event_queue'[SlotOf(k)] = event_queue[SlotOf(k)]
      BY <2>0, <2>4, ContentsType DEF WriteSlot, TypeOK
    <3> QED  BY <2>0, <2>4, <3>1, SameContents DEF WriteSlot, consumerVars
  <2>5. CASE AdvanceHead
    <3>1. event \in Events /\ Contents' = Append(Contents, event) /\ Used < N - 1
      BY <2>0, <2>5, HeadAppends DEF AdvanceHead, ProducerInv, Value
    <3>2. Fifo!Accept(event)
      BY <2>0, <2>5, <3>1, ContentsType DEF AdvanceHead, consumerVars, Fifo!Accept
    <3> QED  BY <3>1, <3>2 DEF Fifo!Next
  <2>6. CASE GetNothing
    <3>1. Used = 0 /\ Contents' = Contents
      BY <2>0, <2>6, SameContents DEF GetNothing, TypeOK, Index, Used
    <3>2. Contents = <<>>
      BY <2>0, <3>1, ContentsType, EmptySeq
    <3>3. Fifo!TakeNothing
      BY <2>6, <3>1, <3>2 DEF GetNothing, producerVars, Fifo!TakeNothing
    <3> QED  BY <3>3 DEF Fifo!Next
  <2>7. CASE GetSomething
    BY <2>0, <2>7, SameContents DEF GetSomething, producerVars
  <2>8. CASE ReadSlot
    BY <2>0, <2>8, SameContents DEF ReadSlot, producerVars
  <2>9. CASE AdvanceTail
    <3>1. /\ Contents /= <<>> /\ Head(Contents) = event_queue[tail]
          /\ Contents' = Tail(Contents)
      BY <2>0, <2>9, TailTakes DEF AdvanceTail, ConsumerInv
    <3>2. Fifo!Take
      BY <2>0, <2>9, <3>1 DEF AdvanceTail, producerVars, ConsumerInv, Fifo!Take
    <3> QED  BY <3>2 DEF Fifo!Next
  <2>10. CASE UNCHANGED vars
    BY <2>0, <2>10, SameContents DEF vars, producerVars, consumerVars
  <2> QED
    BY <1>2, <2>1, <2>2, <2>3, <2>4, <2>5, <2>6, <2>7, <2>8, <2>9, <2>10
       DEF Next, Produce, Consume
<1> QED  BY <1>1, <1>2, InvariantHolds, PTL DEF Spec, ImplementsFifo, Fifo!Spec

===============================================================================
