------------------------------ MODULE RawOutput ------------------------------
(***************************************************************************)
(* The serial output both cores share: raw_lock and raw_unlock, a test-    *)
(* and-set lock whose waiters sleep in wfe until an event, and the calls   *)
(* that print under it.  A character is a step.                            *)
(*                                                                         *)
(* External, from the architecture: wfe returns at once if the core's      *)
(* event register is set, and clears it; sev sets it on every core.  The   *)
(* interrupts that would also end a wfe are left out.                      *)
(***************************************************************************)
EXTENDS Integers, Sequences

CONSTANTS
    Writers,    \* the cores that print
    Texts,      \* bound of the model: what is printed, sequences of characters
    CrLf        \* what pico_print ends a line with

ASSUME OutputAssumption ==
    \A text \in Texts \cup {CrLf} : text \in Seq({text[i] : i \in DOMAIN text})

VARIABLES
    raw_output_lock,
    event,       \* external: the event register of each core
    print_buf,   \* print_buf[core]
    raw,         \* where each core is in raw_lock, the loop, raw_unlock
    todo,        \* what the call of each core has left to print under a lock
                 \* of its own, each with where it is read from
    pos,         \* characters of the first of these that were printed
    out          \* the characters sent since the lock was last given back

rawVars == <<raw_output_lock, event, print_buf, raw, todo, pos, out>>

RawInit ==
    /\ raw_output_lock = 0
    /\ event = [c \in Writers |-> FALSE]
    /\ print_buf = [c \in Writers |-> <<>>]
    /\ raw = [c \in Writers |-> "idle"]
    /\ todo = [c \in Writers |-> <<>>]
    /\ pos = [c \in Writers |-> 0]
    /\ out = <<>>

-----------------------------------------------------------------------------
(* Calls.  A text is printed from the caller's memory or from print_buf.   *)

From(text) == [text |-> text, buffered |-> FALSE]
Buffered(text) == [text |-> text, buffered |-> TRUE]

(* raw_puts, raw_putint, pico_print_int: one text, of the caller's own.    *)
RawPuts(c, text) ==
    /\ raw[c] = "idle"
    /\ todo' = [todo EXCEPT ![c] = <<From(text)>>]
    /\ raw' = [raw EXCEPT ![c] = "lock"]
    /\ UNCHANGED <<raw_output_lock, event, print_buf, pos, out>>

(* Faulty variant: one buffer for both cores. *)
OneBuffer(c) == CHOOSE d \in Writers : TRUE

BufferOfCore(c) == c

(* pico_print_string copies to the buffer of its core before it locks;     *)
(* pico_print adds the end of the line under a lock of its own.            *)
PrintString(c, text, ending) ==
    /\ raw[c] = "idle"
    /\ print_buf' = [print_buf EXCEPT ![BufferOfCore(c)] = text]
    /\ todo' = [todo EXCEPT ![c] = <<Buffered(text)>> \o ending]
    /\ raw' = [raw EXCEPT ![c] = "lock"]
    /\ UNCHANGED <<raw_output_lock, event, pos, out>>

-----------------------------------------------------------------------------
(* raw_lock                                                                *)

(* Faulty variant: the lock is read, not tested and set. *)
Unconditional(c) == TRUE

TestAndSet(c) == raw_output_lock = 0

RawLock(c) ==
    /\ raw[c] = "lock" /\ TestAndSet(c)
    /\ raw_output_lock' = 1
    /\ raw' = [raw EXCEPT ![c] = "put"]
    /\ UNCHANGED <<event, print_buf, todo, pos, out>>

RawLockBusy(c) ==
    /\ raw[c] = "lock" /\ ~TestAndSet(c)
    /\ raw' = [raw EXCEPT ![c] = "wfe"]
    /\ UNCHANGED <<raw_output_lock, event, print_buf, todo, pos, out>>

(* wfe goes on once the event register is set, perhaps by an earlier sev.  *)
Wfe(c) ==
    /\ raw[c] = "wfe" /\ event[c]
    /\ event' = [event EXCEPT ![c] = FALSE]
    /\ raw' = [raw EXCEPT ![c] = "lock"]
    /\ UNCHANGED <<raw_output_lock, print_buf, todo, pos, out>>

-----------------------------------------------------------------------------
(* The loop, and raw_unlock                                                *)

Source(c) ==
    IF Head(todo[c]).buffered THEN print_buf[BufferOfCore(c)] ELSE Head(todo[c]).text

PutChar(c) ==
    /\ raw[c] = "put" /\ pos[c] < Len(Source(c))
    /\ out' = Append(out, Source(c)[pos[c] + 1])
    /\ pos' = [pos EXCEPT ![c] = @ + 1]
    /\ UNCHANGED <<raw_output_lock, event, print_buf, raw, todo>>

RawUnlock(c) ==
    /\ raw[c] = "put" /\ pos[c] = Len(Source(c))
    /\ raw_output_lock' = 0
    /\ raw' = [raw EXCEPT ![c] = "sev"]
    /\ out' = <<>>
    /\ UNCHANGED <<event, print_buf, todo, pos>>

(* Faulty variant: nobody is told. *)
NoSev == event

Sev == [c \in Writers |-> TRUE]

(* After __sev(): the next text of the call, if there is one.  What is     *)
(* left in the buffer is dead, and cleared here to keep the state small.   *)
RawSev(c) ==
    /\ raw[c] = "sev"
    /\ event' = Sev
    /\ print_buf' = [print_buf EXCEPT ![BufferOfCore(c)] = <<>>]
    /\ todo' = [todo EXCEPT ![c] = Tail(@)]
    /\ pos' = [pos EXCEPT ![c] = 0]
    /\ raw' = [raw EXCEPT ![c] = IF Len(todo[c]) > 1 THEN "lock" ELSE "idle"]
    /\ UNCHANGED <<raw_output_lock, out>>

-----------------------------------------------------------------------------
RawCall(c) ==
    \E text \in Texts :
        \/ RawPuts(c, text)
        \/ \E ending \in {<<>>, <<From(CrLf)>>} : PrintString(c, text, ending)

RawStep(c) ==
    \/ RawLock(c) \/ RawLockBusy(c) \/ Wfe(c)
    \/ PutChar(c) \/ RawUnlock(c) \/ RawSev(c)

RawNext == \E c \in Writers : RawCall(c) \/ RawStep(c)

RawSpec == RawInit /\ [][RawNext]_rawVars

-----------------------------------------------------------------------------
(* Properties                                                              *)

(* What has been sent since the lock was last given back is the beginning  *)
(* of the text that its holder is printing, and all of it when it gives    *)
(* the lock back: texts are neither interleaved nor overwritten in their   *)
(* buffer by the other core.                                               *)
TextsWhole ==
    \A c \in Writers : raw[c] = "put" =>
        LET text == Head(todo[c]).text IN
        /\ pos[c] <= Len(text) /\ out = SubSeq(text, 1, pos[c])
        /\ pos[c] = Len(Source(c)) => out = text

(* A core that sleeps in wfe is not forgotten: the lock is held, or its    *)
(* event register is set, or the core that freed the lock is about to sev. *)
SleeperWoken ==
    \A c \in Writers : raw[c] = "wfe" =>
        raw_output_lock = 1 \/ event[c] \/ \E d \in Writers : raw[d] = "sev"

=============================================================================
