------------------------------ MODULE HandlePool ------------------------------
(***************************************************************************)
(* How a pthread_mutex_t gets its slot of mutex_storage: the lazy          *)
(* ensure_mutex_init of statically initialised mutexes and the explicit    *)
(* pthread_mutex_init, one action per access to shared memory.  The pool   *)
(* of condition variables is the same code over condvar_storage.           *)
(***************************************************************************)
EXTENDS Integers

CONSTANTS
    Cores,
    Creators,   \* the cores that create mutexes once both cores run
    Objs,       \* the pthread_mutex_t objects
    Static,     \* those initialised with PTHREAD_MUTEX_INITIALIZER
    MAX,        \* MAX_MUTEXES, 64 in the code
    NoCore, NoObj

ASSUME PoolAssumption ==
    /\ Creators \subseteq Cores /\ Static \subseteq Objs
    /\ MAX \in Nat
    /\ NoCore \notin Cores /\ NoObj \notin Objs

Slots == 0 .. MAX - 1

VARIABLES
    pc,      \* where each core is in lock or init
    obj,     \* the object of its call
    lazy,    \* TRUE: within pthread_mutex_lock, FALSE: pthread_mutex_init
    idx,     \* the local idx
    count,   \* mutex_count
    magic,   \* the slots whose magic is set
    handle,  \* the index stored in each object, -1 before
    holder,  \* which core has entered the recursive mutex of each slot
    held     \* the objects each core was told it has locked, by a lock that
             \* returned 0 and was not undone

vars == <<pc, obj, lazy, idx, count, magic, handle, holder, held>>

Init ==
    /\ pc = [c \in Cores |-> "idle"]
    /\ obj = [c \in Cores |-> NoObj]
    /\ lazy = [c \in Cores |-> FALSE]
    /\ idx = [c \in Cores |-> -1]
    /\ count = 0
    /\ magic = {}
    /\ handle = [o \in Objs |-> -1]
    /\ holder = [i \in Slots |-> NoCore]
    /\ held = [c \in Cores |-> {}]

Goto(c, label) == pc' = [pc EXCEPT ![c] = label]

(* The call ends; its locals go with it. *)
Return(c) ==
    /\ Goto(c, "idle")
    /\ obj' = [obj EXCEPT ![c] = NoObj]
    /\ lazy' = [lazy EXCEPT ![c] = FALSE]
    /\ idx' = [idx EXCEPT ![c] = -1]

Begin(c, o, label, isLock) ==
    /\ pc[c] = "idle"
    /\ obj' = [obj EXCEPT ![c] = o]
    /\ lazy' = [lazy EXCEPT ![c] = isLock]
    /\ Goto(c, label)
    /\ UNCHANGED <<idx, count, magic, handle, holder, held>>

Full == count >= MAX

(* An object that got no slot before the last one went never gets one. *)
Slotless(o) ==
    /\ handle[o] = -1 /\ Full
    /\ \A d \in Cores : obj[d] = o => pc[d] \notin {"fill", "publish"}

(* Any core locks an object that is ready, and a static one when no slot   *)
(* is left to race for; creators also lock static ones before.             *)
Lock(c, o) ==
    /\ o \notin held[c]
    /\ handle[o] >= 0 \/ (o \in Static /\ (c \in Creators \/ Slotless(o)))
    /\ Begin(c, o, "check", TRUE)

(* An object is initialised explicitly once, before anybody else has it. *)
MutexInit(c, o) ==
    /\ c \in Creators /\ o \notin Static
    /\ handle[o] = -1 /\ \A d \in Cores : obj[d] /= o
    /\ Begin(c, o, "bound", FALSE)

(* Faulty variant: slot 0 is taken for the uninitialised value. *)
InitialisedPositive(i) == i > 0 /\ i < MAX /\ i \in magic

(* The test of ensure_mutex_init, negated, and of pthread_mutex_unlock. *)
Initialised(i) == i >= 0 /\ i < MAX /\ i \in magic

Check(c) ==
    /\ pc[c] = "check"
    /\ idx' = [idx EXCEPT ![c] = handle[obj[c]]]
    /\ Goto(c, IF Initialised(handle[obj[c]]) THEN "enter" ELSE "bound")
    /\ UNCHANGED <<obj, lazy, count, magic, handle, holder, held>>

(* With the pool full, pthread_mutex_init fails with ENOMEM, but           *)
(* pthread_mutex_lock returns 0 with nothing locked: the caller believes   *)
(* that it has the mutex.                                                  *)
Bound(c) ==
    /\ pc[c] = "bound"
    /\ IF Full
         THEN /\ Return(c)
              /\ held' = [held EXCEPT ![c] = IF lazy[c] THEN @ \cup {obj[c]} ELSE @]
         ELSE /\ Goto(c, "load")
              /\ UNCHANGED <<obj, lazy, idx, held>>
    /\ UNCHANGED <<count, magic, handle, holder>>

(* idx = mutex_count++ is a load and a store of a volatile. *)
Load(c) ==
    /\ pc[c] = "load"
    /\ idx' = [idx EXCEPT ![c] = count]
    /\ Goto(c, "store")
    /\ UNCHANGED <<obj, lazy, count, magic, handle, holder, held>>

(* Faulty variant: the increment is forgotten. *)
StoreNothing(c) ==
    /\ pc[c] = "store"
    /\ Goto(c, "fill")
    /\ UNCHANGED <<obj, lazy, idx, count, magic, handle, holder, held>>

Store(c) ==
    /\ pc[c] = "store"
    /\ count' = idx[c] + 1
    /\ Goto(c, "fill")
    /\ UNCHANGED <<obj, lazy, idx, magic, handle, holder, held>>

(* recursive_mutex_init and the magic; past the array is undefined. *)
Fill(c) ==
    /\ pc[c] = "fill" /\ idx[c] < MAX
    /\ holder' = [holder EXCEPT ![idx[c]] = NoCore]
    /\ magic' = magic \cup {idx[c]}
    /\ Goto(c, "publish")
    /\ UNCHANGED <<obj, lazy, idx, count, handle, held>>

Publish(c) ==
    /\ pc[c] = "publish"
    /\ handle' = [handle EXCEPT ![obj[c]] = idx[c]]
    /\ IF lazy[c]
         THEN Goto(c, "enter") /\ UNCHANGED <<obj, lazy, idx>>
         ELSE Return(c)
    /\ UNCHANGED <<count, magic, holder, held>>

(* The lock loop of pthread_mutex_lock gets the slot found by ensure. *)
EnterSlot(c) ==
    /\ pc[c] = "enter" /\ holder[idx[c]] = NoCore
    /\ holder' = [holder EXCEPT ![idx[c]] = c]
    /\ held' = [held EXCEPT ![c] = @ \cup {obj[c]}]
    /\ Return(c)
    /\ UNCHANGED <<count, magic, handle>>

(* pthread_mutex_unlock reads the index in the object again; without one   *)
(* it does nothing, and returns 0 as well.                                 *)
Unlock(c, o) ==
    /\ pc[c] = "idle" /\ o \in held[c]
    /\ held' = [held EXCEPT ![c] = @ \ {o}]
    /\ IF Initialised(handle[o]) /\ holder[handle[o]] = c
         THEN holder' = [holder EXCEPT ![handle[o]] = NoCore]
         ELSE UNCHANGED holder
    /\ UNCHANGED <<pc, obj, lazy, idx, count, magic, handle>>

Step(c) ==
    \/ Check(c) \/ Bound(c) \/ Load(c) \/ Store(c) \/ Fill(c) \/ Publish(c)
    \/ EnterSlot(c)

Next ==
    \E c \in Cores :
        Step(c) \/ \E o \in Objs : Lock(c, o) \/ MutexInit(c, o) \/ Unlock(c, o)

Spec == Init /\ [][Next]_vars

-----------------------------------------------------------------------------
(* Properties                                                              *)

(* One core at most creates mutexes after both cores have started. *)
OneCreator == \A c, d \in Creators : c = d

(* The type of every variable. *)
TypeOK ==
    /\ pc \in [Cores -> {"idle", "check", "bound", "load", "store", "fill",
                         "publish", "enter"}]
    /\ obj \in [Cores -> Objs \cup {NoObj}]
    /\ lazy \in [Cores -> BOOLEAN]
    /\ idx \in [Cores -> -1 .. MAX]
    /\ count \in 0 .. MAX
    /\ magic \subseteq Slots
    /\ handle \in [Objs -> -1 .. MAX - 1]
    /\ holder \in [Slots -> Cores \cup {NoCore}]
    /\ held \in [Cores -> SUBSET Objs]

(* Two initialised mutexes never share a slot: locking one is not locking  *)
(* the other (ocaml_stubs.h:24).                                           *)
DistinctSlots ==
    \A o, p \in Objs : handle[o] >= 0 /\ handle[o] = handle[p] => o = p

(* The slot a core is about to initialise exists. *)
InBounds == \A c \in Cores : pc[c] = "fill" => idx[c] < MAX

(* One core at a time holds an object that has a slot, from its lazy       *)
(* initialisation on: no other initialisation reuses its slot or resets it *)
(* while it is held, nor does the object get its slot while a core has it. *)
(* An object that the full pool left without a slot excludes nobody.       *)
ObjectExclusion ==
    \A c, d \in Cores, o \in Objs :
        handle[o] >= 0 /\ o \in held[c] /\ o \in held[d] => c = d

=============================================================================
