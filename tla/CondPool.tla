------------------------------- MODULE CondPool -------------------------------
(***************************************************************************)
(* How a pthread_cond_t gets its slot of condvar_storage while the other   *)
(* core waits in one: ensure_condvar_init and pthread_cond_init, one       *)
(* action per access to shared memory, with the wait and the signal that   *)
(* use the slot and the mutex pool the wait goes back to.  Nesting, the    *)
(* turns of the loops and stop-the-world polls are PicoThreads'.           *)
(***************************************************************************)
EXTENDS HandlePool, FiniteSets

CONSTANTS
    Conds,         \* the pthread_cond_t objects
    StaticConds,   \* those initialised with PTHREAD_COND_INITIALIZER
    MutexOf,       \* the mutex each is waited for with
    MaxConds,      \* MAX_CONDVARS, 64 in the code
    MaxGen         \* bound of the model: signals that find a waiter

ASSUME CondAssumption ==
    /\ StaticConds \subseteq Conds
    /\ MutexOf \in [Conds -> Objs]
    /\ MaxConds \in Nat /\ MaxGen \in Nat

CondSlots == 0 .. MaxConds - 1

VARIABLES
    call,      \* per core: where it is, in which call, on which object, and
               \* the locals idx, mutex_idx and my_gen
    ccount,    \* condvar_count
    chandle,   \* the index stored in each object, -1 before
    condvar    \* condvar_storage[]

condVars == <<call, ccount, chandle, condvar>>

NoCall == [at |-> "idle", op |-> "none", cond |-> "none",
           idx |-> -1, mutex_idx |-> -1, my_gen |-> 0]

CondInit ==
    /\ call = [c \in Cores |-> NoCall]
    /\ ccount = 0
    /\ chandle = [o \in Conds |-> -1]
    /\ condvar = [i \in CondSlots |-> [magic |-> FALSE, waiters |-> 0, generation |-> 0]]

CondAt(c, place) == call[c].at = place

CondGoto(c, place) == call' = [call EXCEPT ![c].at = place]

-----------------------------------------------------------------------------
(* Calls: wait, signal and broadcast begin with ensure_condvar_init        *)

Wants(c, op, o, place) ==
    /\ CondAt(c, "idle") /\ pc[c] = "idle"
    /\ call' = [call EXCEPT ![c] = [NoCall EXCEPT !.at = place, !.op = op, !.cond = o]]
    /\ UNCHANGED <<ccount, chandle, condvar, vars>>

(* Any core uses an object that is ready; creators also use static ones,   *)
(* and initialise the others once, before anybody else has them.           *)
Usable(c, o) == chandle[o] >= 0 \/ (o \in StaticConds /\ c \in Creators)

CondWait(c, o) == Usable(c, o) /\ MutexOf[o] \in held[c] /\ Wants(c, "wait", o, "check")

Notify(c, o) ==
    Usable(c, o) /\ \E op \in {"signal", "broadcast"} : Wants(c, op, o, "check")

CondCreate(c, o) ==
    /\ c \in Creators /\ o \notin StaticConds
    /\ chandle[o] = -1 /\ \A d \in Cores : call[d].cond # o
    /\ Wants(c, "init", o, "bound")

-----------------------------------------------------------------------------
(* ensure_condvar_init and pthread_cond_init                               *)

Ready(i) == i >= 0 /\ i < MaxConds /\ condvar[i].magic

CondCheck(c) ==
    /\ CondAt(c, "check")
    /\ LET i == chandle[call[c].cond] IN
         call' = [call EXCEPT ![c].idx = i, ![c].at = IF Ready(i) THEN "act" ELSE "bound"]
    /\ UNCHANGED <<ccount, chandle, condvar, vars>>

(* The pool is full: ENOMEM, EINVAL, or for a signal 0. *)
CondBound(c) ==
    /\ CondAt(c, "bound")
    /\ call' = [call EXCEPT ![c] = IF ccount >= MaxConds THEN NoCall
                                                         ELSE [@ EXCEPT !.at = "load"]]
    /\ UNCHANGED <<ccount, chandle, condvar, vars>>

CondLoad(c) ==
    /\ CondAt(c, "load")
    /\ call' = [call EXCEPT ![c].idx = ccount, ![c].at = "store"]
    /\ UNCHANGED <<ccount, chandle, condvar, vars>>

(* Faulty variant: the increment is forgotten. *)
CountKept(c) == ccount

CountAfter(c) == call[c].idx + 1

CondStore(c) ==
    /\ CondAt(c, "store")
    /\ ccount' = CountAfter(c)
    /\ CondGoto(c, "fill")
    /\ UNCHANGED <<chandle, condvar, vars>>

CondFill(c) ==
    /\ CondAt(c, "fill") /\ call[c].idx < MaxConds
    /\ condvar' = [condvar EXCEPT ![call[c].idx] =
                      [magic |-> TRUE, waiters |-> 0, generation |-> 0]]
    /\ CondGoto(c, "publish")
    /\ UNCHANGED <<ccount, chandle, vars>>

CondPublish(c) ==
    /\ CondAt(c, "publish")
    /\ chandle' = [chandle EXCEPT ![call[c].cond] = call[c].idx]
    /\ call' = [call EXCEPT ![c] = IF call[c].op = "init" THEN NoCall
                                                          ELSE [@ EXCEPT !.at = "act"]]
    /\ UNCHANGED <<ccount, condvar, vars>>

-----------------------------------------------------------------------------
(* pthread_cond_wait, _signal, _broadcast once they have the slot          *)

Register(c) ==
    /\ CondAt(c, "act") /\ call[c].op = "wait"
    /\ condvar' = [condvar EXCEPT ![call[c].idx].waiters = @ + 1]
    /\ call' = [call EXCEPT ![c].at = "release",
                            ![c].mutex_idx = handle[MutexOf[call[c].cond]],
                            ![c].my_gen = condvar[call[c].idx].generation]
    /\ UNCHANGED <<ccount, chandle, vars>>

ReleaseMutex(c) ==
    /\ CondAt(c, "release")
    /\ IF Initialised(call[c].mutex_idx)
         THEN holder' = [holder EXCEPT ![call[c].mutex_idx] = NoCore]
         ELSE UNCHANGED holder
    /\ held' = [held EXCEPT ![c] = @ \ {MutexOf[call[c].cond]}]
    /\ CondGoto(c, "sleep")
    /\ UNCHANGED <<ccount, chandle, condvar, pc, obj, lazy, idx, count, magic, handle>>

Woken(c) ==
    /\ CondAt(c, "sleep") /\ condvar[call[c].idx].generation # call[c].my_gen
    /\ condvar' = [condvar EXCEPT ![call[c].idx].waiters = @ - 1]
    /\ CondGoto(c, "relock")
    /\ UNCHANGED <<ccount, chandle, vars>>

(* Faulty variant: the mutex is taken for free. *)
RelockBlindly(c) == TRUE

RelockFree(c) == Initialised(call[c].mutex_idx) => holder[call[c].mutex_idx] = NoCore

Relock(c) ==
    /\ CondAt(c, "relock") /\ RelockFree(c)
    /\ IF Initialised(call[c].mutex_idx)
         THEN holder' = [holder EXCEPT ![call[c].mutex_idx] = c]
         ELSE UNCHANGED holder
    /\ held' = [held EXCEPT ![c] = @ \cup {MutexOf[call[c].cond]}]
    /\ call' = [call EXCEPT ![c] = NoCall]
    /\ UNCHANGED <<ccount, chandle, condvar, pc, obj, lazy, idx, count, magic, handle>>

NotifySlot(c) ==
    /\ CondAt(c, "act") /\ call[c].op \in {"signal", "broadcast"}
    /\ LET i == call[c].idx IN
         IF condvar[i].waiters > 0 \/ call[c].op = "broadcast"
           THEN /\ condvar[i].generation < MaxGen
                /\ condvar' = [condvar EXCEPT ![i].generation = @ + 1]
           ELSE UNCHANGED condvar
    /\ call' = [call EXCEPT ![c] = NoCall]
    /\ UNCHANGED <<ccount, chandle, vars>>

-----------------------------------------------------------------------------
CondCall(c) == \E o \in Conds : CondWait(c, o) \/ Notify(c, o) \/ CondCreate(c, o)

CondStep(c) ==
    \/ CondCheck(c) \/ CondBound(c) \/ CondLoad(c) \/ CondStore(c)
    \/ CondFill(c) \/ CondPublish(c)
    \/ Register(c) \/ ReleaseMutex(c) \/ Woken(c) \/ Relock(c) \/ NotifySlot(c)

(* A core in a call on a condition variable is in no call on a mutex.      *)
InMutexCall(c) ==
    /\ CondAt(c, "idle")
    /\ Step(c) \/ \E o \in Objs : Lock(c, o) \/ MutexInit(c, o) \/ Unlock(c, o)
    /\ UNCHANGED condVars

PoolsInit == Init /\ CondInit

PoolsNext == \E c \in Cores : InMutexCall(c) \/ CondCall(c) \/ CondStep(c)

PoolsSpec == PoolsInit /\ [][PoolsNext]_<<vars, condVars>>

-----------------------------------------------------------------------------
(* Properties                                                              *)

Waits(c) == call[c].at \in {"release", "sleep"}

(* A waiter stays where those who signal its condition variable look for   *)
(* it: the object names the slot it registered in, and no initialisation,  *)
(* lazy or not, of this or another object has reset that slot, which would *)
(* make a signal pass it by or a later generation equal to its own.        *)
WaitersReachable ==
    \A c \in Cores : Waits(c) =>
        LET i == call[c].idx IN
        /\ chandle[call[c].cond] = i
        /\ condvar[i].waiters >= Cardinality({d \in Cores : Waits(d) /\ call[d].idx = i})
        /\ condvar[i].generation >= call[c].my_gen

(* Whether a core holds a mutex that has a slot; a wait gives it back when *)
(* it registers, though the slot is free only a step later.                *)
Level(c, o) ==
    IF /\ o \in held[c] /\ handle[o] >= 0
       /\ ~(CondAt(c, "release") /\ MutexOf[call[c].cond] = o)
      THEN 1 ELSE 0

Levels == [c \in Cores |-> [o \in Objs |-> Level(c, o)]]

AsleepIn(c, v) ==
    /\ Waits(c) /\ call[c].cond = v
    /\ condvar[call[c].idx].generation = call[c].my_gen

WaitSets == [v \in Conds |-> {c \in Cores : AsleepIn(c, v)}]

Monitor == INSTANCE Monitors
    WITH Mutexes <- Objs, depth <- Levels, waitset <- WaitSets

(* The slots do not show: objects whose slots are handed out lazily, from  *)
(* an unlocked counter, and looked up by index at every call are monitors, *)
(* except that a mutex without a slot is never locked, whatever the caller *)
(* is told: a wait with it joins the wait set and gives nothing back.      *)
ImplementsMonitors == Monitor!Spec

=============================================================================
