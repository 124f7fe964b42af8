----------------------------- MODULE PicoThreads -----------------------------
(***************************************************************************)
(* The pthread layer of ocaml_stubs.c: recursive mutexes, condition        *)
(* variables built on a generation counter, and the polling of OCaml's     *)
(* stop-the-world (STW) interrupts that every blocking call performs,      *)
(* because the board has no backup threads that could do it.               *)
(*                                                                         *)
(* A core runs OCaml or C code ("run") and calls the operations below; a   *)
(* blocking operation is a loop whose iterations are separate steps, so    *)
(* that the cores interleave wherever the code lets them.  The OCaml       *)
(* runtime (who asks for a stop-the-world section, what the handler does,  *)
(* blocking sections, safepoints) is external to the repository: it is     *)
(* modelled from how ocaml_stubs.c uses it.                                *)
(***************************************************************************)
EXTENDS Integers, FiniteSets

CONSTANTS
    Cores,      \* the processor cores, one OCaml domain on each
    Mutexes,    \* the mutexes the program uses, domain locks excepted
    Pooled,     \* those that obtained a slot of mutex_storage
    Conds,      \* the condition variables (all have a slot)
    NoCore, NoMutex, NoCond,
    PollEvery,  \* 100 in the code: wait-loop turns between two polls
    LoopCap,    \* 100000 in the code: where the turn counter starts again
    MaxDepth,   \* bound of the model: nesting of one mutex
    MaxGen      \* bound of the model: signals of one condition variable

(* caml_get_domain_lock(): the domain lock of the domain on core c *)
DomainLock(c) == <<"domain_lock", c>>

DomainLocks == {DomainLock(c) : c \in Cores}
Locks == Mutexes \cup DomainLocks

ASSUME ConstantsAssumption ==
    /\ IsFiniteSet(Cores)
    /\ Pooled \subseteq Mutexes
    /\ Mutexes \cap DomainLocks = {}
    /\ NoCore \notin Cores /\ NoMutex \notin Mutexes /\ NoCond \notin Conds

ASSUME BoundsAssumption ==
    /\ PollEvery \in Nat \ {0}
    /\ LoopCap \in Nat /\ LoopCap >= PollEvery
    /\ MaxDepth \in Nat /\ MaxGen \in Nat

VARIABLES
    pc,           \* where each core is
    mtx,          \* the mutex argument of the call in progress
    cv,           \* the condition variable a core is registered with
    owner,        \* recursive_mutex_t.owner
    enter_count,  \* recursive_mutex_t.enter_count
    held_counts,  \* held_counts[core][idx]
    waiters,      \* pico_condvar_t.waiters
    generation,   \* pico_condvar_t.generation
    my_gen,       \* local my_gen of pthread_cond_wait
    loops,        \* local loops of pthread_cond_wait
    handling_stw, \* handling_stw[core]
    caml_state,   \* the thread-local caml_state: its domain, or none
    saved_state,  \* local saved_state of try_handle_stw_interrupt
    back,         \* where try_handle_stw_interrupt returns to
    queued,       \* external: an interrupt is queued for the core's domain
    leader,       \* external: the core running a stop-the-world section
    acquired,     \* history: how often the caller was told it has the mutex
    signalled     \* history: signalled since it registered as a waiter

lockVars == <<owner, enter_count, held_counts>>
condVars == <<cv, waiters, generation, my_gen, loops, signalled>>
stwVars  == <<handling_stw, caml_state, saved_state, back, queued, leader>>
vars == <<pc, mtx, lockVars, condVars, stwVars, acquired>>

Polling == {"lockpoll", "condpoll", "relockpoll", "write"}
PCs == {"run", "lock", "release", "cond", "woken", "relock", "stw", "lead"}
           \cup Polling

Init ==
    /\ pc = [c \in Cores |-> "run"]
    /\ mtx = [c \in Cores |-> NoMutex]
    /\ cv = [c \in Cores |-> NoCond]
    /\ owner = [l \in Locks |-> IF l \in DomainLocks THEN l[2] ELSE NoCore]
    /\ enter_count = [l \in Locks |-> IF l \in DomainLocks THEN 1 ELSE 0]
    /\ held_counts = [c \in Cores |->
                        [l \in Locks |-> IF l = DomainLock(c) THEN 1 ELSE 0]]
    /\ waiters = [v \in Conds |-> 0]
    /\ generation = [v \in Conds |-> 0]
    /\ my_gen = [c \in Cores |-> 0]
    /\ loops = [c \in Cores |-> 0]
    /\ handling_stw = [c \in Cores |-> FALSE]
    /\ caml_state = [c \in Cores |-> "domain"]
    /\ saved_state = [c \in Cores |-> "domain"]
    /\ back = [c \in Cores |-> "run"]
    /\ queued = [c \in Cores |-> FALSE]
    /\ leader = NoCore
    /\ acquired = [c \in Cores |-> [m \in Mutexes |-> 0]]
    /\ signalled = [c \in Cores |-> FALSE]

-----------------------------------------------------------------------------
(* Recursive mutexes and the tracking of what each core holds              *)

CanEnter(c, l) == owner[l] \in {NoCore, c}

(* Faulty variant: an acquisition that is not tracked. *)
EnterUntracked(c, l) ==
    /\ CanEnter(c, l)
    /\ owner' = [owner EXCEPT ![l] = c]
    /\ enter_count' = [enter_count EXCEPT ![l] = @ + 1]
    /\ UNCHANGED held_counts

(* A successful recursive_mutex_try_enter, then held_counts[core][idx]++. *)
Enter(c, l) ==
    /\ CanEnter(c, l)
    /\ owner' = [owner EXCEPT ![l] = c]
    /\ enter_count' = [enter_count EXCEPT ![l] = @ + 1]
    /\ held_counts' = [held_counts EXCEPT ![c][l] = @ + 1]

(* Faulty variant: the first exit of a nested mutex frees it. *)
ExitAtOnce(c, l) ==
    /\ enter_count' = [enter_count EXCEPT ![l] = @ - 1]
    /\ owner' = [owner EXCEPT ![l] = NoCore]
    /\ held_counts' = [held_counts EXCEPT ![c][l] = IF @ > 0 THEN @ - 1 ELSE @]

(* recursive_mutex_exit, then held_counts[core][idx]-- when positive. *)
Exit(c, l) ==
    /\ enter_count' = [enter_count EXCEPT ![l] = @ - 1]
    /\ owner' = [owner EXCEPT ![l] = IF enter_count[l] = 1 THEN NoCore ELSE @]
    /\ held_counts' = [held_counts EXCEPT ![c][l] = IF @ > 0 THEN @ - 1 ELSE @]

Goto(c, label) == pc' = [pc EXCEPT ![c] = label]

LockCall(c, m) ==
    /\ pc[c] = "run" /\ m \in Pooled
    /\ acquired[c][m] < MaxDepth
    /\ mtx' = [mtx EXCEPT ![c] = m]
    /\ Goto(c, "lock")
    /\ UNCHANGED <<lockVars, condVars, stwVars, acquired>>

(* idx < 0, the pool is full: pthread_mutex_lock returns 0, "locked". *)
LockUnpooled(c, m) ==
    /\ pc[c] = "run" /\ m \in Mutexes \ Pooled
    /\ acquired[c][m] < MaxDepth
    /\ acquired' = [acquired EXCEPT ![c][m] = @ + 1]
    /\ UNCHANGED <<pc, mtx, lockVars, condVars, stwVars>>

LockAcquire(c) ==
    /\ pc[c] = "lock"
    /\ Enter(c, mtx[c])
    /\ acquired' = [acquired EXCEPT ![c][mtx[c]] = @ + 1]
    /\ mtx' = [mtx EXCEPT ![c] = NoMutex]
    /\ Goto(c, "run")
    /\ UNCHANGED <<condVars, stwVars>>

LockBusy(c) ==
    /\ pc[c] = "lock"
    /\ ~CanEnter(c, mtx[c])
    /\ Goto(c, "lockpoll")
    /\ UNCHANGED <<mtx, lockVars, condVars, stwVars, acquired>>

(* A trylock that returns EBUSY or EINVAL changes nothing. *)
Trylock(c, m) ==
    /\ pc[c] = "run" /\ m \in Pooled
    /\ acquired[c][m] < MaxDepth
    /\ Enter(c, m)
    /\ acquired' = [acquired EXCEPT ![c][m] = @ + 1]
    /\ UNCHANGED <<pc, mtx, condVars, stwVars>>

(* Callers unlock what they were told they hold; without a slot, a no-op. *)
Unlock(c, m) ==
    /\ pc[c] = "run" /\ acquired[c][m] > 0
    /\ IF m \in Pooled THEN Exit(c, m) ELSE UNCHANGED lockVars
    /\ acquired' = [acquired EXCEPT ![c][m] = @ - 1]
    /\ UNCHANGED <<pc, mtx, condVars, stwVars>>

-----------------------------------------------------------------------------
(* Condition variables                                                     *)

(* cv->waiters++, under cv->lock *)
CountWaiter(v) == waiters' = [waiters EXCEPT ![v] = @ + 1]

(* Entry of pthread_cond_wait up to mutex_exit(&cv->lock). *)
CondWait(c, v, m) ==
    /\ pc[c] = "run" /\ acquired[c][m] > 0
    /\ cv' = [cv EXCEPT ![c] = v]
    /\ my_gen' = [my_gen EXCEPT ![c] = generation[v]]
    /\ CountWaiter(v)
    /\ mtx' = [mtx EXCEPT ![c] = m]
    /\ Goto(c, "release")
    /\ UNCHANGED <<lockVars, generation, loops, signalled, stwVars, acquired>>

(* Releases one level of the mutex passed in, and no other mutex. *)
CondRelease(c) ==
    /\ pc[c] = "release"
    /\ IF mtx[c] \in Pooled THEN Exit(c, mtx[c]) ELSE UNCHANGED lockVars
    /\ acquired' = [acquired EXCEPT ![c][mtx[c]] = @ - 1]
    /\ Goto(c, "cond")
    /\ UNCHANGED <<mtx, condVars, stwVars>>

(* One turn of the wait loop that finds no new generation. *)
CondSleep(c) ==
    /\ pc[c] = "cond" /\ generation[cv[c]] = my_gen[c]
    /\ loops' = [loops EXCEPT ![c] = IF @ + 1 > LoopCap THEN 1 ELSE @ + 1]
    /\ Goto(c, IF loops[c] % PollEvery = 0 THEN "condpoll" ELSE "cond")
    /\ UNCHANGED <<mtx, lockVars, cv, waiters, generation, my_gen, signalled,
                   stwVars, acquired>>

(* Faulty variant: a waiter that tires of waiting. *)
CondSeeTired(c) ==
    /\ pc[c] = "cond" /\ (generation[cv[c]] /= my_gen[c] \/ loops[c] = LoopCap)
    /\ Goto(c, "woken")
    /\ UNCHANGED <<mtx, lockVars, condVars, stwVars, acquired>>

CondSee(c) ==
    /\ pc[c] = "cond" /\ generation[cv[c]] /= my_gen[c]
    /\ Goto(c, "woken")
    /\ UNCHANGED <<mtx, lockVars, condVars, stwVars, acquired>>

UncountWaiter(v) == waiters' = [waiters EXCEPT ![v] = @ - 1]

(* waiters-- under cv->lock; then the mutex is taken again, if it is one.  *)
(* (my_gen and loops are locals: 0 when they are dead.)                    *)
CondWoken(c) ==
    /\ pc[c] = "woken"
    /\ UncountWaiter(cv[c])
    /\ cv' = [cv EXCEPT ![c] = NoCond]
    /\ signalled' = [signalled EXCEPT ![c] = FALSE]
    /\ IF mtx[c] \in Pooled
         THEN /\ Goto(c, "relock")
              /\ UNCHANGED <<mtx, acquired>>
         ELSE /\ Goto(c, "run")
              /\ mtx' = [mtx EXCEPT ![c] = NoMutex]
              /\ acquired' = [acquired EXCEPT ![c][mtx[c]] = @ + 1]
    /\ my_gen' = [my_gen EXCEPT ![c] = 0]
    /\ loops' = [loops EXCEPT ![c] = 0]
    /\ UNCHANGED <<lockVars, generation, stwVars>>

RelockAcquire(c) ==
    /\ pc[c] = "relock"
    /\ Enter(c, mtx[c])
    /\ acquired' = [acquired EXCEPT ![c][mtx[c]] = @ + 1]
    /\ mtx' = [mtx EXCEPT ![c] = NoMutex]
    /\ Goto(c, "run")
    /\ UNCHANGED <<condVars, stwVars>>

(* Faulty variant: no poll while the mutex is taken. *)
RelockBusySpin(c) ==
    pc[c] = "relock" /\ ~CanEnter(c, mtx[c]) /\ UNCHANGED vars

RelockBusy(c) ==
    /\ pc[c] = "relock"
    /\ ~CanEnter(c, mtx[c])
    /\ Goto(c, "relockpoll")
    /\ UNCHANGED <<mtx, lockVars, condVars, stwVars, acquired>>

(* The caller's intent, kept as history: all who wait on v are to wake. *)
MarkSignalled(v) ==
    signalled' = [d \in Cores |-> signalled[d] \/ cv[d] = v]

(* Faulty variant: a single waiter is taken for nobody. *)
GenerationForCrowd(v) == IF waiters[v] > 1 THEN generation[v] + 1 ELSE generation[v]

(* The generation moves only when somebody waits; it then wakes them all. *)
GenerationAfterSignal(v) ==
    IF waiters[v] > 0 THEN generation[v] + 1 ELSE generation[v]

Signal(c, v) ==
    /\ pc[c] = "run" /\ generation[v] < MaxGen
    /\ generation' = [generation EXCEPT ![v] = GenerationAfterSignal(v)]
    /\ MarkSignalled(v)
    /\ UNCHANGED <<pc, mtx, lockVars, cv, waiters, my_gen, loops, stwVars, acquired>>

Broadcast(c, v) ==
    /\ pc[c] = "run" /\ generation[v] < MaxGen
    /\ generation' = [generation EXCEPT ![v] = @ + 1]
    /\ MarkSignalled(v)
    /\ UNCHANGED <<pc, mtx, lockVars, cv, waiters, my_gen, loops, stwVars, acquired>>

-----------------------------------------------------------------------------
(* Stop-the-world interrupts                                               *)

(* try_handle_stw_interrupt goes ahead: not nested, queued, lock obtained. *)
StwPending(c) ==
    ~handling_stw[c] /\ queued[c] /\ CanEnter(c, DomainLock(c))

AfterPoll == [lockpoll |-> "lock", condpoll |-> "cond",
              relockpoll |-> "relock", write |-> "run"]

StwEnter(c) ==
    /\ pc[c] \in Polling /\ StwPending(c)
    /\ Enter(c, DomainLock(c))
    /\ handling_stw' = [handling_stw EXCEPT ![c] = TRUE]
    /\ saved_state' = [saved_state EXCEPT ![c] = caml_state[c]]
    /\ caml_state' = [caml_state EXCEPT ![c] = "domain"]
    /\ back' = [back EXCEPT ![c] = AfterPoll[pc[c]]]
    /\ Goto(c, "stw")
    /\ UNCHANGED <<mtx, condVars, queued, leader, acquired>>

StwSkip(c) ==
    /\ pc[c] \in Polling /\ ~StwPending(c)
    /\ Goto(c, AfterPoll[pc[c]])
    /\ UNCHANGED <<mtx, lockVars, condVars, stwVars, acquired>>

(* Faulty variant: caml_state is left as the handler needed it. *)
StateAsHandled(c) == caml_state[c]

StateToRestore(c) == saved_state[c]

(* caml_handle_incoming_interrupts has run: restore and unlock.            *)
(* (saved_state and back are dead from here on: reset.)                    *)
StwExit(c) ==
    /\ pc[c] = "stw"
    /\ queued' = [queued EXCEPT ![c] = FALSE]
    /\ caml_state' = [caml_state EXCEPT ![c] = StateToRestore(c)]
    /\ handling_stw' = [handling_stw EXCEPT ![c] = FALSE]
    /\ Exit(c, DomainLock(c))
    /\ Goto(c, back[c])
    /\ saved_state' = [saved_state EXCEPT ![c] = "domain"]
    /\ back' = [back EXCEPT ![c] = "run"]
    /\ UNCHANGED <<mtx, condVars, leader, acquired>>

(* _write polls after its first character and then every 32. *)
Write(c) ==
    /\ pc[c] = "run"
    /\ Goto(c, "write")
    /\ UNCHANGED <<mtx, lockVars, condVars, stwVars, acquired>>

-----------------------------------------------------------------------------
(* External: the OCaml runtime on each core                                *)

InBlockingSection(c) == caml_state[c] = "none"

(* caml_release_domain_lock / caml_acquire_domain_lock *)
EnterBlocking(c) ==
    /\ pc[c] = "run" /\ ~InBlockingSection(c)
    /\ Exit(c, DomainLock(c))
    /\ caml_state' = [caml_state EXCEPT ![c] = "none"]
    /\ UNCHANGED <<pc, mtx, condVars, handling_stw, saved_state, back, queued,
                   leader, acquired>>

LeaveBlocking(c) ==
    /\ pc[c] = "run" /\ InBlockingSection(c)
    /\ Enter(c, DomainLock(c))
    /\ caml_state' = [caml_state EXCEPT ![c] = "domain"]
    /\ UNCHANGED <<pc, mtx, condVars, handling_stw, saved_state, back, queued,
                   leader, acquired>>

(* OCaml code reaches a safepoint and handles its interrupt there. *)
Safepoint(c) ==
    /\ pc[c] = "run" /\ ~InBlockingSection(c) /\ queued[c]
    /\ queued' = [queued EXCEPT ![c] = FALSE]
    /\ UNCHANGED <<pc, mtx, lockVars, condVars, handling_stw, caml_state,
                   saved_state, back, leader, acquired>>

(* A domain interrupts all the others, and spins until they have answered. *)
StwRequest(c) ==
    /\ pc[c] = "run" /\ ~InBlockingSection(c) /\ leader = NoCore
    /\ ~queued[c]
    /\ leader' = c
    /\ queued' = [d \in Cores |-> d /= c]
    /\ Goto(c, "lead")
    /\ UNCHANGED <<mtx, lockVars, condVars, handling_stw, caml_state,
                   saved_state, back, acquired>>

StwDone(c) ==
    /\ pc[c] = "lead"
    /\ \A d \in Cores : ~queued[d]
    /\ leader' = NoCore
    /\ Goto(c, "run")
    /\ UNCHANGED <<mtx, lockVars, condVars, handling_stw, caml_state,
                   saved_state, back, queued, acquired>>

-----------------------------------------------------------------------------
(* The steps a core takes by itself once a call has started. *)
CoreStep(c) ==
    \/ LockAcquire(c) \/ LockBusy(c)
    \/ CondRelease(c) \/ CondSleep(c) \/ CondSee(c) \/ CondWoken(c)
    \/ RelockAcquire(c) \/ RelockBusy(c)
    \/ StwEnter(c) \/ StwSkip(c) \/ StwExit(c)

Call(c) ==
    \/ \E m \in Mutexes :
          LockCall(c, m) \/ LockUnpooled(c, m) \/ Trylock(c, m) \/ Unlock(c, m)
    \/ \E v \in Conds : Signal(c, v) \/ Broadcast(c, v)
    \/ \E v \in Conds, m \in Mutexes : CondWait(c, v, m)
    \/ Write(c)

Runtime(c) ==
    \/ EnterBlocking(c) \/ LeaveBlocking(c) \/ Safepoint(c)
    \/ StwRequest(c) \/ StwDone(c)

Next == \E c \in Cores : CoreStep(c) \/ Call(c) \/ Runtime(c)

(* The loops of the code run on their own core.  Of the external runtime:  *)
(* OCaml code keeps meeting safepoints, and blocking sections end.         *)
Fairness ==
    \A c \in Cores :
        /\ WF_vars(CoreStep(c))
        /\ WF_vars(StwDone(c))
        /\ SF_vars(Safepoint(c))
        /\ SF_vars(LeaveBlocking(c))

Spec == Init /\ [][Next]_vars

FairSpec == Spec /\ Fairness

-----------------------------------------------------------------------------
(* Properties                                                              *)

(* The type of every variable. *)
TypeOK ==
    /\ pc \in [Cores -> PCs]
    /\ mtx \in [Cores -> Mutexes \cup {NoMutex}]
    /\ cv \in [Cores -> Conds \cup {NoCond}]
    /\ owner \in [Locks -> Cores \cup {NoCore}]
    /\ enter_count \in [Locks -> Nat]
    /\ held_counts \in [Cores -> [Locks -> Nat]]
    /\ waiters \in [Conds -> Nat]
    /\ generation \in [Conds -> Nat]
    /\ my_gen \in [Cores -> Nat]
    /\ loops \in [Cores -> Nat]
    /\ handling_stw \in [Cores -> BOOLEAN]
    /\ caml_state \in [Cores -> {"domain", "none"}]
    /\ saved_state \in [Cores -> {"domain", "none"}]
    /\ back \in [Cores -> {"lock", "cond", "relock", "run"}]
    /\ queued \in [Cores -> BOOLEAN]
    /\ leader \in Cores \cup {NoCore}
    /\ acquired \in [Cores -> [Mutexes -> Nat]]
    /\ signalled \in [Cores -> BOOLEAN]

(* No two cores have been told that they hold the same mutex, over lock,   *)
(* trylock, unlock, the release inside pthread_cond_wait and the re-       *)
(* acquisition after it; for mutexes that have a slot in mutex_storage.    *)
MutualExclusion ==
    \A m \in Pooled, c, d \in Cores :
        acquired[c][m] > 0 /\ acquired[d][m] > 0 => c = d

(* held_counts, from which core1_wrapper releases what a dying domain left *)
(* locked, is exactly the nesting the core has in each recursive mutex.    *)
TrackingAccurate ==
    \A c \in Cores, l \in Locks :
        held_counts[c][l] = IF owner[l] = c THEN enter_count[l] ELSE 0

(* waiters counts the registered waiters, so that a signal with somebody   *)
(* registered never takes the "nobody waits" branch.                       *)
WaitersAccurate ==
    \A v \in Conds : waiters[v] = Cardinality({c \in Cores : cv[c] = v})

(* A core that was signalled after it registered sees another generation   *)
(* than its my_gen until it has left the wait: the wakeup is not lost,     *)
(* although pthread_cond_wait drops the mutex between the two.             *)
NoLostWakeup ==
    \A c \in Cores :
        signalled[c] => cv[c] /= NoCond /\ generation[cv[c]] /= my_gen[c]

(* caml_state is the domain exactly while the core owns its domain lock,   *)
(* whatever polls, handlers and blocking sections it went through.         *)
CamlStateMatchesLock ==
    \A c \in Cores :
        caml_state[c] = "domain" <=> owner[DomainLock(c)] = c

(* The levels a core has of a mutex: a wait gives its level back when it   *)
(* registers, though the mutex is free only a step later.                  *)
Level(c, m) == acquired[c][m] - (IF pc[c] = "release" /\ mtx[c] = m THEN 1 ELSE 0)

Levels == [c \in Cores |-> [m \in Pooled |-> Level(c, m)]]

WaitSets == [v \in Conds |-> {c \in Cores : cv[c] = v /\ ~signalled[c]}]

Monitor == INSTANCE Monitors
    WITH Mutexes <- Pooled, depth <- Levels, waitset <- WaitSets

(* The callers see monitors, although a wait registers, gives the mutex    *)
(* back and looks at the generation in separate steps: nobody acquires a   *)
(* mutex that another has, and none comes back from a wait unsignalled.    *)
ImplementsMonitors == Monitor!Spec

(* A stop-the-world section ends although the other cores may be spinning  *)
(* for a mutex, even one the requesting core holds, or waiting on a        *)
(* condition variable that is never signalled, or printing.                *)
StwCompletes == \A c \in Cores : leader = c ~> leader /= c

(* A core signalled while it waits leaves the wait loop, also when a       *)
(* stop-the-world interrupt arrives at the same time.                      *)
WakeDelivered == \A c \in Cores : signalled[c] ~> cv[c] = NoCond

=============================================================================
