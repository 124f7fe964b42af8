-------------------------- MODULE PicoThreads_proofs --------------------------
(***************************************************************************)
(* Proofs about PicoThreads, for any number of cores, mutexes and          *)
(* condition variables, any full or partly used pool, and any value of the *)
(* polling constants.  The inductive invariant IInv has one part per       *)
(* concern: what a call's argument is at each label, what the domain lock  *)
(* and caml_state are, what held_counts and the callers believe, and what  *)
(* a registered waiter knows of its condition variable.                    *)
(***************************************************************************)
EXTENDS PicoThreads, FiniteSetTheorems, TLAPS

-----------------------------------------------------------------------------
(* The inductive invariant                                                 *)

(* The core is inside pthread_cond_wait, registered as a waiter. *)
Registered(c) ==
    \/ pc[c] \in {"release", "cond", "condpoll", "woken"}
    \/ pc[c] = "stw" /\ back[c] = "cond"

ArgumentInv ==
    \A c \in Cores :
        /\ pc[c] \in {"lock", "lockpoll", "relock", "relockpoll"} =>
               mtx[c] \in Pooled
        /\ pc[c] = "stw" /\ back[c] \in {"lock", "relock"} => mtx[c] \in Pooled
        /\ Registered(c) => mtx[c] \in Mutexes
        /\ pc[c] = "release" => acquired[c][mtx[c]] > 0

DomainInv ==
    \A c \in Cores :
        /\ owner[DomainLock(c)] \in {c, NoCore}
        /\ pc[c] = "stw" =>
              /\ caml_state[c] = "domain"
              /\ enter_count[DomainLock(c)] =
                     IF saved_state[c] = "domain" THEN 2 ELSE 1
        /\ pc[c] /= "stw" =>
              enter_count[DomainLock(c)] = IF caml_state[c] = "domain" THEN 1 ELSE 0

FreeInv == \A l \in Locks : owner[l] = NoCore <=> enter_count[l] = 0

BeliefInv ==
    \A c \in Cores, m \in Pooled : acquired[c][m] = held_counts[c][m]

WaitInv ==
    \A c \in Cores :
        /\ cv[c] /= NoCond <=> Registered(c)
        /\ cv[c] /= NoCond => my_gen[c] <= generation[cv[c]]
        /\ signalled[c] => cv[c] /= NoCond /\ my_gen[c] < generation[cv[c]]

LockInv == FreeInv /\ TrackingAccurate /\ BeliefInv

IInv == TypeOK /\ ArgumentInv /\ DomainInv /\ LockInv /\ WaitInv /\ WaitersAccurate

-----------------------------------------------------------------------------
(* Lemmas                                                                  *)

(* Domain locks are told apart by their core, and are no ordinary mutexes. *)
LEMMA DomainLockFacts ==
    /\ \A c, d \in Cores : DomainLock(c) = DomainLock(d) => c = d
    /\ \A c \in Cores : DomainLock(c) \in DomainLocks /\ DomainLock(c)[2] = c
    /\ \A c \in Cores : DomainLock(c) \in Locks /\ DomainLock(c) \notin Mutexes
    /\ \A m \in Mutexes : m \in Locks /\ m \notin DomainLocks
    /\ NoCore \notin Cores
<1>1. \A c, d \in Cores : DomainLock(c) = DomainLock(d) => c = d
  BY DEF DomainLock
<1>2. \A c \in Cores : DomainLock(c) \in DomainLocks /\ DomainLock(c)[2] = c
  BY DEF DomainLock, DomainLocks
<1> QED  BY <1>1, <1>2, ConstantsAssumption DEF Locks

(* A set of waiters that is not empty has a positive cardinality. *)
LEMMA SomebodyWaits ==
    ASSUME NEW c \in Cores, NEW v \in Conds, cv[c] = v
    PROVE  Cardinality({d \in Cores : cv[d] = v}) > 0
<1> DEFINE W == {d \in Cores : cv[d] = v}
<1>1. IsFiniteSet(W)
  BY FS_Subset, ConstantsAssumption
<1>2. W /= {}
  OBVIOUS
<1>3. Cardinality(W) \in Nat /\ Cardinality(W) /= 0
  BY <1>1, <1>2, FS_EmptySet, FS_CardinalityType
<1> QED  BY <1>3

(* A caller that believes it has a mutex with a slot is its owner. *)
LEMMA BelieverOwns ==
    ASSUME TypeOK, LockInv, NEW c \in Cores, NEW m \in Pooled, acquired[c][m] > 0
    PROVE  owner[m] = c /\ enter_count[m] = acquired[c][m]
BY DomainLockFacts, ConstantsAssumption DEF TypeOK, LockInv, TrackingAccurate, BeliefInv

LocksTyped ==
    /\ owner \in [Locks -> Cores \cup {NoCore}]
    /\ enter_count \in [Locks -> Nat]
    /\ held_counts \in [Cores -> [Locks -> Nat]]

(* Entering keeps the owner, the nesting and held_counts consistent. *)
LEMMA EnterKeeps ==
    ASSUME LocksTyped, FreeInv, TrackingAccurate,
           NEW c \in Cores, NEW l \in Locks, Enter(c, l)
    PROVE  LocksTyped' /\ FreeInv' /\ TrackingAccurate'
<1>1. LocksTyped'
  BY DEF LocksTyped, Enter
<1>2. FreeInv'
  BY DomainLockFacts DEF LocksTyped, FreeInv, Enter
<1>3. TrackingAccurate'
  BY DomainLockFacts DEF LocksTyped, FreeInv, TrackingAccurate, Enter, CanEnter
<1> QED  BY <1>1, <1>2, <1>3

(* So does leaving, for the owner. *)
LEMMA ExitKeeps ==
    ASSUME LocksTyped, FreeInv, TrackingAccurate,
           NEW c \in Cores, NEW l \in Locks, owner[l] = c, Exit(c, l)
    PROVE  LocksTyped' /\ FreeInv' /\ TrackingAccurate'
<1>1. enter_count[l] \in Nat /\ enter_count[l] > 0 /\ held_counts[c][l] = enter_count[l]
  BY DomainLockFacts DEF LocksTyped, FreeInv, TrackingAccurate
<1>2. /\ owner' = [owner EXCEPT ![l] = IF enter_count[l] = 1 THEN NoCore ELSE @]
      /\ enter_count' = [enter_count EXCEPT ![l] = @ - 1]
      /\ held_counts' = [held_counts EXCEPT ![c][l] = @ - 1]
  BY <1>1 DEF Exit, LocksTyped
<1>3. LocksTyped'
  BY <1>1, <1>2 DEF LocksTyped
<1>4. FreeInv'
  BY <1>1, <1>2, DomainLockFacts DEF LocksTyped, FreeInv
<1>5. TrackingAccurate'
  BY <1>1, <1>2, DomainLockFacts DEF LocksTyped, FreeInv, TrackingAccurate
<1> QED  BY <1>3, <1>4, <1>5

(* Steps that register and unregister nobody. *)
LEMMA WaitersFrame ==
    ASSUME WaitersAccurate, UNCHANGED <<cv, waiters>>
    PROVE  WaitersAccurate'
BY DEF WaitersAccurate

(* One core more, or one fewer, among those registered with v. *)
LEMMA RegisterOne ==
    ASSUME TypeOK, WaitersAccurate, NEW c \in Cores, NEW v \in Conds,
           cv[c] = NoCond,
           cv' = [cv EXCEPT ![c] = v],
           waiters' = [waiters EXCEPT ![v] = @ + 1]
    PROVE  WaitersAccurate'
<1> SUFFICES ASSUME NEW w \in Conds
             PROVE  waiters'[w] = Cardinality({d \in Cores : cv'[d] = w})
  BY DEF WaitersAccurate
<1> DEFINE W(u) == {d \in Cores : cv[d] = u}
<1>1. waiters[w] = Cardinality(W(w)) /\ IsFiniteSet(W(w))
  BY FS_Subset, ConstantsAssumption DEF WaitersAccurate
<1>2. CASE w = v
  <2>1. {d \in Cores : cv'[d] = w} = W(w) \cup {c} /\ c \notin W(w)
    BY <1>2, ConstantsAssumption DEF TypeOK
  <2>2. Cardinality(W(w) \cup {c}) = Cardinality(W(w)) + 1
    BY <1>1, <2>1, FS_AddElement
  <2> QED  BY <1>1, <1>2, <2>1, <2>2 DEF TypeOK
<1>3. CASE w /= v
  <2>1. {d \in Cores : cv'[d] = w} = W(w)
    BY <1>3, ConstantsAssumption DEF TypeOK
  <2> QED  BY <1>1, <1>3, <2>1 DEF TypeOK
<1> QED  BY <1>2, <1>3

LEMMA UnregisterOne ==
    ASSUME TypeOK, WaitersAccurate, NEW c \in Cores, NEW v \in Conds,
           cv[c] = v,
           cv' = [cv EXCEPT ![c] = NoCond],
           waiters' = [waiters EXCEPT ![v] = @ - 1]
    PROVE  WaitersAccurate' /\ waiters' \in [Conds -> Nat]
<1> DEFINE W(u) == {d \in Cores : cv[d] = u}
<1>1. \A w \in Conds : waiters[w] = Cardinality(W(w)) /\ IsFiniteSet(W(w))
  BY FS_Subset, ConstantsAssumption DEF WaitersAccurate
<1>2. waiters[v] > 0
  BY <1>1, SomebodyWaits
<1>3. waiters' \in [Conds -> Nat]
  BY <1>2 DEF TypeOK
<1>4. ASSUME NEW w \in Conds
      PROVE  waiters'[w] = Cardinality({d \in Cores : cv'[d] = w})
  <2>1. CASE w = v
    <3>1. {d \in Cores : cv'[d] = w} = W(w) \ {c} /\ c \in W(w)
      BY <2>1, ConstantsAssumption DEF TypeOK
    <3>2. Cardinality(W(w) \ {c}) = Cardinality(W(w)) - 1
      BY <1>1, <3>1, FS_RemoveElement
    <3> QED  BY <1>1, <2>1, <3>1, <3>2 DEF TypeOK
  <2>2. CASE w /= v
    <3>1. {d \in Cores : cv'[d] = w} = W(w)
      BY <2>2, ConstantsAssumption DEF TypeOK
    <3> QED  BY <1>1, <2>2, <3>1 DEF TypeOK
  <2> QED  BY <2>1, <2>2
<1> QED  BY <1>3, <1>4 DEF WaitersAccurate

(* Starting a lock, taking nothing yet. *)
LEMMA LockCallKeeps ==
    ASSUME IInv, NEW c \in Cores, NEW m \in Mutexes, LockCall(c, m)
    PROVE  IInv'
<1>1. TypeOK /\ ArgumentInv /\ DomainInv /\ LockInv /\ WaitInv /\ WaitersAccurate
  BY DEF IInv
<1>2. TypeOK'
  BY <1>1, ConstantsAssumption DEF LockCall, Goto, lockVars, condVars, stwVars, TypeOK, PCs, Polling
<1>3. ArgumentInv'
  BY <1>1, ConstantsAssumption DEF LockCall, Goto, lockVars, condVars, stwVars, TypeOK, ArgumentInv, Registered
<1>4. DomainInv'
  BY <1>1 DEF LockCall, Goto, lockVars, condVars, stwVars, TypeOK, DomainInv
<1>5. LockInv'
  BY <1>1, ConstantsAssumption DEF LockCall, Goto, lockVars, condVars, stwVars, FreeInv, TrackingAccurate, LockInv, BeliefInv, TypeOK
<1>6. WaitInv'
  BY <1>1, ConstantsAssumption DEF LockCall, Goto, lockVars, condVars, stwVars, TypeOK, WaitInv, Registered
<1>7. WaitersAccurate'
  BY <1>1, WaitersFrame DEF LockCall, condVars
<1> QED  BY <1>2, <1>3, <1>4, <1>5, <1>6, <1>7 DEF IInv

(* A lock of a mutex without a slot changes only what its caller believes. *)
LEMMA LockUnpooledKeeps ==
    ASSUME IInv, NEW c \in Cores, NEW m \in Mutexes, LockUnpooled(c, m)
    PROVE  IInv'
<1>1. TypeOK /\ ArgumentInv /\ DomainInv /\ LockInv /\ WaitInv /\ WaitersAccurate
  BY DEF IInv
<1>2. TypeOK'
  BY <1>1, ConstantsAssumption DEF LockUnpooled, lockVars, condVars, stwVars, TypeOK, PCs, Polling
<1>3. ArgumentInv'
  BY <1>1, ConstantsAssumption DEF LockUnpooled, lockVars, condVars, stwVars, TypeOK, ArgumentInv, Registered
<1>4. DomainInv'
  BY <1>1 DEF LockUnpooled, lockVars, condVars, stwVars, TypeOK, DomainInv
<1>5. LockInv'
  BY <1>1, ConstantsAssumption DEF LockUnpooled, lockVars, condVars, stwVars, FreeInv, TrackingAccurate, LockInv, BeliefInv, TypeOK
<1>6. WaitInv'
  BY <1>1, ConstantsAssumption DEF LockUnpooled, lockVars, condVars, stwVars, TypeOK, WaitInv, Registered
<1>7. WaitersAccurate'
  BY <1>1, WaitersFrame DEF LockUnpooled, condVars
<1> QED  BY <1>2, <1>3, <1>4, <1>5, <1>6, <1>7 DEF IInv

(* The lock loop gets the mutex. *)
LEMMA LockAcquireKeeps ==
    ASSUME IInv, NEW c \in Cores, LockAcquire(c)
    PROVE  IInv'
<1>1. TypeOK /\ ArgumentInv /\ DomainInv /\ LockInv /\ WaitInv /\ WaitersAccurate
  BY DEF IInv
<1>2. mtx[c] \in Pooled /\ mtx[c] \in Mutexes
  BY <1>1, ConstantsAssumption DEF LockAcquire, ArgumentInv
<1>3. LocksTyped' /\ FreeInv' /\ TrackingAccurate'
  BY <1>1, <1>2, EnterKeeps, DomainLockFacts, ConstantsAssumption DEF LockAcquire, TypeOK, LocksTyped, LockInv
<1>4. TypeOK'
  BY <1>1, <1>2, <1>3, DomainLockFacts, ConstantsAssumption DEF LockAcquire, Goto, condVars, stwVars, LocksTyped, TypeOK, PCs, Polling
<1>5. ArgumentInv'
  BY <1>1, <1>2, <1>3, ConstantsAssumption DEF LockAcquire, Goto, condVars, stwVars, TypeOK, ArgumentInv, Registered
<1>6. DomainInv'
  BY <1>1, <1>2, <1>3, DomainLockFacts, ConstantsAssumption DEF LockAcquire, Goto, condVars, stwVars, Enter, CanEnter, TypeOK, DomainInv
<1>7. LockInv'
  BY <1>1, <1>2, <1>3, DomainLockFacts, ConstantsAssumption DEF LockAcquire, Goto, condVars, stwVars, Enter, TrackingAccurate, LockInv, BeliefInv, TypeOK
<1>8. WaitInv'
  BY <1>1, <1>2, <1>3, ConstantsAssumption DEF LockAcquire, Goto, condVars, stwVars, TypeOK, WaitInv, Registered
<1>9. WaitersAccurate'
  BY <1>1, WaitersFrame DEF LockAcquire, condVars
<1> QED  BY <1>4, <1>5, <1>6, <1>7, <1>8, <1>9 DEF IInv

(* The lock loop finds the mutex taken and goes to poll. *)
LEMMA LockBusyKeeps ==
    ASSUME IInv, NEW c \in Cores, LockBusy(c)
    PROVE  IInv'
<1>1. TypeOK /\ ArgumentInv /\ DomainInv /\ LockInv /\ WaitInv /\ WaitersAccurate
  BY DEF IInv
<1>2. TypeOK'
  BY <1>1, ConstantsAssumption DEF LockBusy, Goto, lockVars, condVars, stwVars, TypeOK, PCs, Polling
<1>3. ArgumentInv'
  BY <1>1, ConstantsAssumption DEF LockBusy, Goto, lockVars, condVars, stwVars, TypeOK, ArgumentInv, Registered
<1>4. DomainInv'
  BY <1>1 DEF LockBusy, Goto, lockVars, condVars, stwVars, TypeOK, DomainInv
<1>5. LockInv'
  BY <1>1, ConstantsAssumption DEF LockBusy, Goto, lockVars, condVars, stwVars, FreeInv, TrackingAccurate, LockInv, BeliefInv, TypeOK
<1>6. WaitInv'
  BY <1>1, ConstantsAssumption DEF LockBusy, Goto, lockVars, condVars, stwVars, TypeOK, WaitInv, Registered
<1>7. WaitersAccurate'
  BY <1>1, WaitersFrame DEF LockBusy, condVars
<1> QED  BY <1>2, <1>3, <1>4, <1>5, <1>6, <1>7 DEF IInv

(* A trylock that succeeds. *)
LEMMA TrylockKeeps ==
    ASSUME IInv, NEW c \in Cores, NEW m \in Mutexes, Trylock(c, m)
    PROVE  IInv'
<1>1. TypeOK /\ ArgumentInv /\ DomainInv /\ LockInv /\ WaitInv /\ WaitersAccurate
  BY DEF IInv
<1>2. LocksTyped' /\ FreeInv' /\ TrackingAccurate'
  BY <1>1, EnterKeeps, DomainLockFacts, ConstantsAssumption DEF Trylock, TypeOK, LocksTyped, LockInv
<1>3. TypeOK'
  BY <1>1, <1>2, DomainLockFacts, ConstantsAssumption DEF Trylock, condVars, stwVars, LocksTyped, TypeOK, PCs, Polling
<1>4. ArgumentInv'
  BY <1>1, <1>2, ConstantsAssumption DEF Trylock, condVars, stwVars, TypeOK, ArgumentInv, Registered
<1>5. DomainInv'
  BY <1>1, <1>2, DomainLockFacts, ConstantsAssumption DEF Trylock, condVars, stwVars, Enter, CanEnter, TypeOK, DomainInv
<1>6. LockInv'
  BY <1>1, <1>2, DomainLockFacts, ConstantsAssumption DEF Trylock, condVars, stwVars, Enter, TrackingAccurate, LockInv, BeliefInv, TypeOK
<1>7. WaitInv'
  BY <1>1, <1>2, ConstantsAssumption DEF Trylock, condVars, stwVars, TypeOK, WaitInv, Registered
<1>8. WaitersAccurate'
  BY <1>1, WaitersFrame DEF Trylock, condVars
<1> QED  BY <1>3, <1>4, <1>5, <1>6, <1>7, <1>8 DEF IInv

(* An unlock by a core that was told it holds the mutex. *)
LEMMA UnlockKeeps ==
    ASSUME IInv, NEW c \in Cores, NEW m \in Mutexes, Unlock(c, m)
    PROVE  IInv'
<1>1. TypeOK /\ ArgumentInv /\ DomainInv /\ LockInv /\ WaitInv /\ WaitersAccurate
  BY DEF IInv
<1>2. LocksTyped' /\ FreeInv' /\ TrackingAccurate'
  <2>1. CASE m \in Pooled
    BY <1>1, <2>1, BelieverOwns, ExitKeeps, DomainLockFacts DEF Unlock, TypeOK, LocksTyped, LockInv
  <2>2. CASE m \notin Pooled
    BY <1>1, <2>2 DEF Unlock, lockVars, TypeOK, LocksTyped, LockInv, FreeInv, TrackingAccurate
  <2> QED  BY <2>1, <2>2
<1>3. TypeOK'
  BY <1>1, <1>2, DomainLockFacts, ConstantsAssumption DEF Unlock, lockVars, condVars, stwVars, LocksTyped, TypeOK, PCs, Polling
<1>4. ArgumentInv'
  BY <1>1, <1>2, ConstantsAssumption DEF Unlock, lockVars, condVars, stwVars, TypeOK, ArgumentInv, Registered
<1>5. DomainInv'
  BY <1>1, <1>2, DomainLockFacts, ConstantsAssumption DEF Unlock, lockVars, condVars, stwVars, Exit, TypeOK, DomainInv
<1>6. LockInv'
  BY <1>1, <1>2, DomainLockFacts, ConstantsAssumption DEF Unlock, lockVars, condVars, stwVars, Exit, TrackingAccurate, LockInv, BeliefInv, TypeOK
<1>7. WaitInv'
  BY <1>1, <1>2, ConstantsAssumption DEF Unlock, lockVars, condVars, stwVars, TypeOK, WaitInv, Registered
<1>8. WaitersAccurate'
  BY <1>1, WaitersFrame DEF Unlock, condVars
<1> QED  BY <1>3, <1>4, <1>5, <1>6, <1>7, <1>8 DEF IInv

(* Registering as a waiter. *)
LEMMA CondWaitKeeps ==
    ASSUME IInv, NEW c \in Cores, NEW v \in Conds, NEW m \in Mutexes, CondWait(c, v, m)
    PROVE  IInv'
<1>1. TypeOK /\ ArgumentInv /\ DomainInv /\ LockInv /\ WaitInv /\ WaitersAccurate
  BY DEF IInv
<1>2. TypeOK'
  BY <1>1, ConstantsAssumption DEF CondWait, CountWaiter, Goto, lockVars, stwVars, TypeOK, PCs, Polling
<1>3. ArgumentInv'
  BY <1>1, ConstantsAssumption DEF CondWait, CountWaiter, Goto, lockVars, stwVars, TypeOK, ArgumentInv, Registered
<1>4. DomainInv'
  BY <1>1 DEF CondWait, CountWaiter, Goto, lockVars, stwVars, TypeOK, DomainInv
<1>5. LockInv'
  BY <1>1, ConstantsAssumption DEF CondWait, CountWaiter, Goto, lockVars, stwVars, FreeInv, TrackingAccurate, LockInv, BeliefInv, TypeOK
<1>6. WaitInv'
  BY <1>1, ConstantsAssumption DEF CondWait, CountWaiter, Goto, lockVars, stwVars, TypeOK, WaitInv, Registered
<1>7. WaitersAccurate'
  BY <1>1, RegisterOne DEF CondWait, CountWaiter, WaitInv, Registered
<1> QED  BY <1>2, <1>3, <1>4, <1>5, <1>6, <1>7 DEF IInv

(* A registered waiter lets go of the mutex. *)
LEMMA CondReleaseKeeps ==
    ASSUME IInv, NEW c \in Cores, CondRelease(c)
    PROVE  IInv'
<1>1. TypeOK /\ ArgumentInv /\ DomainInv /\ LockInv /\ WaitInv /\ WaitersAccurate
  BY DEF IInv
<1>2. mtx[c] \in Mutexes /\ acquired[c][mtx[c]] > 0
  BY <1>1 DEF CondRelease, ArgumentInv, Registered
<1>3. LocksTyped' /\ FreeInv' /\ TrackingAccurate'
  <2>1. CASE mtx[c] \in Pooled
    BY <1>1, <1>2, <2>1, BelieverOwns, ExitKeeps, DomainLockFacts DEF CondRelease, TypeOK, LocksTyped, LockInv
  <2>2. CASE mtx[c] \notin Pooled
    BY <1>1, <1>2, <2>2 DEF CondRelease, lockVars, TypeOK, LocksTyped, LockInv, FreeInv, TrackingAccurate
  <2> QED  BY <2>1, <2>2
<1>4. TypeOK'
  BY <1>1, <1>2, <1>3, DomainLockFacts, ConstantsAssumption DEF CondRelease, Goto, lockVars, condVars, stwVars, LocksTyped, TypeOK, PCs, Polling
<1>5. ArgumentInv'
  BY <1>1, <1>2, <1>3, ConstantsAssumption DEF CondRelease, Goto, lockVars, condVars, stwVars, TypeOK, ArgumentInv, Registered
<1>6. DomainInv'
  BY <1>1, <1>2, <1>3, DomainLockFacts, ConstantsAssumption DEF CondRelease, Goto, lockVars, condVars, stwVars, Exit, TypeOK, DomainInv
<1>7. LockInv'
  BY <1>1, <1>2, <1>3, DomainLockFacts, ConstantsAssumption DEF CondRelease, Goto, lockVars, condVars, stwVars, Exit, TrackingAccurate, LockInv, BeliefInv, TypeOK
<1>8. WaitInv'
  BY <1>1, <1>2, <1>3, ConstantsAssumption DEF CondRelease, Goto, lockVars, condVars, stwVars, TypeOK, WaitInv, Registered
<1>9. WaitersAccurate'
  BY <1>1, WaitersFrame DEF CondRelease, condVars
<1> QED  BY <1>4, <1>5, <1>6, <1>7, <1>8, <1>9 DEF IInv

(* A turn of the wait loop. *)
LEMMA CondSleepKeeps ==
    ASSUME IInv, NEW c \in Cores, CondSleep(c)
    PROVE  IInv'
<1>1. TypeOK /\ ArgumentInv /\ DomainInv /\ LockInv /\ WaitInv /\ WaitersAccurate
  BY DEF IInv
<1>2. TypeOK'
  BY <1>1, ConstantsAssumption DEF CondSleep, Goto, lockVars, stwVars, TypeOK, PCs, Polling
<1>3. ArgumentInv'
  BY <1>1, ConstantsAssumption DEF CondSleep, Goto, lockVars, stwVars, TypeOK, ArgumentInv, Registered
<1>4. DomainInv'
  BY <1>1 DEF CondSleep, Goto, lockVars, stwVars, TypeOK, DomainInv
<1>5. LockInv'
  BY <1>1, ConstantsAssumption DEF CondSleep, Goto, lockVars, stwVars, FreeInv, TrackingAccurate, LockInv, BeliefInv, TypeOK
<1>6. WaitInv'
  BY <1>1, ConstantsAssumption DEF CondSleep, Goto, lockVars, stwVars, TypeOK, WaitInv, Registered
<1>7. WaitersAccurate'
  BY <1>1, WaitersFrame DEF CondSleep
<1> QED  BY <1>2, <1>3, <1>4, <1>5, <1>6, <1>7 DEF IInv

(* A waiter sees a new generation. *)
LEMMA CondSeeKeeps ==
    ASSUME IInv, NEW c \in Cores, CondSee(c)
    PROVE  IInv'
<1>1. TypeOK /\ ArgumentInv /\ DomainInv /\ LockInv /\ WaitInv /\ WaitersAccurate
  BY DEF IInv
<1>2. TypeOK'
  BY <1>1, ConstantsAssumption DEF CondSee, Goto, lockVars, condVars, stwVars, TypeOK, PCs, Polling
<1>3. ArgumentInv'
  BY <1>1, ConstantsAssumption DEF CondSee, Goto, lockVars, condVars, stwVars, TypeOK, ArgumentInv, Registered
<1>4. DomainInv'
  BY <1>1 DEF CondSee, Goto, lockVars, condVars, stwVars, TypeOK, DomainInv
<1>5. LockInv'
  BY <1>1, ConstantsAssumption DEF CondSee, Goto, lockVars, condVars, stwVars, FreeInv, TrackingAccurate, LockInv, BeliefInv, TypeOK
<1>6. WaitInv'
  BY <1>1, ConstantsAssumption DEF CondSee, Goto, lockVars, condVars, stwVars, TypeOK, WaitInv, Registered
<1>7. WaitersAccurate'
  BY <1>1, WaitersFrame DEF CondSee, condVars
<1> QED  BY <1>2, <1>3, <1>4, <1>5, <1>6, <1>7 DEF IInv

(* A waiter unregisters. *)
LEMMA CondWokenKeeps ==
    ASSUME IInv, NEW c \in Cores, CondWoken(c)
    PROVE  IInv'
<1>1. TypeOK /\ ArgumentInv /\ DomainInv /\ LockInv /\ WaitInv /\ WaitersAccurate
  BY DEF IInv
<1>2. waiters' \in [Conds -> Nat] /\ WaitersAccurate'
  <2>1. cv[c] \in Conds
    BY <1>1 DEF CondWoken, TypeOK, WaitInv, Registered
  <2> QED  BY <1>1, <2>1, UnregisterOne DEF CondWoken, UncountWaiter
<1>3. TypeOK'
  <2>1. mtx[c] \in Mutexes
    BY <1>1 DEF CondWoken, ArgumentInv, Registered
  <2>2. acquired' \in [Cores -> [Mutexes -> Nat]]
    <3>1. CASE mtx[c] \in Pooled
      BY <1>1, <3>1 DEF CondWoken, TypeOK
    <3>2. CASE mtx[c] \notin Pooled
      <4>1. acquired' = [acquired EXCEPT ![c][mtx[c]] = @ + 1]
        BY <3>2 DEF CondWoken
      <4>2. acquired \in [Cores -> [Mutexes -> Nat]]
        BY <1>1 DEF TypeOK
      <4> QED  BY <2>1, <4>1, <4>2
    <3> QED  BY <3>1, <3>2
  <2> QED
    BY <1>1, <1>2, <2>2 DEF CondWoken, Goto, lockVars, stwVars, TypeOK, PCs, Polling
<1>4. ArgumentInv'
  BY <1>1, <1>2, ConstantsAssumption DEF CondWoken, Goto, lockVars, stwVars, TypeOK, ArgumentInv, Registered
<1>5. DomainInv'
  BY <1>1, <1>2 DEF CondWoken, Goto, lockVars, stwVars, TypeOK, DomainInv
<1>6. LockInv'
  <2>1. mtx[c] \in Mutexes
    BY <1>1 DEF CondWoken, ArgumentInv, Registered
  <2>2. BeliefInv'
    <3>1. \A d \in Cores, m \in Pooled : acquired'[d][m] = acquired[d][m]
      <4>1. CASE mtx[c] \in Pooled
        BY <4>1 DEF CondWoken
      <4>2. CASE mtx[c] \notin Pooled
        <5>1. acquired' = [acquired EXCEPT ![c][mtx[c]] = @ + 1]
          BY <4>2 DEF CondWoken
        <5>2. acquired \in [Cores -> [Mutexes -> Nat]]
          BY <1>1 DEF TypeOK
        <5> QED  BY <4>2, <5>1, <5>2, ConstantsAssumption
      <4> QED  BY <4>1, <4>2
    <3> QED  BY <1>1, <3>1 DEF CondWoken, lockVars, LockInv, BeliefInv
  <2> QED
    BY <1>1, <2>2 DEF CondWoken, lockVars, LockInv, FreeInv, TrackingAccurate
<1>7. WaitInv'
  BY <1>1, <1>2, ConstantsAssumption DEF CondWoken, Goto, lockVars, stwVars, TypeOK, WaitInv, Registered
<1> QED  BY <1>3, <1>4, <1>5, <1>6, <1>7, <1>2 DEF IInv

(* A woken waiter gets its mutex back. *)
LEMMA RelockAcquireKeeps ==
    ASSUME IInv, NEW c \in Cores, RelockAcquire(c)
    PROVE  IInv'
<1>1. TypeOK /\ ArgumentInv /\ DomainInv /\ LockInv /\ WaitInv /\ WaitersAccurate
  BY DEF IInv
<1>2. mtx[c] \in Pooled /\ mtx[c] \in Mutexes
  BY <1>1, ConstantsAssumption DEF RelockAcquire, ArgumentInv
<1>3. LocksTyped' /\ FreeInv' /\ TrackingAccurate'
  BY <1>1, <1>2, EnterKeeps, DomainLockFacts, ConstantsAssumption DEF RelockAcquire, TypeOK, LocksTyped, LockInv
<1>4. TypeOK'
  BY <1>1, <1>2, <1>3, DomainLockFacts, ConstantsAssumption DEF RelockAcquire, Goto, condVars, stwVars, LocksTyped, TypeOK, PCs, Polling
<1>5. ArgumentInv'
  BY <1>1, <1>2, <1>3, ConstantsAssumption DEF RelockAcquire, Goto, condVars, stwVars, TypeOK, ArgumentInv, Registered
<1>6. DomainInv'
  BY <1>1, <1>2, <1>3, DomainLockFacts, ConstantsAssumption DEF RelockAcquire, Goto, condVars, stwVars, Enter, CanEnter, TypeOK, DomainInv
<1>7. LockInv'
  BY <1>1, <1>2, <1>3, DomainLockFacts, ConstantsAssumption DEF RelockAcquire, Goto, condVars, stwVars, Enter, TrackingAccurate, LockInv, BeliefInv, TypeOK
<1>8. WaitInv'
  BY <1>1, <1>2, <1>3, ConstantsAssumption DEF RelockAcquire, Goto, condVars, stwVars, TypeOK, WaitInv, Registered
<1>9. WaitersAccurate'
  BY <1>1, WaitersFrame DEF RelockAcquire, condVars
<1> QED  BY <1>4, <1>5, <1>6, <1>7, <1>8, <1>9 DEF IInv

(* A woken waiter finds its mutex taken. *)
LEMMA RelockBusyKeeps ==
    ASSUME IInv, NEW c \in Cores, RelockBusy(c)
    PROVE  IInv'
<1>1. TypeOK /\ ArgumentInv /\ DomainInv /\ LockInv /\ WaitInv /\ WaitersAccurate
  BY DEF IInv
<1>2. TypeOK'
  BY <1>1, ConstantsAssumption DEF RelockBusy, Goto, lockVars, condVars, stwVars, TypeOK, PCs, Polling
<1>3. ArgumentInv'
  BY <1>1, ConstantsAssumption DEF RelockBusy, Goto, lockVars, condVars, stwVars, TypeOK, ArgumentInv, Registered
<1>4. DomainInv'
  BY <1>1 DEF RelockBusy, Goto, lockVars, condVars, stwVars, TypeOK, DomainInv
<1>5. LockInv'
  BY <1>1, ConstantsAssumption DEF RelockBusy, Goto, lockVars, condVars, stwVars, FreeInv, TrackingAccurate, LockInv, BeliefInv, TypeOK
<1>6. WaitInv'
  BY <1>1, ConstantsAssumption DEF RelockBusy, Goto, lockVars, condVars, stwVars, TypeOK, WaitInv, Registered
<1>7. WaitersAccurate'
  BY <1>1, WaitersFrame DEF RelockBusy, condVars
<1> QED  BY <1>2, <1>3, <1>4, <1>5, <1>6, <1>7 DEF IInv

(* A signal reaches everybody who is registered. *)
LEMMA SignalKeeps ==
    ASSUME IInv, NEW c \in Cores, NEW v \in Conds, Signal(c, v)
    PROVE  IInv'
<1>1. TypeOK /\ ArgumentInv /\ DomainInv /\ LockInv /\ WaitInv /\ WaitersAccurate
  BY DEF IInv
<1>2. TypeOK'
  BY <1>1, ConstantsAssumption DEF Signal, GenerationAfterSignal, lockVars, stwVars, MarkSignalled, TypeOK, PCs, Polling
<1>3. ArgumentInv'
  BY <1>1, ConstantsAssumption DEF Signal, GenerationAfterSignal, lockVars, stwVars, MarkSignalled, TypeOK, ArgumentInv, Registered
<1>4. DomainInv'
  BY <1>1 DEF Signal, GenerationAfterSignal, lockVars, stwVars, MarkSignalled, TypeOK, DomainInv
<1>5. LockInv'
  BY <1>1, ConstantsAssumption DEF Signal, GenerationAfterSignal, lockVars, stwVars, MarkSignalled, FreeInv, TrackingAccurate, LockInv, BeliefInv, TypeOK
<1>6. WaitInv'
  <2>1. \A d \in Cores : cv[d] = v => waiters[v] > 0
    BY <1>1, SomebodyWaits DEF WaitersAccurate
  <2>2. \A d \in Cores : cv[d] = v => generation'[v] = generation[v] + 1
    BY <1>1, <2>1 DEF Signal, GenerationAfterSignal, TypeOK
  <2>3. \A w \in Conds : generation[w] \in Nat /\ generation'[w] \in Nat
                            /\ generation'[w] >= generation[w]
    BY <1>1, <1>2 DEF Signal, GenerationAfterSignal, TypeOK
  <2> QED
    BY <1>1, <2>2, <2>3, ConstantsAssumption
       DEF Signal, GenerationAfterSignal, stwVars, MarkSignalled, TypeOK, WaitInv, Registered
<1>7. WaitersAccurate'
  BY <1>1, WaitersFrame DEF Signal, GenerationAfterSignal
<1> QED  BY <1>2, <1>3, <1>4, <1>5, <1>6, <1>7 DEF IInv

(* A broadcast too. *)
LEMMA BroadcastKeeps ==
    ASSUME IInv, NEW c \in Cores, NEW v \in Conds, Broadcast(c, v)
    PROVE  IInv'
<1>1. TypeOK /\ ArgumentInv /\ DomainInv /\ LockInv /\ WaitInv /\ WaitersAccurate
  BY DEF IInv
<1>2. TypeOK'
  BY <1>1, ConstantsAssumption DEF Broadcast, lockVars, stwVars, MarkSignalled, TypeOK, PCs, Polling
<1>3. ArgumentInv'
  BY <1>1, ConstantsAssumption DEF Broadcast, lockVars, stwVars, MarkSignalled, TypeOK, ArgumentInv, Registered
<1>4. DomainInv'
  BY <1>1 DEF Broadcast, lockVars, stwVars, MarkSignalled, TypeOK, DomainInv
<1>5. LockInv'
  BY <1>1, ConstantsAssumption DEF Broadcast, lockVars, stwVars, MarkSignalled, FreeInv, TrackingAccurate, LockInv, BeliefInv, TypeOK
<1>6. WaitInv'
  BY <1>1, ConstantsAssumption DEF Broadcast, lockVars, stwVars, MarkSignalled, TypeOK, WaitInv, Registered
<1>7. WaitersAccurate'
  BY <1>1, WaitersFrame DEF Broadcast
<1> QED  BY <1>2, <1>3, <1>4, <1>5, <1>6, <1>7 DEF IInv

(* A poll takes the domain lock, a second time if the core had it. *)
LEMMA StwEnterKeeps ==
    ASSUME IInv, NEW c \in Cores, StwEnter(c)
    PROVE  IInv'
<1>1. TypeOK /\ ArgumentInv /\ DomainInv /\ LockInv /\ WaitInv /\ WaitersAccurate
  BY DEF IInv
<1>2. LocksTyped' /\ FreeInv' /\ TrackingAccurate'
  BY <1>1, EnterKeeps, DomainLockFacts, ConstantsAssumption DEF StwEnter, TypeOK, LocksTyped, LockInv
<1>3. TypeOK'
  BY <1>1, <1>2, DomainLockFacts, ConstantsAssumption DEF StwEnter, Goto, condVars, AfterPoll, Polling, LocksTyped, TypeOK, PCs
<1>4. ArgumentInv'
  BY <1>1, <1>2, ConstantsAssumption DEF StwEnter, Goto, condVars, AfterPoll, Polling, TypeOK, ArgumentInv, Registered
<1>5. DomainInv'
  BY <1>1, <1>2, DomainLockFacts, ConstantsAssumption DEF StwEnter, Goto, condVars, AfterPoll, Polling, Enter, CanEnter, TypeOK, DomainInv
<1>6. LockInv'
  BY <1>1, <1>2, DomainLockFacts, ConstantsAssumption DEF StwEnter, Goto, condVars, AfterPoll, Polling, Enter, TrackingAccurate, LockInv, BeliefInv, TypeOK
<1>7. WaitInv'
  BY <1>1, <1>2, ConstantsAssumption DEF StwEnter, Goto, condVars, AfterPoll, Polling, TypeOK, WaitInv, Registered
<1>8. WaitersAccurate'
  BY <1>1, WaitersFrame DEF StwEnter, condVars
<1> QED  BY <1>3, <1>4, <1>5, <1>6, <1>7, <1>8 DEF IInv

(* A poll that finds nothing to do. *)
LEMMA StwSkipKeeps ==
    ASSUME IInv, NEW c \in Cores, StwSkip(c)
    PROVE  IInv'
<1>1. TypeOK /\ ArgumentInv /\ DomainInv /\ LockInv /\ WaitInv /\ WaitersAccurate
  BY DEF IInv
<1>2. TypeOK'
  BY <1>1, ConstantsAssumption DEF StwSkip, Goto, lockVars, condVars, stwVars, AfterPoll, Polling, TypeOK, PCs
<1>3. ArgumentInv'
  BY <1>1, ConstantsAssumption DEF StwSkip, Goto, lockVars, condVars, stwVars, AfterPoll, Polling, TypeOK, ArgumentInv, Registered
<1>4. DomainInv'
  BY <1>1 DEF StwSkip, Goto, lockVars, condVars, stwVars, AfterPoll, Polling, TypeOK, DomainInv
<1>5. LockInv'
  BY <1>1, ConstantsAssumption DEF StwSkip, Goto, lockVars, condVars, stwVars, AfterPoll, Polling, FreeInv, TrackingAccurate, LockInv, BeliefInv, TypeOK
<1>6. WaitInv'
  BY <1>1, ConstantsAssumption DEF StwSkip, Goto, lockVars, condVars, stwVars, AfterPoll, Polling, TypeOK, WaitInv, Registered
<1>7. WaitersAccurate'
  BY <1>1, WaitersFrame DEF StwSkip, condVars
<1> QED  BY <1>2, <1>3, <1>4, <1>5, <1>6, <1>7 DEF IInv

(* The end of the handler undoes what the poll did. *)
LEMMA StwExitKeeps ==
    ASSUME IInv, NEW c \in Cores, StwExit(c)
    PROVE  IInv'
<1>1. TypeOK /\ ArgumentInv /\ DomainInv /\ LockInv /\ WaitInv /\ WaitersAccurate
  BY DEF IInv
<1>2. owner[DomainLock(c)] = c
  <2>1. enter_count[DomainLock(c)] /= 0
    BY <1>1 DEF StwExit, StateToRestore, DomainInv
  <2> QED
    BY <1>1, <2>1, DomainLockFacts DEF DomainInv, LockInv, FreeInv
<1>3. LocksTyped' /\ FreeInv' /\ TrackingAccurate'
  BY <1>1, <1>2, ExitKeeps, DomainLockFacts DEF StwExit, StateToRestore, TypeOK, LocksTyped, LockInv
<1>4. TypeOK'
  BY <1>1, <1>2, <1>3, DomainLockFacts, ConstantsAssumption DEF StwExit, StateToRestore, Goto, condVars, LocksTyped, TypeOK, PCs, Polling
<1>5. ArgumentInv'
  BY <1>1, <1>2, <1>3, ConstantsAssumption DEF StwExit, StateToRestore, Goto, condVars, TypeOK, ArgumentInv, Registered
<1>6. DomainInv'
  <2>1. /\ saved_state[c] \in {"domain", "none"}
        /\ enter_count[DomainLock(c)] = IF saved_state[c] = "domain" THEN 2 ELSE 1
    BY <1>1 DEF StwExit, StateToRestore, TypeOK, DomainInv
  <2>2. /\ enter_count'[DomainLock(c)] = IF caml_state'[c] = "domain" THEN 1 ELSE 0
        /\ owner'[DomainLock(c)] \in {c, NoCore}
    BY <1>1, <1>2, <2>1, DomainLockFacts DEF StwExit, StateToRestore, Exit, TypeOK
  <2>3. pc'[c] /= "stw"
    BY <1>1 DEF StwExit, StateToRestore, Goto, TypeOK
  <2>4. \A d \in Cores \ {c} :
          /\ pc'[d] = pc[d] /\ caml_state'[d] = caml_state[d]
          /\ saved_state'[d] = saved_state[d]
          /\ owner'[DomainLock(d)] = owner[DomainLock(d)]
          /\ enter_count'[DomainLock(d)] = enter_count[DomainLock(d)]
    BY <1>1, DomainLockFacts DEF StwExit, StateToRestore, Goto, Exit, TypeOK
  <2> QED
    BY <1>1, <2>2, <2>3, <2>4 DEF DomainInv
<1>7. LockInv'
  BY <1>1, <1>2, <1>3, DomainLockFacts, ConstantsAssumption DEF StwExit, StateToRestore, Goto, condVars, Exit, TrackingAccurate, LockInv, BeliefInv, TypeOK
<1>8. WaitInv'
  BY <1>1, <1>2, <1>3, ConstantsAssumption DEF StwExit, StateToRestore, Goto, condVars, TypeOK, WaitInv, Registered
<1>9. WaitersAccurate'
  BY <1>1, WaitersFrame DEF StwExit, StateToRestore, condVars
<1> QED  BY <1>4, <1>5, <1>6, <1>7, <1>8, <1>9 DEF IInv

(* Starting to print. *)
LEMMA WriteKeeps ==
    ASSUME IInv, NEW c \in Cores, Write(c)
    PROVE  IInv'
<1>1. TypeOK /\ ArgumentInv /\ DomainInv /\ LockInv /\ WaitInv /\ WaitersAccurate
  BY DEF IInv
<1>2. TypeOK'
  BY <1>1, ConstantsAssumption DEF Write, Goto, lockVars, condVars, stwVars, TypeOK, PCs, Polling
<1>3. ArgumentInv'
  BY <1>1, ConstantsAssumption DEF Write, Goto, lockVars, condVars, stwVars, TypeOK, ArgumentInv, Registered
<1>4. DomainInv'
  BY <1>1 DEF Write, Goto, lockVars, condVars, stwVars, TypeOK, DomainInv
<1>5. LockInv'
  BY <1>1, ConstantsAssumption DEF Write, Goto, lockVars, condVars, stwVars, FreeInv, TrackingAccurate, LockInv, BeliefInv, TypeOK
<1>6. WaitInv'
  BY <1>1, ConstantsAssumption DEF Write, Goto, lockVars, condVars, stwVars, TypeOK, WaitInv, Registered
<1>7. WaitersAccurate'
  BY <1>1, WaitersFrame DEF Write, condVars
<1> QED  BY <1>2, <1>3, <1>4, <1>5, <1>6, <1>7 DEF IInv

(* A blocking section gives the domain lock up. *)
LEMMA EnterBlockingKeeps ==
    ASSUME IInv, NEW c \in Cores, EnterBlocking(c)
    PROVE  IInv'
<1>1. TypeOK /\ ArgumentInv /\ DomainInv /\ LockInv /\ WaitInv /\ WaitersAccurate
  BY DEF IInv
<1>2. owner[DomainLock(c)] = c
  <2>1. enter_count[DomainLock(c)] /= 0
    <3>1. pc[c] = "run" /\ caml_state[c] = "domain"
      BY <1>1 DEF EnterBlocking, InBlockingSection, TypeOK
    <3> QED  BY <1>1, <3>1 DEF DomainInv
  <2> QED
    BY <1>1, <2>1, DomainLockFacts DEF DomainInv, LockInv, FreeInv
<1>3. LocksTyped' /\ FreeInv' /\ TrackingAccurate'
  BY <1>1, <1>2, ExitKeeps, DomainLockFacts DEF EnterBlocking, TypeOK, LocksTyped, LockInv
<1>4. TypeOK'
  BY <1>1, <1>2, <1>3, DomainLockFacts, ConstantsAssumption DEF EnterBlocking, condVars, InBlockingSection, LocksTyped, TypeOK, PCs, Polling
<1>5. ArgumentInv'
  BY <1>1, <1>2, <1>3, ConstantsAssumption DEF EnterBlocking, condVars, InBlockingSection, TypeOK, ArgumentInv, Registered
<1>6. DomainInv'
  BY <1>1, <1>2, <1>3, DomainLockFacts, ConstantsAssumption DEF EnterBlocking, condVars, InBlockingSection, Exit, TypeOK, DomainInv
<1>7. LockInv'
  BY <1>1, <1>2, <1>3, DomainLockFacts, ConstantsAssumption DEF EnterBlocking, condVars, InBlockingSection, Exit, TrackingAccurate, LockInv, BeliefInv, TypeOK
<1>8. WaitInv'
  BY <1>1, <1>2, <1>3, ConstantsAssumption DEF EnterBlocking, condVars, InBlockingSection, TypeOK, WaitInv, Registered
<1>9. WaitersAccurate'
  BY <1>1, WaitersFrame DEF EnterBlocking, condVars
<1> QED  BY <1>4, <1>5, <1>6, <1>7, <1>8, <1>9 DEF IInv

(* And takes it back. *)
LEMMA LeaveBlockingKeeps ==
    ASSUME IInv, NEW c \in Cores, LeaveBlocking(c)
    PROVE  IInv'
<1>1. TypeOK /\ ArgumentInv /\ DomainInv /\ LockInv /\ WaitInv /\ WaitersAccurate
  BY DEF IInv
<1>2. LocksTyped' /\ FreeInv' /\ TrackingAccurate'
  BY <1>1, EnterKeeps, DomainLockFacts, ConstantsAssumption DEF LeaveBlocking, TypeOK, LocksTyped, LockInv
<1>3. TypeOK'
  BY <1>1, <1>2, DomainLockFacts, ConstantsAssumption DEF LeaveBlocking, condVars, InBlockingSection, LocksTyped, TypeOK, PCs, Polling
<1>4. ArgumentInv'
  BY <1>1, <1>2, ConstantsAssumption DEF LeaveBlocking, condVars, InBlockingSection, TypeOK, ArgumentInv, Registered
<1>5. DomainInv'
  BY <1>1, <1>2, DomainLockFacts, ConstantsAssumption DEF LeaveBlocking, condVars, InBlockingSection, Enter, CanEnter, TypeOK, DomainInv
<1>6. LockInv'
  BY <1>1, <1>2, DomainLockFacts, ConstantsAssumption DEF LeaveBlocking, condVars, InBlockingSection, Enter, TrackingAccurate, LockInv, BeliefInv, TypeOK
<1>7. WaitInv'
  BY <1>1, <1>2, ConstantsAssumption DEF LeaveBlocking, condVars, InBlockingSection, TypeOK, WaitInv, Registered
<1>8. WaitersAccurate'
  BY <1>1, WaitersFrame DEF LeaveBlocking, condVars
<1> QED  BY <1>3, <1>4, <1>5, <1>6, <1>7, <1>8 DEF IInv

(* An interrupt handled by OCaml code. *)
LEMMA SafepointKeeps ==
    ASSUME IInv, NEW c \in Cores, Safepoint(c)
    PROVE  IInv'
<1>1. TypeOK /\ ArgumentInv /\ DomainInv /\ LockInv /\ WaitInv /\ WaitersAccurate
  BY DEF IInv
<1>2. TypeOK'
  BY <1>1, ConstantsAssumption DEF Safepoint, lockVars, condVars, TypeOK, PCs, Polling
<1>3. ArgumentInv'
  BY <1>1, ConstantsAssumption DEF Safepoint, lockVars, condVars, TypeOK, ArgumentInv, Registered
<1>4. DomainInv'
  BY <1>1 DEF Safepoint, lockVars, condVars, TypeOK, DomainInv
<1>5. LockInv'
  BY <1>1, ConstantsAssumption DEF Safepoint, lockVars, condVars, FreeInv, TrackingAccurate, LockInv, BeliefInv, TypeOK
<1>6. WaitInv'
  BY <1>1, ConstantsAssumption DEF Safepoint, lockVars, condVars, TypeOK, WaitInv, Registered
<1>7. WaitersAccurate'
  BY <1>1, WaitersFrame DEF Safepoint, condVars
<1> QED  BY <1>2, <1>3, <1>4, <1>5, <1>6, <1>7 DEF IInv

(* A stop-the-world request. *)
LEMMA StwRequestKeeps ==
    ASSUME IInv, NEW c \in Cores, StwRequest(c)
    PROVE  IInv'
<1>1. TypeOK /\ ArgumentInv /\ DomainInv /\ LockInv /\ WaitInv /\ WaitersAccurate
  BY DEF IInv
<1>2. TypeOK'
  BY <1>1, ConstantsAssumption DEF StwRequest, Goto, lockVars, condVars, TypeOK, PCs, Polling
<1>3. ArgumentInv'
  BY <1>1, ConstantsAssumption DEF StwRequest, Goto, lockVars, condVars, TypeOK, ArgumentInv, Registered
<1>4. DomainInv'
  BY <1>1 DEF StwRequest, Goto, lockVars, condVars, TypeOK, DomainInv
<1>5. LockInv'
  BY <1>1, ConstantsAssumption DEF StwRequest, Goto, lockVars, condVars, FreeInv, TrackingAccurate, LockInv, BeliefInv, TypeOK
<1>6. WaitInv'
  BY <1>1, ConstantsAssumption DEF StwRequest, Goto, lockVars, condVars, TypeOK, WaitInv, Registered
<1>7. WaitersAccurate'
  BY <1>1, WaitersFrame DEF StwRequest, condVars
<1> QED  BY <1>2, <1>3, <1>4, <1>5, <1>6, <1>7 DEF IInv

(* Its end. *)
LEMMA StwDoneKeeps ==
    ASSUME IInv, NEW c \in Cores, StwDone(c)
    PROVE  IInv'
<1>1. TypeOK /\ ArgumentInv /\ DomainInv /\ LockInv /\ WaitInv /\ WaitersAccurate
  BY DEF IInv
<1>2. TypeOK'
  BY <1>1, ConstantsAssumption DEF StwDone, Goto, lockVars, condVars, TypeOK, PCs, Polling
<1>3. ArgumentInv'
  BY <1>1, ConstantsAssumption DEF StwDone, Goto, lockVars, condVars, TypeOK, ArgumentInv, Registered
<1>4. DomainInv'
  BY <1>1 DEF StwDone, Goto, lockVars, condVars, TypeOK, DomainInv
<1>5. LockInv'
  BY <1>1, ConstantsAssumption DEF StwDone, Goto, lockVars, condVars, FreeInv, TrackingAccurate, LockInv, BeliefInv, TypeOK
<1>6. WaitInv'
  BY <1>1, ConstantsAssumption DEF StwDone, Goto, lockVars, condVars, TypeOK, WaitInv, Registered
<1>7. WaitersAccurate'
  BY <1>1, WaitersFrame DEF StwDone, condVars
<1> QED  BY <1>2, <1>3, <1>4, <1>5, <1>6, <1>7 DEF IInv

(* Every step of the threads layer keeps the invariant. *)
LEMMA IInvInductive == IInv /\ [Next]_vars => IInv'
<1> SUFFICES ASSUME IInv, [Next]_vars  PROVE IInv'
  OBVIOUS
<1>1. ASSUME NEW c \in Cores, CoreStep(c)  PROVE IInv'
  BY <1>1, LockAcquireKeeps, LockBusyKeeps, CondReleaseKeeps, CondSleepKeeps,
     CondSeeKeeps, CondWokenKeeps, RelockAcquireKeeps, RelockBusyKeeps,
     StwEnterKeeps, StwSkipKeeps, StwExitKeeps DEF CoreStep
<1>2. ASSUME NEW c \in Cores, Call(c)  PROVE IInv'
  BY <1>2, LockCallKeeps, LockUnpooledKeeps, TrylockKeeps, UnlockKeeps,
     SignalKeeps, BroadcastKeeps, CondWaitKeeps, WriteKeeps DEF Call
<1>3. ASSUME NEW c \in Cores, Runtime(c)  PROVE IInv'
  BY <1>3, EnterBlockingKeeps, LeaveBlockingKeeps, SafepointKeeps,
     StwRequestKeeps, StwDoneKeeps DEF Runtime
<1>4. CASE UNCHANGED vars
  BY <1>4 DEF vars, lockVars, condVars, stwVars, IInv, TypeOK, ArgumentInv, Registered,
     DomainInv, LockInv, FreeInv, TrackingAccurate, BeliefInv, WaitInv, WaitersAccurate
<1> QED  BY <1>1, <1>2, <1>3, <1>4 DEF Next

LEMMA InitIInv == Init => IInv
<1> SUFFICES ASSUME Init  PROVE IInv
  OBVIOUS
<1>1. TypeOK
  <2>1. \A l \in DomainLocks : l[2] \in Cores
    BY DEF DomainLocks, DomainLock
  <2>2. owner \in [Locks -> Cores \cup {NoCore}]
    BY <2>1 DEF Init
  <2> QED  BY <2>2 DEF Init, TypeOK, PCs
<1>2. ArgumentInv
  BY DEF Init, ArgumentInv, Registered
<1>3. DomainInv
  BY DomainLockFacts DEF Init, DomainInv
<1>4. FreeInv
  BY DomainLockFacts DEF Init, FreeInv, Locks, DomainLocks
<1>5. TrackingAccurate
  <2> SUFFICES ASSUME NEW c \in Cores, NEW l \in Locks
               PROVE  held_counts[c][l] = IF owner[l] = c THEN enter_count[l] ELSE 0
    BY DEF TrackingAccurate
  <2>1. CASE l \in DomainLocks
    <3>1. PICK d \in Cores : l = DomainLock(d)
      BY <2>1 DEF DomainLocks
    <3> QED  BY <2>1, <3>1, DomainLockFacts DEF Init
  <2>2. CASE l \notin DomainLocks
    BY <2>2, DomainLockFacts DEF Init
  <2> QED  BY <2>1, <2>2
<1>6. BeliefInv
  BY DomainLockFacts, ConstantsAssumption DEF Init, BeliefInv
<1>7. WaitInv
  BY DEF Init, WaitInv, Registered
<1>8. WaitersAccurate
  <2>1. \A v \in Conds : {c \in Cores : cv[c] = v} = {}
    BY ConstantsAssumption DEF Init
  <2> QED  BY <2>1, FS_EmptySet DEF Init, WaitersAccurate
<1> QED  BY <1>1, <1>2, <1>3, <1>4, <1>5, <1>6, <1>7, <1>8 DEF IInv, LockInv

THEOREM InvariantHolds == Spec => []IInv
BY InitIInv, IInvInductive, PTL DEF Spec

-----------------------------------------------------------------------------
(* The theorems                                                            *)

(* Every variable keeps its type. *)
THEOREM TypeCorrect == Spec => []TypeOK
<1>1. IInv => TypeOK
  BY DEF IInv
<1> QED  BY <1>1, InvariantHolds, PTL

(* Two cores never believe that they hold the same mutex of the pool. *)
THEOREM MutualExclusionHolds == Spec => []MutualExclusion
<1>1. IInv => MutualExclusion
  BY BelieverOwns DEF IInv, MutualExclusion
<1> QED  BY <1>1, InvariantHolds, PTL

(* held_counts is the nesting of every recursive mutex, so what            *)
(* core1_wrapper releases at the end of a domain is what the domain held.  *)
THEOREM TrackingAccurateHolds == Spec => []TrackingAccurate
<1>1. IInv => TrackingAccurate
  BY DEF IInv, LockInv
<1> QED  BY <1>1, InvariantHolds, PTL

(* The waiters field of a condition variable counts who is registered. *)
THEOREM WaitersAccurateHolds == Spec => []WaitersAccurate
<1>1. IInv => WaitersAccurate
  BY DEF IInv
<1> QED  BY <1>1, InvariantHolds, PTL

(* A signalled waiter sees a new generation, however signals, releases of  *)
(* the mutex and stop-the-world handlers interleave.                       *)
THEOREM NoLostWakeupHolds == Spec => []NoLostWakeup
<1>1. IInv => NoLostWakeup
  <2> SUFFICES ASSUME IInv, NEW c \in Cores, signalled[c]
               PROVE  cv[c] /= NoCond /\ generation[cv[c]] /= my_gen[c]
    BY DEF NoLostWakeup
  <2>1. cv[c] /= NoCond /\ my_gen[c] < generation[cv[c]]
    BY DEF IInv, WaitInv
  <2>2. my_gen[c] \in Nat /\ generation[cv[c]] \in Nat
    BY <2>1 DEF IInv, TypeOK
  <2> QED  BY <2>1, <2>2
<1> QED  BY <1>1, InvariantHolds, PTL

(* caml_state is set exactly while the core has its domain lock. *)
THEOREM CamlStateMatchesLockHolds == Spec => []CamlStateMatchesLock
<1>1. IInv => CamlStateMatchesLock
  <2> SUFFICES ASSUME IInv, NEW c \in Cores
               PROVE  caml_state[c] = "domain" <=> owner[DomainLock(c)] = c
    BY DEF CamlStateMatchesLock
  <2>1. owner[DomainLock(c)] = c <=> enter_count[DomainLock(c)] /= 0
    BY DomainLockFacts DEF IInv, DomainInv, LockInv, FreeInv
  <2>2. enter_count[DomainLock(c)] /= 0 <=> caml_state[c] = "domain"
    BY DEF IInv, DomainInv
  <2> QED  BY <2>1, <2>2
<1> QED  BY <1>1, InvariantHolds, PTL

-----------------------------------------------------------------------------
(* Refinement                                                              *)

(* Nobody leaves the wait loop, or may leave it, who was not signalled.    *)
SignalledInv ==
    \A c \in Cores :
        cv[c] /= NoCond /\ (pc[c] = "woken" \/ generation[cv[c]] /= my_gen[c])
            => signalled[c]

LEMMA SignalledInit == Init => SignalledInv
BY DEF Init, SignalledInv

LEMMA SignalledKeeps == IInv /\ SignalledInv /\ [Next]_vars => SignalledInv'
<1> SUFFICES ASSUME IInv, SignalledInv, [Next]_vars  PROVE SignalledInv'
  OBVIOUS
<1>1. TypeOK /\ WaitInv /\ NoCond \notin Conds
  BY ConstantsAssumption DEF IInv
<1> USE DEF SignalledInv, TypeOK, Goto
<1>2. ASSUME NEW c \in Cores, CoreStep(c)  PROVE SignalledInv'
  <2>1. CASE LockAcquire(c) \/ LockBusy(c) \/ RelockAcquire(c) \/ RelockBusy(c)
    BY <1>1, <2>1 DEF LockAcquire, LockBusy, RelockAcquire, RelockBusy, condVars
  <2>2. CASE CondRelease(c) \/ CondSleep(c)
    BY <1>1, <2>2 DEF CondRelease, CondSleep, condVars
  <2>3. CASE CondSee(c)
    BY <1>1, <2>3 DEF CondSee, condVars
  <2>4. CASE CondWoken(c)
    BY <1>1, <2>4 DEF CondWoken
  <2>5. CASE StwEnter(c) \/ StwSkip(c) \/ StwExit(c)
    <3>1. pc[c] \in Polling => AfterPoll[pc[c]] /= "woken"
      BY DEF AfterPoll, Polling
    <3>2. /\ pc'[c] /= "woken" /\ \A d \in Cores \ {c} : pc'[d] = pc[d]
          /\ UNCHANGED condVars
      BY <1>1, <2>5, <3>1 DEF StwEnter, StwSkip, StwExit
    <3> QED  BY <1>1, <3>2 DEF condVars
  <2> QED  BY <1>2, <2>1, <2>2, <2>3, <2>4, <2>5 DEF CoreStep
<1>3. ASSUME NEW c \in Cores, Call(c)  PROVE SignalledInv'
  <2>1. ASSUME NEW m \in Mutexes,
               LockCall(c, m) \/ LockUnpooled(c, m) \/ Trylock(c, m) \/ Unlock(c, m)
        PROVE  SignalledInv'
    BY <1>1, <2>1 DEF LockCall, LockUnpooled, Trylock, Unlock, condVars
  <2>2. ASSUME NEW v \in Conds, Signal(c, v) \/ Broadcast(c, v)  PROVE SignalledInv'
    <3>1. /\ pc' = pc /\ cv' = cv /\ my_gen' = my_gen
          /\ \A w \in Conds \ {v} : generation'[w] = generation[w]
          /\ \A d \in Cores : signalled'[d] <=> signalled[d] \/ cv[d] = v
      BY <1>1, <2>2 DEF Signal, Broadcast, MarkSignalled
    <3>2. \A d \in Cores : cv[d] \in Conds \cup {NoCond}
      BY <1>1
    <3>3. ASSUME NEW d \in Cores, cv[d] /= NoCond, pc[d] = "woken" \/ generation'[cv[d]] /= my_gen[d]
          PROVE  signalled[d] \/ cv[d] = v
      BY <1>1, <3>1, <3>2, <3>3
    <3> QED  BY <3>1, <3>3
  <2>3. ASSUME NEW v \in Conds, NEW m \in Mutexes, CondWait(c, v, m)
        PROVE  SignalledInv'
    BY <1>1, <2>3 DEF CondWait
  <2>4. CASE Write(c)
    BY <1>1, <2>4 DEF Write, condVars
  <2> QED  BY <1>3, <2>1, <2>2, <2>3, <2>4 DEF Call
<1>4. ASSUME NEW c \in Cores, Runtime(c)  PROVE SignalledInv'
  BY <1>1, <1>4 DEF Runtime, EnterBlocking, LeaveBlocking, Safepoint, StwRequest, StwDone,
     condVars
<1>5. CASE UNCHANGED vars
  BY <1>1, <1>5 DEF vars, condVars
<1> QED  BY <1>2, <1>3, <1>4, <1>5 DEF Next

(* Whoever is in a call, or in none, is in no wait set but from the        *)
(* registration to the signal.                                             *)
LEMMA AwakeUnregistered ==
    ASSUME IInv, NEW c \in Cores, ~Registered(c)
    PROVE  Monitor!Awake(c)
<1>1. cv[c] = NoCond /\ NoCond \notin Conds
  BY ConstantsAssumption DEF IInv, WaitInv
<1> QED  BY <1>1 DEF Monitor!Awake, WaitSets

(* What an acquisition by c tells of the levels of the others. *)
LEMMA OthersHoldNothing ==
    ASSUME IInv, NEW c \in Cores, NEW m \in Pooled, CanEnter(c, m)
    PROVE  \A d \in Cores \ {c} : Levels[d][m] = 0
<1> TAKE d \in Cores \ {c}
<1>1. TypeOK /\ LockInv /\ ArgumentInv /\ m \in Mutexes
  BY ConstantsAssumption DEF IInv
<1>2. owner[m] /= d
  BY ConstantsAssumption DEF CanEnter
<1>3. acquired[d][m] = 0
  BY <1>1, <1>2, BelieverOwns DEF TypeOK
<1>4. ~(pc[d] = "release" /\ mtx[d] = m)
  BY <1>1, <1>3 DEF ArgumentInv
<1> QED  BY <1>3, <1>4 DEF Levels, Level

(* One level changes, or none. *)
LEMMA LevelsChange ==
    ASSUME NEW c \in Cores, NEW m \in Pooled, NEW n, Level(c, m)' = n,
           \A d \in Cores, k \in Pooled : d /= c \/ k /= m => Level(d, k)' = Level(d, k)
    PROVE  Levels' = [Levels EXCEPT ![c][m] = n]
<1>1. Levels'[c] = [Levels[c] EXCEPT ![m] = n]
  BY DEF Levels
<1>2. \A d \in Cores \ {c} : Levels'[d] = Levels[d]
  BY DEF Levels
<1> QED  BY <1>1, <1>2 DEF Levels

LEMMA LevelsSame ==
    ASSUME \A d \in Cores, k \in Pooled : Level(d, k)' = Level(d, k)
    PROVE  Levels' = Levels
BY DEF Levels

LEMMA LevelsValue == \A c \in Cores, m \in Pooled : Levels[c][m] = Level(c, m)
BY DEF Levels

(* Steps that change neither what is held nor who waits. *)
LEMMA LevelsFrame ==
    ASSUME acquired' = acquired,
           \A c \in Cores : pc'[c] = "release" <=> pc[c] = "release",
           \A c \in Cores : pc[c] = "release" => mtx'[c] = mtx[c]
    PROVE  Levels' = Levels
<1>1. \A d \in Cores, k \in Pooled : Level(d, k)' = Level(d, k)
  BY DEF Level
<1> QED  BY <1>1, LevelsSame

LEMMA WaitSetsFrame ==
    ASSUME cv' = cv, signalled' = signalled
    PROVE  WaitSets' = WaitSets
BY DEF WaitSets

(* An acquisition, by lock, trylock or at the end of a wait. *)
LEMMA AcquireMaps ==
    ASSUME IInv, NEW c \in Cores, NEW m \in Pooled, ~Registered(c),
           CanEnter(c, m), acquired' = [acquired EXCEPT ![c][m] = @ + 1],
           pc'[c] = "run", \A d \in Cores \ {c} : pc'[d] = pc[d] /\ mtx'[d] = mtx[d],
           cv' = cv, signalled' = signalled
    PROVE  Monitor!Acquire(c, m)
<1>1. TypeOK /\ m \in Mutexes
  BY ConstantsAssumption DEF IInv
<1>2. pc[c] /= "release"
  BY DEF Registered
<1>3. Levels' = [Levels EXCEPT ![c][m] = @ + 1]
  <2>1. Level(c, m)' = Level(c, m) + 1
    BY <1>1, <1>2 DEF Level, TypeOK
  <2>2. \A d \in Cores, k \in Pooled : d /= c \/ k /= m => Level(d, k)' = Level(d, k)
    BY <1>1, <1>2 DEF Level, TypeOK
  <2> QED  BY <2>1, <2>2, LevelsChange, LevelsValue
<1> QED  BY <1>3, AwakeUnregistered, OthersHoldNothing, WaitSetsFrame DEF Monitor!Acquire

LEMMA UnlockMaps ==
    ASSUME IInv, NEW c \in Cores, NEW m \in Mutexes, Unlock(c, m)
    PROVE  \/ m \in Pooled /\ Monitor!Release(c, m)
           \/ UNCHANGED <<Levels, WaitSets>>
<1>1. TypeOK /\ ~Registered(c)
  BY DEF IInv, Unlock, Registered
<1>2. WaitSets' = WaitSets
  BY WaitSetsFrame DEF Unlock, condVars
<1>3. CASE m \in Pooled
  <2>1. Level(c, m)' = Level(c, m) - 1 /\ Level(c, m) > 0
    BY <1>1 DEF Unlock, Level, TypeOK
  <2>2. \A d \in Cores, k \in Pooled : d /= c \/ k /= m => Level(d, k)' = Level(d, k)
    BY <1>1 DEF Unlock, Level, TypeOK
  <2>3. Levels' = [Levels EXCEPT ![c][m] = @ - 1] /\ Levels[c][m] > 0
    BY <1>3, <2>1, <2>2, LevelsChange, LevelsValue
  <2> QED  BY <1>1, <1>2, <1>3, <2>3, AwakeUnregistered DEF Monitor!Release
<1>4. CASE m \notin Pooled
  <2>1. \A d \in Cores, k \in Pooled : Level(d, k)' = Level(d, k)
    BY <1>1, <1>4 DEF Unlock, Level, TypeOK
  <2> QED  BY <1>2, <2>1, LevelsSame
<1> QED  BY <1>3, <1>4

(* pthread_cond_wait gives the mutex back and waits, in one step: that of  *)
(* its registration.                                                       *)
LEMMA CondWaitMaps ==
    ASSUME IInv, NEW c \in Cores, NEW v \in Conds, NEW m \in Mutexes, CondWait(c, v, m)
    PROVE  \/ m \in Pooled /\ Monitor!Wait(c, v, m)
           \/ Monitor!WaitUnlocked(c, v)
<1>1. TypeOK /\ ~Registered(c)
  BY DEF IInv, CondWait, Registered
<1>2. cv[c] = NoCond /\ ~signalled[c] /\ NoCond \notin Conds
  BY <1>1, ConstantsAssumption DEF IInv, WaitInv
<1>3. WaitSets' = [WaitSets EXCEPT ![v] = @ \cup {c}]
  <2>1. /\ cv'[c] = v /\ signalled' = signalled
        /\ \A d \in Cores \ {c} : cv'[d] = cv[d]
    BY <1>1 DEF CondWait, TypeOK
  <2>2. WaitSets'[v] = WaitSets[v] \cup {c}
    BY <1>2, <2>1 DEF WaitSets
  <2>3. \A w \in Conds \ {v} : WaitSets'[w] = WaitSets[w]
    BY <1>2, <2>1 DEF WaitSets
  <2> QED  BY <2>2, <2>3 DEF WaitSets
<1>4. Monitor!Sleep(c, v)
  BY <1>1, <1>3, AwakeUnregistered DEF Monitor!Sleep
<1>5. /\ pc[c] = "run" /\ pc'[c] = "release" /\ mtx'[c] = m /\ acquired' = acquired
      /\ acquired[c][m] > 0
      /\ \A d \in Cores \ {c} : pc'[d] = pc[d] /\ mtx'[d] = mtx[d]
  BY <1>1 DEF CondWait, Goto, TypeOK
<1>6. CASE m \in Pooled
  <2>1. Level(c, m)' = Level(c, m) - 1 /\ Level(c, m) > 0
    BY <1>1, <1>5 DEF Level, TypeOK
  <2>2. \A d \in Cores, k \in Pooled : d /= c \/ k /= m => Level(d, k)' = Level(d, k)
    BY <1>5 DEF Level
  <2>3. Levels' = [Levels EXCEPT ![c][m] = @ - 1] /\ Levels[c][m] > 0
    BY <1>6, <2>1, <2>2, LevelsChange, LevelsValue
  <2> QED  BY <1>4, <1>6, <2>3 DEF Monitor!Wait
<1>7. CASE m \notin Pooled
  <2>1. \A d \in Cores, k \in Pooled : Level(d, k)' = Level(d, k)
    BY <1>5, <1>7 DEF Level
  <2> QED  BY <1>4, <2>1, LevelsSame DEF Monitor!WaitUnlocked
<1> QED  BY <1>6, <1>7

(* The mutex is really given back: the level was already gone. *)
LEMMA CondReleaseMaps ==
    ASSUME IInv, NEW c \in Cores, CondRelease(c)
    PROVE  UNCHANGED <<Levels, WaitSets>>
<1>1. TypeOK
  BY DEF IInv
<1>2. WaitSets' = WaitSets
  BY WaitSetsFrame DEF CondRelease, condVars
<1>3. \A d \in Cores, k \in Pooled : Level(d, k)' = Level(d, k)
  BY <1>1, ConstantsAssumption DEF CondRelease, Goto, Level, TypeOK
<1> QED  BY <1>2, <1>3, LevelsSame

(* Leaving the loop changes no wait set: the signal has. *)
LEMMA CondWokenMaps ==
    ASSUME IInv, SignalledInv, NEW c \in Cores, CondWoken(c)
    PROVE  UNCHANGED <<Levels, WaitSets>>
<1>1. TypeOK /\ NoCond \notin Conds
  BY ConstantsAssumption DEF IInv
<1>2. cv[c] /= NoCond /\ signalled[c]
  BY DEF IInv, WaitInv, SignalledInv, CondWoken, Registered
<1>3. WaitSets' = WaitSets
  <2>1. /\ cv'[c] = NoCond
        /\ \A d \in Cores \ {c} : cv'[d] = cv[d] /\ signalled'[d] = signalled[d]
    BY <1>1 DEF CondWoken, TypeOK
  <2>2. \A v \in Conds : WaitSets'[v] = WaitSets[v]
    BY <1>1, <1>2, <2>1 DEF WaitSets
  <2> QED  BY <2>2 DEF WaitSets
<1>4. \A d \in Cores, k \in Pooled : Level(d, k)' = Level(d, k)
  BY <1>1, ConstantsAssumption DEF CondWoken, Goto, Level, TypeOK
<1> QED  BY <1>3, <1>4, LevelsSame

LEMMA NotifyMaps ==
    ASSUME IInv, NEW c \in Cores, NEW v \in Conds, Signal(c, v) \/ Broadcast(c, v)
    PROVE  Monitor!Notify(v)
<1>1. TypeOK
  BY DEF IInv
<1>2. WaitSets' = [WaitSets EXCEPT ![v] = {}]
  <2>1. /\ cv' = cv
        /\ \A d \in Cores : signalled'[d] <=> signalled[d] \/ cv[d] = v
    BY <1>1 DEF Signal, Broadcast, MarkSignalled
  <2>2. WaitSets'[v] = {}
    BY <2>1 DEF WaitSets
  <2>3. \A w \in Conds \ {v} : WaitSets'[w] = WaitSets[w]
    BY <2>1 DEF WaitSets
  <2> QED  BY <2>2, <2>3 DEF WaitSets
<1>3. Levels' = Levels
  BY LevelsFrame DEF Signal, Broadcast
<1> QED  BY <1>2, <1>3 DEF Monitor!Notify

LEMMA InitMaps == Init => Monitor!Init
<1> SUFFICES ASSUME Init  PROVE Monitor!Init
  OBVIOUS
<1>1. Levels = [c \in Cores |-> [m \in Pooled |-> 0]]
  BY ConstantsAssumption DEF Init, Levels, Level
<1>2. WaitSets = [v \in Conds |-> {}]
  BY ConstantsAssumption DEF Init, WaitSets
<1> QED  BY <1>1, <1>2 DEF Monitor!Init

LEMMA StepMaps ==
    IInv /\ SignalledInv /\ [Next]_vars
        => [Monitor!Next]_<<Levels, WaitSets>>
<1> SUFFICES ASSUME IInv, SignalledInv, [Next]_vars
             PROVE  Monitor!Next \/ UNCHANGED <<Levels, WaitSets>>
  OBVIOUS
<1>1. TypeOK /\ ArgumentInv
  BY DEF IInv
<1>2. ASSUME NEW c \in Cores, CoreStep(c)
      PROVE  Monitor!Next \/ UNCHANGED <<Levels, WaitSets>>
  <2>1. CASE LockAcquire(c) \/ RelockAcquire(c)
    <3>1. mtx[c] \in Pooled /\ ~Registered(c)
      BY <1>1, <2>1 DEF LockAcquire, RelockAcquire, ArgumentInv, Registered
    <3>2. Monitor!Acquire(c, mtx[c])
      BY <1>1, <2>1, <3>1, AcquireMaps
         DEF LockAcquire, RelockAcquire, Enter, Goto, condVars, TypeOK
    <3> QED  BY <3>1, <3>2 DEF Monitor!Next
  <2>2. CASE LockBusy(c) \/ RelockBusy(c) \/ CondSleep(c) \/ CondSee(c)
    <3>1. Levels' = Levels
      BY <1>1, <2>2, LevelsFrame DEF LockBusy, RelockBusy, CondSleep, CondSee, Goto, TypeOK
    <3>2. WaitSets' = WaitSets
      BY <2>2, WaitSetsFrame DEF LockBusy, RelockBusy, CondSleep, CondSee, condVars
    <3> QED  BY <3>1, <3>2
  <2>3. CASE StwEnter(c) \/ StwSkip(c) \/ StwExit(c)
    <3>1. Levels' = Levels
      <4>1. pc[c] \in Polling => AfterPoll[pc[c]] /= "release"
        BY DEF AfterPoll, Polling
      <4> QED  BY <1>1, <2>3, <4>1, LevelsFrame
               DEF StwEnter, StwSkip, StwExit, Goto, TypeOK, Polling
    <3>2. WaitSets' = WaitSets
      BY <2>3, WaitSetsFrame DEF StwEnter, StwSkip, StwExit, condVars
    <3> QED  BY <3>1, <3>2
  <2> QED  BY <1>2, <2>1, <2>2, <2>3, CondReleaseMaps, CondWokenMaps DEF CoreStep
<1>3. ASSUME NEW c \in Cores, Call(c)
      PROVE  Monitor!Next \/ UNCHANGED <<Levels, WaitSets>>
  <2>1. ASSUME NEW m \in Mutexes, LockCall(c, m)  PROVE UNCHANGED <<Levels, WaitSets>>
    <3>1. Levels' = Levels
      BY <1>1, <2>1, LevelsFrame DEF LockCall, Goto, TypeOK
    <3> QED  BY <2>1, <3>1, WaitSetsFrame DEF LockCall, condVars
  <2>2. ASSUME NEW m \in Mutexes, LockUnpooled(c, m)
        PROVE  UNCHANGED <<Levels, WaitSets>>
    <3>1. \A d \in Cores, k \in Pooled : Level(d, k)' = Level(d, k)
      BY <1>1, <2>2, ConstantsAssumption DEF LockUnpooled, Level, TypeOK
    <3>2. Levels' = Levels
      BY <3>1, LevelsSame
    <3> QED  BY <2>2, <3>2, WaitSetsFrame DEF LockUnpooled, condVars
  <2>3. ASSUME NEW m \in Mutexes, Trylock(c, m)  PROVE Monitor!Next
    <3>1. m \in Pooled /\ ~Registered(c)
      BY <2>3 DEF Trylock, Registered
    <3>2. Monitor!Acquire(c, m)
      BY <1>1, <2>3, <3>1, AcquireMaps DEF Trylock, Enter, condVars, TypeOK
    <3> QED  BY <3>1, <3>2 DEF Monitor!Next
  <2>4. ASSUME NEW m \in Mutexes, Unlock(c, m)
        PROVE  Monitor!Next \/ UNCHANGED <<Levels, WaitSets>>
    BY <2>4, UnlockMaps DEF Monitor!Next
  <2>5. ASSUME NEW v \in Conds, NEW m \in Mutexes, CondWait(c, v, m)  PROVE Monitor!Next
    BY <2>5, CondWaitMaps DEF Monitor!Next
  <2>6. ASSUME NEW v \in Conds, Signal(c, v) \/ Broadcast(c, v)  PROVE Monitor!Next
    BY <2>6, NotifyMaps DEF Monitor!Next
  <2>7. CASE Write(c)
    <3>1. Levels' = Levels
      BY <1>1, <2>7, LevelsFrame DEF Write, Goto, TypeOK
    <3> QED  BY <2>7, <3>1, WaitSetsFrame DEF Write, condVars
  <2> QED  BY <1>3, <2>1, <2>2, <2>3, <2>4, <2>5, <2>6, <2>7 DEF Call
<1>4. ASSUME NEW c \in Cores, Runtime(c)  PROVE UNCHANGED <<Levels, WaitSets>>
  <2>1. Levels' = Levels
    BY <1>1, <1>4, LevelsFrame DEF Runtime, EnterBlocking, LeaveBlocking, Safepoint,
       StwRequest, StwDone, Goto, TypeOK
  <2>2. WaitSets' = WaitSets
    BY <1>4, WaitSetsFrame DEF Runtime, EnterBlocking, LeaveBlocking, Safepoint,
       StwRequest, StwDone, condVars
  <2> QED  BY <2>1, <2>2
<1>5. CASE UNCHANGED vars
  BY <1>5 DEF vars, condVars, Levels, Level, WaitSets
<1> QED  BY <1>2, <1>3, <1>4, <1>5 DEF Next

(* The threads layer is a monitor: every wait joins the wait set in the    *)
(* step that gives its mutex back, only a signal ends it, and mutexes that *)
(* have a slot exclude, whatever polls and stop-the-world handlers do in   *)
(* between.                                                                *)
THEOREM Refinement == Spec => ImplementsMonitors
<1>1. Spec => [](IInv /\ SignalledInv)
  <2>1. IInv /\ SignalledInv /\ [Next]_vars => (IInv /\ SignalledInv)'
    BY IInvInductive, SignalledKeeps
  <2> QED  BY <2>1, InitIInv, SignalledInit, PTL DEF Spec
<1> QED  BY <1>1, StepMaps, InitMaps, PTL DEF Spec, ImplementsMonitors, Monitor!Spec

=============================================================================
