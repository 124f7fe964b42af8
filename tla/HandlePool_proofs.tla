--------------------------- MODULE HandlePool_proofs ---------------------------
(***************************************************************************)
(* Proofs about HandlePool and CondPool: when one core at most creates     *)
(* mutexes and condition variables, the unsynchronised counters and slots  *)
(* are safe for any number of cores and objects and any size of the pools, *)
(* and for those who wait.  (With two creators they are not: see the       *)
(* README.)                                                                *)
(***************************************************************************)
EXTENDS CondPool, TLAPS, FiniteSetTheorems

Creating == {"bound", "load", "store", "fill", "publish"}

(* An index in an object is one of the slots handed out, and is ready. *)
HandleInv ==
    \A o \in Objs : handle[o] >= 0 => handle[o] < count /\ handle[o] \in magic

(* What the creator knows at each step of an initialisation. *)
CreateInv ==
    \A c \in Cores :
        /\ pc[c] \in Creating =>
              /\ obj[c] \in Objs /\ handle[obj[c]] = -1
              /\ c \in Creators \/ (pc[c] = "bound" /\ Slotless(obj[c]))
        /\ pc[c] = "check" =>
              /\ obj[c] \in Objs
              /\ c \in Creators \/ handle[obj[c]] >= 0 \/ Slotless(obj[c])
        /\ pc[c] = "load" => count < MAX
        /\ pc[c] = "store" => idx[c] = count /\ count < MAX
        /\ pc[c] \in {"fill", "publish"} =>
              /\ idx[c] >= 0 /\ idx[c] = count - 1
              /\ \A o \in Objs : handle[o] /= idx[c]
        /\ pc[c] = "publish" => idx[c] \in magic

(* Whoever waits for or holds an object does so on the object's slot, if   *)
(* it has one.                                                             *)
Holds(c, o) ==
    \/ Slotless(o)
    \/ handle[o] >= 0 /\ holder[handle[o]] = c

HoldInv ==
    \A c \in Cores :
        /\ pc[c] = "enter" =>
              obj[c] \in Objs /\ handle[obj[c]] >= 0 /\ idx[c] = handle[obj[c]]
        /\ \A o \in held[c] : Holds(c, o)

IInv == TypeOK /\ HandleInv /\ CreateInv /\ HoldInv /\ DistinctSlots

LEMMA InitIInv == Init => IInv
BY PoolAssumption
   DEF Init, IInv, TypeOK, HandleInv, CreateInv, HoldInv, DistinctSlots, Holds,
       Slotless, Full, Slots, Creating

(* Calling pthread_mutex_lock. *)
LEMMA LockKeeps ==
    ASSUME OneCreator, IInv, NEW c \in Cores, NEW o \in Objs, Lock(c, o)
    PROVE  IInv'
<1>0. TypeOK /\ HandleInv /\ CreateInv /\ HoldInv /\ DistinctSlots
  BY DEF IInv
<1>1. TypeOK'
  BY <1>0, PoolAssumption DEF Lock, Goto, Begin, TypeOK, Slots
<1>2. HandleInv'
  BY <1>0, PoolAssumption DEF Lock, Goto, Begin, TypeOK, HandleInv
<1>3. CreateInv'
  BY <1>0, PoolAssumption
     DEF Lock, Goto, Begin, TypeOK, CreateInv, Slotless, Full, Creating, HandleInv,
         OneCreator
<1>4. HoldInv'
  BY <1>0, PoolAssumption DEF Lock, Goto, Begin, TypeOK, HoldInv, Holds, Slotless, Full
<1>5. DistinctSlots'
  BY <1>0, PoolAssumption DEF Lock, Goto, Begin, TypeOK, DistinctSlots
<1> QED  BY <1>1, <1>2, <1>3, <1>4, <1>5 DEF IInv

(* Calling pthread_mutex_init. *)
LEMMA MutexInitKeeps ==
    ASSUME OneCreator, IInv, NEW c \in Cores, NEW o \in Objs, MutexInit(c, o)
    PROVE  IInv'
<1>0. TypeOK /\ HandleInv /\ CreateInv /\ HoldInv /\ DistinctSlots
  BY DEF IInv
<1>1. TypeOK'
  BY <1>0, PoolAssumption DEF MutexInit, Goto, Begin, TypeOK, Slots
<1>2. HandleInv'
  BY <1>0, PoolAssumption DEF MutexInit, Goto, Begin, TypeOK, HandleInv
<1>3. CreateInv'
  BY <1>0, PoolAssumption
     DEF MutexInit, Goto, Begin, TypeOK, CreateInv, Slotless, Full, Creating, OneCreator
<1>4. HoldInv'
  BY <1>0, PoolAssumption DEF MutexInit, Goto, Begin, TypeOK, HoldInv, Holds, Slotless, Full
<1>5. DistinctSlots'
  BY <1>0, PoolAssumption DEF MutexInit, Goto, Begin, TypeOK, DistinctSlots
<1> QED  BY <1>1, <1>2, <1>3, <1>4, <1>5 DEF IInv

(* Testing whether the object has a slot. *)
LEMMA CheckKeeps ==
    ASSUME OneCreator, IInv, NEW c \in Cores, Check(c)
    PROVE  IInv'
<1>0. TypeOK /\ HandleInv /\ CreateInv /\ HoldInv /\ DistinctSlots
  BY DEF IInv
<1>1. TypeOK'
  <2>1. handle[obj[c]] \in -1 .. MAX
    BY <1>0, PoolAssumption DEF Check, TypeOK, CreateInv, Slotless, Full
  <2> QED  BY <1>0, <2>1 DEF Check, Goto, TypeOK
<1>2. HandleInv'
  BY <1>0, PoolAssumption DEF Check, Goto, Initialised, TypeOK, HandleInv
<1>3. CreateInv'
  BY <1>0, PoolAssumption
     DEF Check, Goto, Initialised, TypeOK, CreateInv, Slotless, Full, Creating, HandleInv,
         OneCreator
<1>4. HoldInv'
  BY <1>0, PoolAssumption
     DEF Check, Goto, Initialised, TypeOK, HoldInv, Holds, Slotless, Full, CreateInv,
         Creating, HandleInv, Slots
<1>5. DistinctSlots'
  BY <1>0, PoolAssumption DEF Check, Goto, Initialised, TypeOK, DistinctSlots
<1> QED  BY <1>1, <1>2, <1>3, <1>4, <1>5 DEF IInv

(* Testing whether the pool is full. *)
LEMMA BoundKeeps ==
    ASSUME OneCreator, IInv, NEW c \in Cores, Bound(c)
    PROVE  IInv'
<1>0. TypeOK /\ HandleInv /\ CreateInv /\ HoldInv /\ DistinctSlots
  BY DEF IInv
<1>1. TypeOK'
  <2>1. CASE Full
    <3>1. obj[c] \in Objs
      BY <1>0 DEF Bound, CreateInv, Creating
    <3>2. held' \in [Cores -> SUBSET Objs]
      BY <1>0, <2>1, <3>1 DEF Bound, TypeOK
    <3>3. -1 \in -1 .. MAX
      BY PoolAssumption
    <3> QED  BY <1>0, <2>1, <3>2, <3>3 DEF Bound, Return, Goto, TypeOK
  <2>2. CASE ~Full
    BY <1>0, <2>2 DEF Bound, Goto, TypeOK
  <2> QED  BY <2>1, <2>2
<1>2. HandleInv'
  BY <1>0, PoolAssumption DEF Bound, Goto, Return, TypeOK, HandleInv
<1>3. CreateInv'
  BY <1>0, PoolAssumption
     DEF Bound, Goto, Return, TypeOK, CreateInv, Slotless, Full, Creating, OneCreator
<1>4. HoldInv'
  <2>1. UNCHANGED <<handle, holder, count>> /\ \A d \in Cores \ {c} : pc'[d] = pc[d]
    BY <1>0 DEF Bound, Return, Goto, TypeOK
  <2>2. pc[c] = "bound" /\ pc'[c] \in {"idle", "load"}
    BY <1>0 DEF Bound, Return, Goto, TypeOK
  <2>3. \A d \in Cores : obj'[d] = obj[d] \/ pc'[d] = "idle"
    BY <1>0 DEF Bound, Return, Goto, TypeOK
  <2>4. \A o \in Objs : Slotless(o) => Slotless(o)'
    BY <2>1, <2>2, <2>3 DEF Slotless, Full
  <2>5. \A d \in Cores, o \in Objs : Holds(d, o) => Holds(d, o)'
    BY <2>1, <2>4 DEF Holds
  <2>6. \A d \in Cores : \A o \in held'[d] :
          o \in Objs /\ (o \in held[d] \/ (Full /\ d = c /\ o = obj[c]))
    BY <1>0 DEF Bound, TypeOK, CreateInv, Creating
  <2>7. Full => Slotless(obj[c])
    BY <1>0, <2>2 DEF CreateInv, Creating, Slotless, OneCreator
  <2>8. \A d \in Cores : \A o \in held'[d] : Holds(d, o)'
    BY <1>0, <2>5, <2>6, <2>7 DEF HoldInv, Holds
  <2>9. \A d \in Cores : pc'[d] = "enter" => pc[d] = "enter" /\ d # c
    BY <2>1, <2>2
  <2>10. \A d \in Cores \ {c} : obj'[d] = obj[d] /\ idx'[d] = idx[d]
    BY <1>0 DEF Bound, Return, TypeOK
  <2> QED  BY <1>0, <2>1, <2>8, <2>9, <2>10 DEF HoldInv
<1>5. DistinctSlots'
  BY <1>0, PoolAssumption DEF Bound, Goto, Return, TypeOK, DistinctSlots
<1> QED  BY <1>1, <1>2, <1>3, <1>4, <1>5 DEF IInv

(* Reading the counter. *)
LEMMA LoadKeeps ==
    ASSUME OneCreator, IInv, NEW c \in Cores, Load(c)
    PROVE  IInv'
<1>0. TypeOK /\ HandleInv /\ CreateInv /\ HoldInv /\ DistinctSlots
  BY DEF IInv
<1>1. TypeOK'
  BY <1>0, PoolAssumption DEF Load, Goto, TypeOK, Slots
<1>2. HandleInv'
  BY <1>0, PoolAssumption DEF Load, Goto, TypeOK, HandleInv
<1>3. CreateInv'
  BY <1>0, PoolAssumption
     DEF Load, Goto, TypeOK, CreateInv, Slotless, Full, Creating, HandleInv, OneCreator
<1>4. HoldInv'
  BY <1>0, PoolAssumption DEF Load, Goto, TypeOK, HoldInv, Holds, Slotless, Full
<1>5. DistinctSlots'
  BY <1>0, PoolAssumption DEF Load, Goto, TypeOK, DistinctSlots
<1> QED  BY <1>1, <1>2, <1>3, <1>4, <1>5 DEF IInv

(* Incrementing it: nobody else can have read it in between. *)
LEMMA StoreKeeps ==
    ASSUME OneCreator, IInv, NEW c \in Cores, Store(c)
    PROVE  IInv'
<1>0. TypeOK /\ HandleInv /\ CreateInv /\ HoldInv /\ DistinctSlots
  BY DEF IInv
<1>1. TypeOK'
  BY <1>0, PoolAssumption
     DEF Store, Goto, TypeOK, CreateInv, Slotless, Full, Creating, Slots
<1>2. HandleInv'
  BY <1>0, PoolAssumption DEF Store, Goto, TypeOK, HandleInv, CreateInv
<1>3. CreateInv'
  <2>1. \A d \in Cores : pc[d] \in Creating => d = c
    BY <1>0, PoolAssumption
       DEF Store, TypeOK, CreateInv, Creating, Slotless, Full, OneCreator
  <2>2. count' = count + 1 /\ count' \in Nat /\ idx[c] = count /\ count \in Nat
    BY <1>0, PoolAssumption DEF Store, TypeOK, CreateInv, Slotless, Full
  <2>3. \A o \in Objs : handle[o] \in Int /\ handle[o] /= idx[c]
    BY <1>0, <2>2 DEF TypeOK, HandleInv
  <2>4. \A d \in Cores \ {c} : pc'[d] = pc[d] /\ pc[d] \notin Creating
    BY <1>0, <2>1 DEF Store, Goto, TypeOK
  <2>5. \A o \in Objs : ~Slotless(o)
    BY <1>0, PoolAssumption DEF Store, CreateInv, TypeOK, Slotless, Full
  <2> QED  BY <1>0, <2>2, <2>3, <2>4, <2>5 DEF Store, Goto, TypeOK, CreateInv, Creating
<1>4. HoldInv'
  <2>1. \A o \in Objs : ~Slotless(o)
    BY <1>0, PoolAssumption DEF Store, CreateInv, TypeOK, Slotless, Full
  <2> QED  BY <1>0, <2>1 DEF Store, Goto, TypeOK, HoldInv, Holds
<1>5. DistinctSlots'
  BY <1>0, PoolAssumption DEF Store, Goto, TypeOK, DistinctSlots
<1> QED  BY <1>1, <1>2, <1>3, <1>4, <1>5 DEF IInv

(* Initialising the slot: no object has it yet, so nobody holds it. *)
LEMMA FillKeeps ==
    ASSUME OneCreator, IInv, NEW c \in Cores, Fill(c)
    PROVE  IInv'
<1>0. TypeOK /\ HandleInv /\ CreateInv /\ HoldInv /\ DistinctSlots
  BY DEF IInv
<1>1. TypeOK'
  <2>1. idx[c] \in Slots
    BY <1>0, PoolAssumption DEF Fill, TypeOK, CreateInv, Slotless, Full, Slots
  <2> QED  BY <1>0, <2>1 DEF Fill, Goto, TypeOK
<1>2. HandleInv'
  BY <1>0, PoolAssumption DEF Fill, Goto, TypeOK, HandleInv, CreateInv
<1>3. CreateInv'
  BY <1>0, PoolAssumption
     DEF Fill, Goto, TypeOK, CreateInv, Slotless, Full, Creating, OneCreator
<1>4. HoldInv'
  BY <1>0, PoolAssumption
     DEF Fill, Goto, TypeOK, HoldInv, Holds, Slotless, Full, CreateInv, Creating,
         HandleInv, Slots
<1>5. DistinctSlots'
  BY <1>0, PoolAssumption DEF Fill, Goto, TypeOK, DistinctSlots
<1> QED  BY <1>1, <1>2, <1>3, <1>4, <1>5 DEF IInv

(* Storing the index: the object is the only one to have it. *)
LEMMA PublishKeeps ==
    ASSUME OneCreator, IInv, NEW c \in Cores, Publish(c)
    PROVE  IInv'
<1>0. TypeOK /\ HandleInv /\ CreateInv /\ HoldInv /\ DistinctSlots
  BY DEF IInv
<1>1. TypeOK'
  <2>1. idx[c] \in -1 .. MAX - 1 /\ obj[c] \in Objs
    BY <1>0, PoolAssumption DEF Publish, TypeOK, CreateInv, Slotless, Full, Creating
  <2>2. handle' \in [Objs -> -1 .. MAX - 1]
    BY <1>0, <2>1 DEF Publish, TypeOK
  <2>3. CASE lazy[c]
    BY <1>0, <2>2, <2>3 DEF Publish, Goto, TypeOK
  <2>4. CASE ~lazy[c]
    <3>1. -1 \in -1 .. MAX
      BY PoolAssumption
    <3> QED  BY <1>0, <2>2, <2>4, <3>1 DEF Publish, Return, Goto, TypeOK
  <2> QED  BY <2>3, <2>4
<1>2. HandleInv'
  BY <1>0, PoolAssumption DEF Publish, Return, Goto, TypeOK, HandleInv, CreateInv
<1>3. CreateInv'
  BY <1>0, PoolAssumption
     DEF Publish, Return, Goto, TypeOK, CreateInv, Slotless, Full, Creating, OneCreator
<1>4. HoldInv'
  BY <1>0, PoolAssumption
     DEF Publish, Return, Goto, TypeOK, HoldInv, Holds, Slotless, Full, CreateInv,
         Creating
<1>5. DistinctSlots'
  BY <1>0, PoolAssumption DEF Publish, Return, Goto, TypeOK, DistinctSlots, CreateInv
<1> QED  BY <1>1, <1>2, <1>3, <1>4, <1>5 DEF IInv

(* Entering the mutex of the slot. *)
LEMMA EnterSlotKeeps ==
    ASSUME OneCreator, IInv, NEW c \in Cores, EnterSlot(c)
    PROVE  IInv'
<1>0. TypeOK /\ HandleInv /\ CreateInv /\ HoldInv /\ DistinctSlots
  BY DEF IInv
<1>1. TypeOK'
  BY <1>0, PoolAssumption
     DEF EnterSlot, Return, Goto, TypeOK, HoldInv, Holds, Slotless, Full, Slots
<1>2. HandleInv'
  BY <1>0, PoolAssumption DEF EnterSlot, Return, Goto, TypeOK, HandleInv
<1>3. CreateInv'
  BY <1>0, PoolAssumption
     DEF EnterSlot, Return, Goto, TypeOK, CreateInv, Slotless, Full, Creating, HandleInv,
         OneCreator
<1>4. HoldInv'
  BY <1>0, PoolAssumption
     DEF EnterSlot, Return, Goto, TypeOK, HoldInv, Holds, Slotless, Full, DistinctSlots,
         HandleInv, Slots
<1>5. DistinctSlots'
  BY <1>0, PoolAssumption DEF EnterSlot, Return, Goto, TypeOK, DistinctSlots
<1> QED  BY <1>1, <1>2, <1>3, <1>4, <1>5 DEF IInv

(* Leaving it: another object held by the core has another slot. *)
LEMMA UnlockKeeps ==
    ASSUME OneCreator, IInv, NEW c \in Cores, NEW o \in Objs, Unlock(c, o)
    PROVE  IInv'
<1>0. TypeOK /\ HandleInv /\ CreateInv /\ HoldInv /\ DistinctSlots
  BY DEF IInv
<1>1. TypeOK'
  <2>1. holder' \in [Slots -> Cores \cup {NoCore}]
    BY <1>0 DEF Unlock, TypeOK
  <2>2. held' \in [Cores -> SUBSET Objs]
    BY <1>0 DEF Unlock, TypeOK
  <2> QED  BY <1>0, <2>1, <2>2 DEF Unlock, TypeOK
<1>2. HandleInv'
  BY <1>0, PoolAssumption DEF Unlock, Initialised, TypeOK, HandleInv
<1>3. CreateInv'
  BY <1>0, PoolAssumption
     DEF Unlock, Initialised, TypeOK, CreateInv, Slotless, Full, Creating, OneCreator
<1>4. HoldInv'
  BY <1>0, PoolAssumption
     DEF Unlock, Initialised, TypeOK, HoldInv, Holds, Slotless, Full, DistinctSlots,
         HandleInv, Slots
<1>5. DistinctSlots'
  BY <1>0, PoolAssumption DEF Unlock, Initialised, TypeOK, DistinctSlots
<1> QED  BY <1>1, <1>2, <1>3, <1>4, <1>5 DEF IInv

LEMMA IInvInductive ==
    ASSUME OneCreator, IInv, [Next]_vars
    PROVE  IInv'
<1>1. ASSUME NEW c \in Cores, Step(c)  PROVE IInv'
  BY <1>1, CheckKeeps, BoundKeeps, LoadKeeps, StoreKeeps, FillKeeps, PublishKeeps,
     EnterSlotKeeps DEF Step
<1>2. ASSUME NEW c \in Cores, NEW o \in Objs, Lock(c, o) \/ MutexInit(c, o) \/ Unlock(c, o)
      PROVE  IInv'
  BY <1>2, LockKeeps, MutexInitKeeps, UnlockKeeps
<1>3. CASE UNCHANGED vars
  BY <1>3 DEF vars, IInv, TypeOK, HandleInv, CreateInv, HoldInv, DistinctSlots, Holds,
     Slotless, Full
<1> QED  BY <1>1, <1>2, <1>3 DEF Next

LEMMA InvariantHolds ==
    ASSUME OneCreator
    PROVE  Spec => []IInv
<1>1. IInv /\ [Next]_vars => IInv'
  BY IInvInductive
<1> QED  BY <1>1, InitIInv, PTL DEF Spec

(* With one creating core, every variable keeps its type: the counter never*)
(* passes the size of the pool.                                            *)
THEOREM TypeCorrect ==
    ASSUME OneCreator
    PROVE  Spec => []TypeOK
<1>1. IInv => TypeOK
  BY DEF IInv
<1> QED  BY <1>1, InvariantHolds, PTL

(* With one creating core, no two mutexes share a slot. *)
THEOREM DistinctSlotsHolds ==
    ASSUME OneCreator
    PROVE  Spec => []DistinctSlots
<1>1. IInv => DistinctSlots
  BY DEF IInv
<1> QED  BY <1>1, InvariantHolds, PTL

(* With one creating core, no slot past the end of the pool is written. *)
THEOREM InBoundsHolds ==
    ASSUME OneCreator
    PROVE  Spec => []InBounds
<1>1. IInv => InBounds
  BY PoolAssumption DEF IInv, TypeOK, CreateInv, InBounds
<1> QED  BY <1>1, InvariantHolds, PTL

(* With one creating core, a mutex is held by one core at a time, also     *)
(* while it or another mutex is being initialised.                         *)
THEOREM ObjectExclusionHolds ==
    ASSUME OneCreator
    PROVE  Spec => []ObjectExclusion
<1>1. IInv => ObjectExclusion
  BY PoolAssumption DEF IInv, TypeOK, HoldInv, Holds, Slotless, ObjectExclusion
<1> QED  BY <1>1, InvariantHolds, PTL

-----------------------------------------------------------------------------
(* The pool of condition variables, and waits in it                        *)

CondPlace == {"idle", "check", "bound", "load", "store", "fill", "publish", "act",
              "release", "sleep", "relock"}

CallRecord ==
    [at : CondPlace, op : {"none", "wait", "signal", "broadcast", "init"},
     cond : Conds \cup {"none"}, idx : -1 .. MaxConds,
     mutex_idx : -1 .. MAX - 1, my_gen : Nat]

CondTypeOK ==
    /\ call \in [Cores -> CallRecord]
    /\ ccount \in 0 .. MaxConds
    /\ chandle \in [Conds -> -1 .. MaxConds - 1]
    /\ condvar \in [CondSlots -> [magic : BOOLEAN, waiters : Nat, generation : Nat]]

(* As HandleInv and DistinctSlots. *)
CondHandleInv ==
    /\ \A o \in Conds : chandle[o] >= 0 =>
          chandle[o] < ccount /\ condvar[chandle[o]].magic
    /\ \A o, p \in Conds : chandle[o] >= 0 /\ chandle[o] = chandle[p] => o = p

(* What the creator knows at each step of an initialisation, and others    *)
(* when they look for the slot.                                            *)
CondCreateInv ==
    \A c \in Cores : LET k == call[c] IN
        /\ k.at \in Creating => c \in Creators /\ k.cond \in Conds /\ chandle[k.cond] = -1
        /\ k.at = "check" => k.cond \in Conds /\ (c \in Creators \/ chandle[k.cond] >= 0)
        /\ k.at = "load" => ccount < MaxConds
        /\ k.at = "store" => k.idx = ccount /\ ccount < MaxConds
        /\ k.at \in {"fill", "publish"} =>
              /\ k.idx >= 0 /\ k.idx = ccount - 1
              /\ \A o \in Conds : chandle[o] /= k.idx
        /\ k.at = "publish" => condvar[k.idx].magic

(* A core in a call on a condition variable is in none on a mutex, and has *)
(* the mutex of its wait up to its release; then it knows the mutex's      *)
(* slot, or that it has none and gets none.                                *)
CallOK(c) ==
    LET k == call[c] IN
        /\ k.at # "idle" => pc[c] = "idle"
        /\ k.at \in {"act", "release", "sleep", "relock"} =>
              k.cond \in Conds /\ k.idx >= 0 /\ k.idx = chandle[k.cond]
        /\ k.op = "wait" /\ k.at \notin {"idle", "sleep", "relock"} =>
              k.cond \in Conds /\ MutexOf[k.cond] \in held[c]
        /\ k.at \in {"release", "sleep", "relock"} =>
              /\ k.op = "wait"
              /\ k.mutex_idx = handle[MutexOf[k.cond]]
              /\ k.mutex_idx >= 0 \/ Slotless(MutexOf[k.cond])
        /\ Waits(c) => k.my_gen <= condvar[k.idx].generation

CallInv == \A c \in Cores : CallOK(c)

Sleepers(i) == {c \in Cores : Waits(c) /\ call[c].idx = i}

(* Nobody is missing from the number of waiters of a slot. *)
SleepersInv ==
    \A i \in CondSlots :
        IsFiniteSet(Sleepers(i)) /\ condvar[i].waiters = Cardinality(Sleepers(i))

CondInv == CondTypeOK /\ CondHandleInv /\ CondCreateInv /\ CallInv /\ SleepersInv

LEMMA InitCondInv == PoolsInit => IInv /\ CondInv
<1> SUFFICES ASSUME PoolsInit  PROVE IInv /\ CondInv
  OBVIOUS
<1>1. IInv
  BY InitIInv DEF PoolsInit
<1>2. /\ call = [c \in Cores |-> NoCall] /\ ccount = 0 /\ chandle = [o \in Conds |-> -1]
      /\ condvar = [i \in CondSlots |-> [magic |-> FALSE, waiters |-> 0, generation |-> 0]]
  BY DEF PoolsInit, CondInit
<1>3. MAX \in Nat /\ MaxConds \in Nat
  BY PoolAssumption, CondAssumption
<1>4. CondTypeOK
  BY <1>2, <1>3 DEF CondTypeOK, CallRecord, CondPlace, NoCall
<1>5. CondHandleInv /\ CondCreateInv /\ CallInv
  BY <1>2 DEF CondHandleInv, CondCreateInv, CallInv, CallOK, NoCall, Creating, Waits
<1>6. SleepersInv
  <2>1. \A i : Sleepers(i) = {}
    BY <1>2 DEF Sleepers, Waits, NoCall
  <2>2. IsFiniteSet({}) /\ Cardinality({}) = 0
    BY FS_EmptySet
  <2> QED  BY <1>2, <2>1, <2>2 DEF SleepersInv
<1> QED  BY <1>1, <1>4, <1>5, <1>6 DEF CondInv

(* A step of a core that neither registers nor wakes changes no set of     *)
(* sleepers.                                                               *)
LEMMA SameSleepers ==
    ASSUME NEW c \in Cores, \A d \in Cores \ {c} : call'[d] = call[d],
           Waits(c)' = Waits(c), Waits(c) => call'[c].idx = call[c].idx,
           NEW i
    PROVE  Sleepers(i)' = Sleepers(i)
  BY DEF Sleepers, Waits

(* An initialisation is under way on one core only. *)
LEMMA OneInitialises ==
    ASSUME OneCreator, CondCreateInv, NEW c \in Cores, call[c].at \in Creating
    PROVE  \A d \in Cores : call[d].at \in Creating => d = c
  BY DEF CondCreateInv, OneCreator

(* An object that the full pool left without a slot stays without. *)
LEMMA SlotlessStable ==
    ASSUME IInv, NEW c \in Cores, InMutexCall(c), NEW o \in Objs, Slotless(o)
    PROVE  Slotless(o)'
<1>0. TypeOK /\ CreateInv /\ count \in Nat /\ MAX \in Nat
  BY PoolAssumption DEF IInv, TypeOK
<1>1. CASE Publish(c) \/ Fill(c)
  BY <1>0, <1>1 DEF Publish, Return, Fill, Goto, Slotless, Full, TypeOK, CreateInv, Creating
<1>2. CASE Store(c)
  BY <1>0, <1>2 DEF Store, Slotless, Full, CreateInv
<1>3. CASE Check(c) \/ Bound(c) \/ Load(c) \/ EnterSlot(c)
  BY <1>0, <1>3 DEF Check, Bound, Load, EnterSlot, Return, Goto, Slotless, Full, TypeOK
<1>4. CASE \E p \in Objs : Lock(c, p) \/ MutexInit(c, p) \/ Unlock(c, p)
  BY <1>0, <1>4 DEF Lock, MutexInit, Unlock, Begin, Goto, Slotless, Full, TypeOK
<1> QED  BY <1>1, <1>2, <1>3, <1>4 DEF InMutexCall, Step

(* The calls on mutexes leave the pool of condition variables alone, and   *)
(* the objects and slots that a wait counts on.                            *)
LEMMA MutexCallKeeps ==
    ASSUME OneCreator, IInv, CondInv, NEW c \in Cores, InMutexCall(c)
    PROVE  IInv' /\ CondInv'
<1>1. IInv'
  <2>1. Next
    BY DEF InMutexCall, Next
  <2> QED  BY <2>1, IInvInductive
<1>2. UNCHANGED condVars /\ call[c].at = "idle"
  BY DEF InMutexCall, CondAt
<1>3. \A d \in Cores \ {c} : pc'[d] = pc[d] /\ held'[d] = held[d]
  <2>1. CASE Bound(c) \/ Publish(c) \/ EnterSlot(c)
    BY <2>1 DEF Bound, Publish, EnterSlot, Return, Goto, IInv, TypeOK
  <2>2. CASE ~(Bound(c) \/ Publish(c) \/ EnterSlot(c))
    BY <2>2
       DEF InMutexCall, Step, Check, Load, Store, Fill, Lock, MutexInit, Unlock, Begin,
           Goto,
           IInv, TypeOK
  <2> QED  BY <2>1, <2>2
<1>4. \A o \in Objs : handle[o] >= 0 \/ Slotless(o) => handle'[o] = handle[o]
  <2>1. CASE Publish(c)
    BY <2>1 DEF Publish, IInv, TypeOK, CreateInv, Creating, Slotless
  <2>2. CASE ~Publish(c)
    BY <2>2
       DEF InMutexCall, Step, Check, Bound, Load, Store, Fill, EnterSlot, Lock, MutexInit,
                Unlock, Begin
  <2> QED  BY <2>1, <2>2
<1>8. \A o \in Objs : Slotless(o) => Slotless(o)'
  BY SlotlessStable
<1>5. \A o \in Conds : MutexOf[o] \in Objs
  BY CondAssumption
<1>6. CallInv'
  BY <1>2, <1>3, <1>4, <1>5, <1>8 DEF CondInv, CallInv, CallOK, condVars, Waits
<1>7. CondTypeOK' /\ CondHandleInv' /\ CondCreateInv' /\ SleepersInv'
  BY <1>2
     DEF CondInv, CondTypeOK, CondHandleInv, CondCreateInv, SleepersInv, Sleepers, Waits,
              condVars
<1> QED  BY <1>1, <1>6, <1>7 DEF CondInv

LEMMA NoCallType == NoCall \in CallRecord
  BY PoolAssumption, CondAssumption DEF NoCall, CallRecord, CondPlace

LEMMA IInvSame == IInv /\ UNCHANGED vars => IInv'
  BY DEF vars, IInv, TypeOK, HandleInv, CreateInv, HoldInv, DistinctSlots, Holds, Slotless,
     Full

(* Calling pthread_cond_wait. *)
LEMMA CondWaitKeeps ==
    ASSUME OneCreator, IInv, CondInv, NEW c \in Cores, NEW o \in Conds, CondWait(c, o)
    PROVE  IInv' /\ CondInv'
<1> DEFINE k == call[c]
           r == [NoCall EXCEPT !.at = "check", !.op = "wait", !.cond = o]
<1>0. CondTypeOK /\ CondHandleInv /\ CondCreateInv /\ CallInv /\ SleepersInv
  BY DEF CondInv
<1>1. /\ call' = [call EXCEPT ![c] = r]
      /\ k.at = "idle" /\ pc[c] = "idle" /\ Usable(c, o) /\ MutexOf[o] \in held[c]
      /\ UNCHANGED <<ccount, chandle, condvar, vars>>
  BY <1>0 DEF CondWait, Wants, CondAt, CondGoto, CondTypeOK, CallRecord
<1>2. call'[c] = r /\ \A d \in Cores \ {c} : call'[d] = call[d]
  BY <1>0, <1>1 DEF CondTypeOK
<1>3. IInv'
  BY <1>1, IInvSame
<1>4. k \in CallRecord /\ MAX \in Nat /\ MaxConds \in Nat
  BY <1>0, PoolAssumption, CondAssumption DEF CondTypeOK
<1>5. CondTypeOK'
  <2>1. r \in CallRecord
    BY <1>4, NoCallType DEF CallRecord, CondPlace
  <2> QED  BY <1>0, <1>1, <2>1 DEF CondTypeOK
<1>6. CondHandleInv'
  BY <1>0, <1>1 DEF CondHandleInv
<1>7. CondCreateInv'
  BY <1>0, <1>1, <1>2, <1>4 DEF CondCreateInv, CallRecord, Creating, NoCall, Usable
<1>8. CallInv'
  BY <1>0, <1>1, <1>2, <1>4
     DEF CallInv, CallOK, CallRecord, NoCall, vars, Waits, Slotless, Full
<1>9. SleepersInv'
  <2>1. \A i : Sleepers(i)' = Sleepers(i)
    BY <1>1, <1>2, SameSleepers DEF Waits, NoCall
  <2> QED  BY <1>0, <1>1, <2>1 DEF SleepersInv
<1> QED  BY <1>3, <1>5, <1>6, <1>7, <1>8, <1>9 DEF CondInv

(* Calling pthread_cond_signal or pthread_cond_broadcast. *)
LEMMA NotifyKeeps ==
    ASSUME OneCreator, IInv, CondInv, NEW c \in Cores, NEW o \in Conds,
           NEW op \in {"signal", "broadcast"}, Usable(c, o), Wants(c, op, o, "check")
    PROVE  IInv' /\ CondInv'
<1> DEFINE k == call[c]
           r == [NoCall EXCEPT !.at = "check", !.op = op, !.cond = o]
<1>0. CondTypeOK /\ CondHandleInv /\ CondCreateInv /\ CallInv /\ SleepersInv
  BY DEF CondInv
<1>1. /\ call' = [call EXCEPT ![c] = r]
      /\ k.at = "idle" /\ pc[c] = "idle" /\ Usable(c, o)
      /\ UNCHANGED <<ccount, chandle, condvar, vars>>
  BY <1>0 DEF Wants, CondAt, CondGoto, CondTypeOK, CallRecord
<1>2. call'[c] = r /\ \A d \in Cores \ {c} : call'[d] = call[d]
  BY <1>0, <1>1 DEF CondTypeOK
<1>3. IInv'
  BY <1>1, IInvSame
<1>4. k \in CallRecord /\ MAX \in Nat /\ MaxConds \in Nat
  BY <1>0, PoolAssumption, CondAssumption DEF CondTypeOK
<1>5. CondTypeOK'
  <2>1. r \in CallRecord
    BY <1>4, NoCallType DEF CallRecord, CondPlace
  <2> QED  BY <1>0, <1>1, <2>1 DEF CondTypeOK
<1>6. CondHandleInv'
  BY <1>0, <1>1 DEF CondHandleInv
<1>7. CondCreateInv'
  BY <1>0, <1>1, <1>2, <1>4 DEF CondCreateInv, CallRecord, Creating, NoCall, Usable
<1>8. CallInv'
  BY <1>0, <1>1, <1>2, <1>4
     DEF CallInv, CallOK, CallRecord, NoCall, vars, Waits, Slotless, Full
<1>9. SleepersInv'
  <2>1. \A i : Sleepers(i)' = Sleepers(i)
    BY <1>1, <1>2, SameSleepers DEF Waits, NoCall
  <2> QED  BY <1>0, <1>1, <2>1 DEF SleepersInv
<1> QED  BY <1>3, <1>5, <1>6, <1>7, <1>8, <1>9 DEF CondInv

(* Calling pthread_cond_init. *)
LEMMA CondCreateKeeps ==
    ASSUME OneCreator, IInv, CondInv, NEW c \in Cores, NEW o \in Conds, CondCreate(c, o)
    PROVE  IInv' /\ CondInv'
<1> DEFINE k == call[c]
           r == [NoCall EXCEPT !.at = "bound", !.op = "init", !.cond = o]
<1>0. CondTypeOK /\ CondHandleInv /\ CondCreateInv /\ CallInv /\ SleepersInv
  BY DEF CondInv
<1>1. /\ call' = [call EXCEPT ![c] = r]
      /\ k.at = "idle" /\ pc[c] = "idle" /\ c \in Creators /\ chandle[o] = -1
      /\ UNCHANGED <<ccount, chandle, condvar, vars>>
  BY <1>0 DEF CondCreate, Wants, CondAt, CondGoto, CondTypeOK, CallRecord
<1>2. call'[c] = r /\ \A d \in Cores \ {c} : call'[d] = call[d]
  BY <1>0, <1>1 DEF CondTypeOK
<1>3. IInv'
  BY <1>1, IInvSame
<1>4. k \in CallRecord /\ MAX \in Nat /\ MaxConds \in Nat
  BY <1>0, PoolAssumption, CondAssumption DEF CondTypeOK
<1>5. CondTypeOK'
  <2>1. r \in CallRecord
    BY <1>4, NoCallType DEF CallRecord, CondPlace
  <2> QED  BY <1>0, <1>1, <2>1 DEF CondTypeOK
<1>6. CondHandleInv'
  BY <1>0, <1>1 DEF CondHandleInv
<1>7. CondCreateInv'
  BY <1>0, <1>1, <1>2, <1>4 DEF CondCreateInv, CallRecord, Creating, NoCall
<1>8. CallInv'
  BY <1>0, <1>1, <1>2, <1>4
     DEF CallInv, CallOK, CallRecord, NoCall, vars, Waits, Slotless, Full
<1>9. SleepersInv'
  <2>1. \A i : Sleepers(i)' = Sleepers(i)
    BY <1>1, <1>2, SameSleepers DEF Waits, NoCall
  <2> QED  BY <1>0, <1>1, <2>1 DEF SleepersInv
<1> QED  BY <1>3, <1>5, <1>6, <1>7, <1>8, <1>9 DEF CondInv

(* Testing whether the object has a slot. *)
LEMMA CondCheckKeeps ==
    ASSUME OneCreator, IInv, CondInv, NEW c \in Cores, CondCheck(c)
    PROVE  IInv' /\ CondInv'
<1> DEFINE k == call[c]
           r == [k EXCEPT !.idx = chandle[k.cond],
                       !.at = IF Ready(chandle[k.cond]) THEN "act" ELSE "bound"]
<1>0. CondTypeOK /\ CondHandleInv /\ CondCreateInv /\ CallInv /\ SleepersInv
  BY DEF CondInv
<1>1. /\ call' = [call EXCEPT ![c] = r]
      /\ k.at = "check"
      /\ UNCHANGED <<ccount, chandle, condvar, vars>>
  BY <1>0 DEF CondCheck, CondAt, CondGoto, CondTypeOK, CallRecord
<1>2. call'[c] = r /\ \A d \in Cores \ {c} : call'[d] = call[d]
  BY <1>0, <1>1 DEF CondTypeOK
<1>3. IInv'
  BY <1>1, IInvSame
<1>4. k \in CallRecord /\ MAX \in Nat /\ MaxConds \in Nat
  BY <1>0, PoolAssumption, CondAssumption DEF CondTypeOK
<1>10. /\ k.cond \in Conds /\ chandle[k.cond] \in -1 .. MaxConds - 1
       /\ Ready(chandle[k.cond]) <=> chandle[k.cond] >= 0
  BY <1>0, <1>1, <1>4 DEF CondTypeOK, CondCreateInv, CondHandleInv, Ready, CondSlots
<1>5. CondTypeOK'
  <2>1. r \in CallRecord
    <3>1. \A a \in CondPlace, i \in -1 .. MaxConds : [k EXCEPT !.idx = i, !.at = a] \in CallRecord
      BY <1>4 DEF CallRecord
    <3>2. (IF Ready(chandle[k.cond]) THEN "act" ELSE "bound") \in CondPlace
      BY DEF CondPlace
    <3>3. chandle[k.cond] \in -1 .. MaxConds
      BY <1>4, <1>10
    <3> QED  BY <3>1, <3>2, <3>3
  <2> QED  BY <1>0, <1>1, <2>1 DEF CondTypeOK
<1>6. CondHandleInv'
  BY <1>0, <1>1 DEF CondHandleInv
<1>7. CondCreateInv'
  BY <1>0, <1>1, <1>2, <1>4, <1>10 DEF CondCreateInv, CallRecord, Creating
<1>8. CallInv'
  BY <1>0, <1>1, <1>2, <1>4, <1>10
     DEF CallInv, CallOK, CallRecord, vars, Waits, Slotless, Full
<1>9. SleepersInv'
  <2>1. \A i : Sleepers(i)' = Sleepers(i)
    BY <1>1, <1>2, SameSleepers DEF Waits, NoCall
  <2> QED  BY <1>0, <1>1, <2>1 DEF SleepersInv
<1> QED  BY <1>3, <1>5, <1>6, <1>7, <1>8, <1>9 DEF CondInv

(* Testing whether the pool is full. *)
LEMMA CondBoundKeeps ==
    ASSUME OneCreator, IInv, CondInv, NEW c \in Cores, CondBound(c)
    PROVE  IInv' /\ CondInv'
<1> DEFINE k == call[c]
           r == IF ccount >= MaxConds THEN NoCall ELSE [k EXCEPT !.at = "load"]
<1>0. CondTypeOK /\ CondHandleInv /\ CondCreateInv /\ CallInv /\ SleepersInv
  BY DEF CondInv
<1>1. /\ call' = [call EXCEPT ![c] = r]
      /\ k.at = "bound"
      /\ UNCHANGED <<ccount, chandle, condvar, vars>>
  BY <1>0 DEF CondBound, CondAt, CondGoto, CondTypeOK, CallRecord
<1>2. call'[c] = r /\ \A d \in Cores \ {c} : call'[d] = call[d]
  BY <1>0, <1>1 DEF CondTypeOK
<1>3. IInv'
  BY <1>1, IInvSame
<1>4. k \in CallRecord /\ MAX \in Nat /\ MaxConds \in Nat
  BY <1>0, PoolAssumption, CondAssumption DEF CondTypeOK
<1>10. /\ r.at \in {"idle", "load"}
       /\ r.at = "load" => r.op = k.op /\ r.cond = k.cond
       /\ r.op = "wait" => r.at = "load"
  BY <1>4 DEF CallRecord, NoCall
<1>5. CondTypeOK'
  <2>1. r \in CallRecord
    BY <1>4, NoCallType DEF CallRecord, CondPlace
  <2> QED  BY <1>0, <1>1, <2>1 DEF CondTypeOK
<1>6. CondHandleInv'
  BY <1>0, <1>1 DEF CondHandleInv
<1>7. CondCreateInv'
  BY <1>0, <1>1, <1>2, <1>4 DEF CondCreateInv, CallRecord, Creating, NoCall, CondTypeOK
<1>8. CallInv'
  <2> HIDE DEF r
  <2>1. \A d \in Cores \ {c} : CallOK(d)'
    BY <1>0, <1>1, <1>2 DEF CallInv, CallOK, vars, Waits, Slotless, Full
  <2>2. CallOK(c)'
    BY <1>0, <1>1, <1>2, <1>10 DEF CallInv, CallOK, vars, Waits, Slotless, Full
  <2> QED  BY <2>1, <2>2 DEF CallInv
<1>9. SleepersInv'
  <2>1. \A i : Sleepers(i)' = Sleepers(i)
    BY <1>1, <1>2, SameSleepers DEF Waits, NoCall
  <2> QED  BY <1>0, <1>1, <2>1 DEF SleepersInv
<1> QED  BY <1>3, <1>5, <1>6, <1>7, <1>8, <1>9 DEF CondInv

(* Reading the counter. *)
LEMMA CondLoadKeeps ==
    ASSUME OneCreator, IInv, CondInv, NEW c \in Cores, CondLoad(c)
    PROVE  IInv' /\ CondInv'
<1> DEFINE k == call[c]
           r == [k EXCEPT !.idx = ccount, !.at = "store"]
<1>0. CondTypeOK /\ CondHandleInv /\ CondCreateInv /\ CallInv /\ SleepersInv
  BY DEF CondInv
<1>1. /\ call' = [call EXCEPT ![c] = r]
      /\ k.at = "load"
      /\ UNCHANGED <<ccount, chandle, condvar, vars>>
  BY <1>0 DEF CondLoad, CondAt, CondGoto, CondTypeOK, CallRecord
<1>2. call'[c] = r /\ \A d \in Cores \ {c} : call'[d] = call[d]
  BY <1>0, <1>1 DEF CondTypeOK
<1>3. IInv'
  BY <1>1, IInvSame
<1>4. k \in CallRecord /\ MAX \in Nat /\ MaxConds \in Nat
  BY <1>0, PoolAssumption, CondAssumption DEF CondTypeOK
<1>5. CondTypeOK'
  <2>1. r \in CallRecord
    <3>1. ccount \in -1 .. MaxConds
      BY <1>0, <1>4 DEF CondTypeOK
    <3> QED  BY <1>4, <3>1 DEF CallRecord, CondPlace
  <2> QED  BY <1>0, <1>1, <2>1 DEF CondTypeOK
<1>6. CondHandleInv'
  BY <1>0, <1>1 DEF CondHandleInv
<1>7. CondCreateInv'
  BY <1>0, <1>1, <1>2, <1>4 DEF CondCreateInv, CallRecord, Creating, CondTypeOK
<1>8. CallInv'
  BY <1>0, <1>1, <1>2, <1>4
     DEF CallInv, CallOK, CallRecord, NoCall, vars, Waits, Slotless, Full
<1>9. SleepersInv'
  <2>1. \A i : Sleepers(i)' = Sleepers(i)
    BY <1>1, <1>2, SameSleepers DEF Waits, NoCall
  <2> QED  BY <1>0, <1>1, <2>1 DEF SleepersInv
<1> QED  BY <1>3, <1>5, <1>6, <1>7, <1>8, <1>9 DEF CondInv

(* Incrementing it: nobody else can have read it in between. *)
LEMMA CondStoreKeeps ==
    ASSUME OneCreator, IInv, CondInv, NEW c \in Cores, CondStore(c)
    PROVE  IInv' /\ CondInv'
<1> DEFINE k == call[c]
           r == [k EXCEPT !.at = "fill"]
<1>0. CondTypeOK /\ CondHandleInv /\ CondCreateInv /\ CallInv /\ SleepersInv
  BY DEF CondInv
<1>1. /\ call' = [call EXCEPT ![c] = r]
      /\ k.at = "store" /\ ccount' = k.idx + 1
      /\ UNCHANGED <<chandle, condvar, vars>>
  BY <1>0 DEF CondStore, CountAfter, CondAt, CondGoto, CondTypeOK, CallRecord
<1>2. call'[c] = r /\ \A d \in Cores \ {c} : call'[d] = call[d]
  BY <1>0, <1>1 DEF CondTypeOK
<1>3. IInv'
  BY <1>1, IInvSame
<1>4. k \in CallRecord /\ MAX \in Nat /\ MaxConds \in Nat
  BY <1>0, PoolAssumption, CondAssumption DEF CondTypeOK
<1>10. /\ k.idx = ccount /\ ccount' = ccount + 1 /\ ccount < MaxConds /\ ccount \in Nat
       /\ \A d \in Cores \ {c} : call[d].at \notin Creating
  BY <1>0, <1>1, <1>4, OneInitialises DEF CondTypeOK, CondCreateInv, Creating
<1>5. CondTypeOK'
  <2>1. r \in CallRecord
    BY <1>4 DEF CallRecord, CondPlace
  <2>2. ccount' \in 0 .. MaxConds
    BY <1>4, <1>10
  <2> QED  BY <1>0, <1>1, <2>1, <2>2 DEF CondTypeOK
<1>6. CondHandleInv'
  BY <1>0, <1>1, <1>10 DEF CondHandleInv, CondTypeOK
<1>7. CondCreateInv'
  <2>1. \A o \in Conds : chandle[o] \in Int /\ chandle[o] /= k.idx
    BY <1>0, <1>10 DEF CondTypeOK, CondHandleInv
  <2> QED  BY <1>0, <1>1, <1>2, <1>4, <1>10, <2>1 DEF CondCreateInv, CallRecord, Creating
<1>8. CallInv'
  BY <1>0, <1>1, <1>2, <1>4
     DEF CallInv, CallOK, CallRecord, NoCall, vars, Waits, Slotless, Full
<1>9. SleepersInv'
  <2>1. \A i : Sleepers(i)' = Sleepers(i)
    BY <1>1, <1>2, SameSleepers DEF Waits, NoCall
  <2> QED  BY <1>0, <1>1, <2>1 DEF SleepersInv
<1> QED  BY <1>3, <1>5, <1>6, <1>7, <1>8, <1>9 DEF CondInv

(* Initialising the slot: no object has it yet, so nobody waits in it. *)
LEMMA CondFillKeeps ==
    ASSUME OneCreator, IInv, CondInv, NEW c \in Cores, CondFill(c)
    PROVE  IInv' /\ CondInv'
<1> DEFINE k == call[c]
           r == [k EXCEPT !.at = "publish"]
<1>0. CondTypeOK /\ CondHandleInv /\ CondCreateInv /\ CallInv /\ SleepersInv
  BY DEF CondInv
<1>1. /\ call' = [call EXCEPT ![c] = r]
      /\ k.at = "fill" /\ k.idx < MaxConds
      /\ condvar' = [condvar EXCEPT ![k.idx] = [magic |-> TRUE, waiters |-> 0, generation |-> 0]]
      /\ UNCHANGED <<ccount, chandle, vars>>
  BY <1>0 DEF CondFill, CondAt, CondGoto, CondTypeOK, CallRecord
<1>2. call'[c] = r /\ \A d \in Cores \ {c} : call'[d] = call[d]
  BY <1>0, <1>1 DEF CondTypeOK
<1>3. IInv'
  BY <1>1, IInvSame
<1>4. k \in CallRecord /\ MAX \in Nat /\ MaxConds \in Nat
  BY <1>0, PoolAssumption, CondAssumption DEF CondTypeOK
<1>10. /\ k.idx \in CondSlots /\ condvar'[k.idx].magic
       /\ condvar'[k.idx].waiters = 0
       /\ \A i \in CondSlots \ {k.idx} : condvar'[i] = condvar[i]
       /\ \A o \in Conds : chandle[o] # k.idx
  BY <1>0, <1>1, <1>4 DEF CondTypeOK, CondCreateInv, CondSlots, CallRecord
<1>11. \A o \in Conds : chandle[o] >= 0 => condvar'[chandle[o]] = condvar[chandle[o]]
  BY <1>0, <1>4, <1>10 DEF CondTypeOK, CondSlots
<1>5. CondTypeOK'
  <2>1. r \in CallRecord
    BY <1>4 DEF CallRecord, CondPlace
  <2> DEFINE v == [magic |-> TRUE, waiters |-> 0, generation |-> 0]
  <2>2. v \in [magic : BOOLEAN, waiters : Nat, generation : Nat]
    OBVIOUS
  <2>3. condvar' = [condvar EXCEPT ![k.idx] = v]
    BY <1>1
  <2> HIDE DEF v, r
  <2>4. condvar' \in [CondSlots -> [magic : BOOLEAN, waiters : Nat, generation : Nat]]
    BY <1>0, <2>2, <2>3 DEF CondTypeOK
  <2>5. call' \in [Cores -> CallRecord]
    BY <1>0, <1>1, <2>1 DEF CondTypeOK
  <2> QED  BY <1>0, <1>1, <2>4, <2>5 DEF CondTypeOK
<1>6. CondHandleInv'
  BY <1>0, <1>1, <1>11 DEF CondHandleInv
<1>7. CondCreateInv'
  BY <1>0, <1>1, <1>2, <1>4, <1>10, OneInitialises
     DEF CondCreateInv, CallRecord, Creating
<1>8. CallInv'
  BY <1>0, <1>1, <1>2, <1>4, <1>11
     DEF CallInv, CallOK, CallRecord, vars, Waits, Slotless, Full
<1>9. SleepersInv'
  <2>1. \A i : Sleepers(i)' = Sleepers(i)
    BY <1>1, <1>2, SameSleepers DEF Waits
  <2>2. Sleepers(k.idx) = {}
    BY <1>0, <1>10 DEF CallInv, CallOK, Sleepers, Waits
  <2>3. Cardinality({}) = 0
    BY FS_EmptySet
  <2> QED  BY <1>0, <1>10, <2>1, <2>2, <2>3 DEF SleepersInv
<1> QED  BY <1>3, <1>5, <1>6, <1>7, <1>8, <1>9 DEF CondInv

(* Storing the index: the object is the only one to have it. *)
LEMMA CondPublishKeeps ==
    ASSUME OneCreator, IInv, CondInv, NEW c \in Cores, CondPublish(c)
    PROVE  IInv' /\ CondInv'
<1> DEFINE k == call[c]
           r == IF k.op = "init" THEN NoCall ELSE [k EXCEPT !.at = "act"]
<1>0. CondTypeOK /\ CondHandleInv /\ CondCreateInv /\ CallInv /\ SleepersInv
  BY DEF CondInv
<1>1. /\ call' = [call EXCEPT ![c] = r]
      /\ k.at = "publish" /\ chandle' = [chandle EXCEPT ![k.cond] = k.idx]
      /\ UNCHANGED <<ccount, condvar, vars>>
  BY <1>0 DEF CondPublish, CondAt, CondGoto, CondTypeOK, CallRecord
<1>2. call'[c] = r /\ \A d \in Cores \ {c} : call'[d] = call[d]
  BY <1>0, <1>1 DEF CondTypeOK
<1>3. IInv'
  BY <1>1, IInvSame
<1>4. k \in CallRecord /\ MAX \in Nat /\ MaxConds \in Nat
  BY <1>0, PoolAssumption, CondAssumption DEF CondTypeOK
<1>10. /\ k.cond \in Conds /\ chandle[k.cond] = -1 /\ k.idx >= 0 /\ k.idx = ccount - 1
       /\ condvar[k.idx].magic /\ \A o \in Conds : chandle[o] # k.idx
       /\ \A d \in Cores \ {c} : call[d].at \notin Creating
  BY <1>0, <1>1, OneInitialises DEF CondCreateInv, Creating
<1>11. chandle'[k.cond] = k.idx /\ \A o \in Conds \ {k.cond} : chandle'[o] = chandle[o]
  BY <1>0, <1>1, <1>10 DEF CondTypeOK
<1>12. /\ r.at \in {"idle", "act"}
       /\ r.op = "wait" => r.at = "act"
       /\ r.at = "act" => r.op = k.op /\ r.cond = k.cond /\ r.idx = k.idx
  BY <1>4 DEF CallRecord, NoCall
<1>5. CondTypeOK'
  <2>1. r \in CallRecord
    BY <1>4 DEF CallRecord, CondPlace, NoCall
  <2>2. k.idx \in -1 .. MaxConds - 1
    BY <1>0, <1>4, <1>10 DEF CondTypeOK
  <2> QED  BY <1>0, <1>1, <2>1, <2>2 DEF CondTypeOK
<1>6. CondHandleInv'
  BY <1>0, <1>1, <1>4, <1>10, <1>11 DEF CondHandleInv, CondTypeOK
<1>7. CondCreateInv'
  BY <1>0, <1>1, <1>2, <1>4, <1>10, <1>11
     DEF CondCreateInv, CallRecord, Creating, NoCall
<1>8. CallInv'
  <2> HIDE DEF r
  <2>1. \A d \in Cores \ {c} : CallOK(d)'
    BY <1>0, <1>1, <1>2, <1>10, <1>11 DEF CallInv, CallOK, vars, Waits, Slotless, Full
  <2>2. CallOK(c)'
    BY <1>0, <1>1, <1>2, <1>10, <1>11, <1>12
       DEF CallInv, CallOK, vars, Waits, Slotless, Full
  <2> QED  BY <2>1, <2>2 DEF CallInv
<1>9. SleepersInv'
  <2>1. \A i : Sleepers(i)' = Sleepers(i)
    BY <1>1, <1>2, SameSleepers DEF Waits, NoCall
  <2> QED  BY <1>0, <1>1, <2>1 DEF SleepersInv
<1> QED  BY <1>3, <1>5, <1>6, <1>7, <1>8, <1>9 DEF CondInv

(* Registering as a waiter, under the lock of the slot. *)
LEMMA RegisterKeeps ==
    ASSUME OneCreator, IInv, CondInv, NEW c \in Cores, Register(c)
    PROVE  IInv' /\ CondInv'
<1> DEFINE k == call[c]
           r == [k EXCEPT !.at = "release", !.mutex_idx = handle[MutexOf[k.cond]],
                       !.my_gen = condvar[k.idx].generation]
<1>0. CondTypeOK /\ CondHandleInv /\ CondCreateInv /\ CallInv /\ SleepersInv
  BY DEF CondInv
<1>1. /\ call' = [call EXCEPT ![c] = r]
      /\ k.at = "act" /\ k.op = "wait"
      /\ condvar' = [condvar EXCEPT ![k.idx].waiters = @ + 1]
      /\ UNCHANGED <<ccount, chandle, vars>>
  BY <1>0 DEF Register, CondAt, CondGoto, CondTypeOK, CallRecord
<1>2. call'[c] = r /\ \A d \in Cores \ {c} : call'[d] = call[d]
  BY <1>0, <1>1 DEF CondTypeOK
<1>3. IInv'
  BY <1>1, IInvSame
<1>4. k \in CallRecord /\ MAX \in Nat /\ MaxConds \in Nat
  BY <1>0, PoolAssumption, CondAssumption DEF CondTypeOK
<1>10. k.cond \in Conds /\ k.idx \in CondSlots /\ k.idx = chandle[k.cond]
  BY <1>0, <1>1, <1>4 DEF CondTypeOK, CallInv, CallOK, CondSlots
<1>11. /\ MutexOf[k.cond] \in Objs /\ handle[MutexOf[k.cond]] \in -1 .. MAX - 1
       /\ handle[MutexOf[k.cond]] >= 0 \/ Slotless(MutexOf[k.cond])
  <2>1. MutexOf[k.cond] \in Objs
    BY <1>10, CondAssumption
  <2>2. MutexOf[k.cond] \in held[c]
    BY <1>0, <1>1 DEF CallInv, CallOK
  <2>3. handle[MutexOf[k.cond]] \in -1 .. MAX - 1
    BY <2>1 DEF IInv, TypeOK
  <2>4. Holds(c, MutexOf[k.cond])
    BY <2>2 DEF IInv, HoldInv
  <2> QED  BY <2>1, <2>3, <2>4 DEF Holds
<1>12. /\ \A i \in CondSlots : condvar'[i].magic = condvar[i].magic
       /\ \A i \in CondSlots : condvar'[i].generation = condvar[i].generation
       /\ condvar'[k.idx].waiters = condvar[k.idx].waiters + 1
       /\ \A i \in CondSlots \ {k.idx} : condvar'[i].waiters = condvar[i].waiters
       /\ condvar[k.idx].generation \in Nat
  BY <1>0, <1>1, <1>10 DEF CondTypeOK
<1>13. /\ r.at = "release" /\ r.op = k.op /\ r.cond = k.cond /\ r.idx = k.idx
       /\ r.mutex_idx = handle[MutexOf[k.cond]] /\ r.my_gen = condvar[k.idx].generation
  BY <1>4 DEF CallRecord
<1>5. CondTypeOK'
  <2>1. r \in CallRecord
    <3>1. \A a \in CondPlace, m \in -1 .. MAX - 1, g \in Nat :
            [k EXCEPT !.at = a, !.mutex_idx = m, !.my_gen = g] \in CallRecord
      BY <1>4 DEF CallRecord
    <3>2. handle[MutexOf[k.cond]] \in -1 .. MAX - 1 /\ "release" \in CondPlace
      BY <1>4, <1>11 DEF CondPlace
    <3> QED  BY <1>12, <3>1, <3>2
  <2> DEFINE v == [condvar[k.idx] EXCEPT !.waiters = @ + 1]
  <2>2. v \in [magic : BOOLEAN, waiters : Nat, generation : Nat]
    BY <1>0, <1>10 DEF CondTypeOK
  <2>3. condvar' = [condvar EXCEPT ![k.idx] = v]
    BY <1>1
  <2> HIDE DEF v, r
  <2>4. condvar' \in [CondSlots -> [magic : BOOLEAN, waiters : Nat, generation : Nat]]
    BY <1>0, <2>2, <2>3 DEF CondTypeOK
  <2>5. call' \in [Cores -> CallRecord]
    BY <1>0, <1>1, <2>1 DEF CondTypeOK
  <2> QED  BY <1>0, <1>1, <2>4, <2>5 DEF CondTypeOK
<1>6. CondHandleInv'
  BY <1>0, <1>1, <1>4, <1>12 DEF CondHandleInv, CondTypeOK, CondSlots
<1>7. CondCreateInv'
  <2>1. \A d \in Cores : call[d].at = "publish" => call[d].idx \in CondSlots
    BY <1>0, <1>4 DEF CondCreateInv, CondTypeOK, CondSlots
  <2>2. r.at = "release"
    BY <1>4 DEF CallRecord
  <2>3. ccount' = ccount /\ chandle' = chandle
    BY <1>1
  <2> HIDE DEF r
  <2> QED  BY <1>0, <1>2, <1>12, <2>1, <2>2, <2>3 DEF CondCreateInv, Creating
<1>8. CallInv'
  <2>1. \A d \in Cores : Waits(d) => call[d].idx \in CondSlots
    BY <1>0, <1>4 DEF CallInv, CallOK, CondTypeOK, CondSlots, Waits
  <2>2. MutexOf[k.cond] \in held[c]
    BY <1>0, <1>1 DEF CallInv, CallOK
  <2> HIDE DEF r
  <2>3. \A d \in Cores \ {c} : CallOK(d)'
    BY <1>0, <1>1, <1>2, <1>12, <2>1 DEF CallInv, CallOK, vars, Waits, Slotless, Full
  <2>4. pc[c] = "idle" /\ k.idx >= 0
    BY <1>0, <1>1 DEF CallInv, CallOK
  <2>5. pc' = pc /\ held' = held /\ chandle' = chandle /\ handle' = handle
    BY <1>1 DEF vars
  <2>0. PICK o : o = MutexOf[k.cond]
    OBVIOUS
  <2>6. handle[o] >= 0 \/ Slotless(o)'
    BY <1>1, <1>11, <2>0 DEF Slotless, Full, vars
  <2>7. /\ r.my_gen = condvar'[r.idx].generation /\ r.my_gen \in Nat
        /\ r.my_gen <= condvar'[r.idx].generation
    BY <1>10, <1>12, <1>13
  <2>8. CallOK(c)'
    BY <1>1, <1>2, <1>10, <1>13, <2>0, <2>2, <2>4, <2>5, <2>6, <2>7 DEF CallOK, Waits
  <2> QED  BY <2>3, <2>8 DEF CallInv
<1>9. SleepersInv'
  <2>0. PICK i \in CondSlots : i = k.idx
    BY <1>10
  <2> HIDE DEF r
  <2>1. c \notin Sleepers(i) /\ Sleepers(i)' = Sleepers(i) \cup {c}
    BY <1>1, <1>2, <1>13, <2>0 DEF Sleepers, Waits
  <2>2. \A j \in CondSlots \ {i} : Sleepers(j)' = Sleepers(j)
    BY <1>1, <1>2, <1>13, <2>0 DEF Sleepers, Waits
  <2>3. IsFiniteSet(Sleepers(i)) /\ condvar[i].waiters = Cardinality(Sleepers(i))
    BY <1>0, <2>0 DEF SleepersInv
  <2>4. /\ IsFiniteSet(Sleepers(i) \cup {c})
        /\ Cardinality(Sleepers(i) \cup {c}) = Cardinality(Sleepers(i)) + 1
    BY <2>1, <2>3, FS_AddElement
  <2>5. IsFiniteSet(Sleepers(i)') /\ condvar'[i].waiters = Cardinality(Sleepers(i)')
    BY <1>12, <2>0, <2>1, <2>3, <2>4
  <2>6. \A j \in CondSlots \ {i} :
          IsFiniteSet(Sleepers(j)') /\ condvar'[j].waiters = Cardinality(Sleepers(j)')
    BY <1>0, <1>12, <2>0, <2>2 DEF SleepersInv
  <2> QED  BY <2>5, <2>6 DEF SleepersInv
<1> QED  BY <1>3, <1>5, <1>6, <1>7, <1>8, <1>9 DEF CondInv

(* Giving the mutex back: only this core has it. *)
LEMMA ReleaseMutexKeeps ==
    ASSUME OneCreator, IInv, CondInv, NEW c \in Cores, ReleaseMutex(c)
    PROVE  IInv' /\ CondInv'
<1> DEFINE k == call[c]
           r == [k EXCEPT !.at = "sleep"]
<1>0. CondTypeOK /\ CondHandleInv /\ CondCreateInv /\ CallInv /\ SleepersInv
  BY DEF CondInv
<1>1. /\ call' = [call EXCEPT ![c] = r]
      /\ k.at = "release"
      /\ holder' = IF Initialised(k.mutex_idx)
                     THEN [holder EXCEPT ![k.mutex_idx] = NoCore] ELSE holder
      /\ held' = [held EXCEPT ![c] = @ \ {MutexOf[k.cond]}]
      /\ UNCHANGED <<ccount, chandle, condvar, pc, obj, lazy, idx, count, magic, handle>>
  BY <1>0 DEF ReleaseMutex, CondAt, CondGoto, CondTypeOK, CallRecord
<1>2. call'[c] = r /\ \A d \in Cores \ {c} : call'[d] = call[d]
  BY <1>0, <1>1 DEF CondTypeOK
<1>3. IInv'
  <2>0. TypeOK /\ HandleInv /\ CreateInv /\ HoldInv /\ DistinctSlots
    BY DEF IInv
  <2>1. /\ k.cond \in Conds /\ MutexOf[k.cond] \in Objs
        /\ k.mutex_idx = handle[MutexOf[k.cond]]
        /\ Initialised(k.mutex_idx) => k.mutex_idx \in Slots
    BY <1>0, <1>1, <2>0, CondAssumption, PoolAssumption
       DEF CallInv, CallOK, Initialised, TypeOK, Slots
  <2>2. TypeOK'
    <3>1. holder' \in [Slots -> Cores \cup {NoCore}]
      BY <1>1, <2>0 DEF TypeOK
    <3> QED  BY <1>1, <2>0, <2>1, <3>1 DEF TypeOK
  <2>3. HandleInv' /\ CreateInv' /\ DistinctSlots'
    BY <1>1, <2>0 DEF HandleInv, CreateInv, DistinctSlots, Slotless, Full
  <2>4. HoldInv'
    <3>1. MutexOf[k.cond] \in held[c] /\ Holds(c, MutexOf[k.cond])
      BY <1>0, <1>1, <2>0 DEF CallInv, CallOK, HoldInv
    <3>2. \A d \in Cores : \A o \in held'[d] :
            o \in Objs /\ o \in held[d] /\ Holds(d, o)
      BY <1>1, <2>0 DEF TypeOK, HoldInv
    <3>3. \A d \in Cores : \A o \in held'[d] : handle[o] >= 0 => o # MutexOf[k.cond]
      BY <1>1, <2>0, <3>1, <3>2 DEF TypeOK, Holds, Slotless
    <3>4. \A d \in Cores : \A o \in held'[d] :
            handle[o] >= 0 => holder'[handle[o]] = holder[handle[o]]
      BY <1>1, <2>0, <2>1, <3>2, <3>3, PoolAssumption DEF TypeOK, DistinctSlots, Slots
    <3>5. \A o : Slotless(o)' <=> Slotless(o)
      BY <1>1 DEF Slotless, Full
    <3>6. \A d \in Cores : \A o \in held'[d] : Holds(d, o)'
      BY <1>1, <3>2, <3>4, <3>5 DEF Holds
    <3> QED  BY <1>1, <2>0, <3>6 DEF HoldInv
  <2> QED  BY <2>2, <2>3, <2>4 DEF IInv
<1>4. k \in CallRecord /\ MAX \in Nat /\ MaxConds \in Nat
  BY <1>0, PoolAssumption, CondAssumption DEF CondTypeOK
<1>5. CondTypeOK'
  <2>1. r \in CallRecord
    BY <1>4, NoCallType DEF CallRecord, CondPlace
  <2> QED  BY <1>0, <1>1, <2>1 DEF CondTypeOK
<1>6. CondHandleInv'
  BY <1>0, <1>1 DEF CondHandleInv
<1>7. CondCreateInv'
  BY <1>0, <1>1, <1>2, <1>4 DEF CondCreateInv, CallRecord, Creating, NoCall
<1>8. CallInv'
  BY <1>0, <1>1, <1>2, <1>4
     DEF CallInv, CallOK, CallRecord, Waits, Slotless, Full, IInv, TypeOK
<1>9. SleepersInv'
  <2>1. \A i : Sleepers(i)' = Sleepers(i)
    BY <1>1, <1>2, SameSleepers DEF Waits, NoCall
  <2> QED  BY <1>0, <1>1, <2>1 DEF SleepersInv
<1> QED  BY <1>3, <1>5, <1>6, <1>7, <1>8, <1>9 DEF CondInv

(* Taking it again when it is free. *)
LEMMA RelockKeeps ==
    ASSUME OneCreator, IInv, CondInv, NEW c \in Cores, Relock(c)
    PROVE  IInv' /\ CondInv'
<1> DEFINE k == call[c]
           r == NoCall
<1>0. CondTypeOK /\ CondHandleInv /\ CondCreateInv /\ CallInv /\ SleepersInv
  BY DEF CondInv
<1>1. /\ call' = [call EXCEPT ![c] = r]
      /\ k.at = "relock" /\ (Initialised(k.mutex_idx) => holder[k.mutex_idx] = NoCore)
      /\ holder' = IF Initialised(k.mutex_idx)
                     THEN [holder EXCEPT ![k.mutex_idx] = c] ELSE holder
      /\ held' = [held EXCEPT ![c] = @ \cup {MutexOf[k.cond]}]
      /\ UNCHANGED <<ccount, chandle, condvar, pc, obj, lazy, idx, count, magic, handle>>
  BY <1>0 DEF Relock, RelockFree, CondAt, CondGoto, CondTypeOK, CallRecord
<1>2. call'[c] = r /\ \A d \in Cores \ {c} : call'[d] = call[d]
  BY <1>0, <1>1 DEF CondTypeOK
<1>3. IInv'
  <2>0. TypeOK /\ HandleInv /\ CreateInv /\ HoldInv /\ DistinctSlots
    BY DEF IInv
  <2>1. /\ k.cond \in Conds /\ MutexOf[k.cond] \in Objs
        /\ k.mutex_idx = handle[MutexOf[k.cond]]
        /\ Initialised(k.mutex_idx) => k.mutex_idx \in Slots
        /\ Initialised(k.mutex_idx) \/ Slotless(MutexOf[k.cond])
    BY <1>0, <1>1, <2>0, CondAssumption, PoolAssumption
       DEF CallInv, CallOK, HandleInv, Initialised, TypeOK, Slots
  <2>2. TypeOK'
    <3>1. holder' \in [Slots -> Cores \cup {NoCore}]
      BY <1>1, <2>0 DEF TypeOK
    <3> QED  BY <1>1, <2>0, <2>1, <3>1 DEF TypeOK
  <2>3. HandleInv' /\ CreateInv' /\ DistinctSlots'
    BY <1>1, <2>0 DEF HandleInv, CreateInv, DistinctSlots, Slotless, Full
  <2>4. HoldInv'
    <3>1. \A o : Slotless(o)' <=> Slotless(o)
      BY <1>1 DEF Slotless, Full
    <3>2. \A d \in Cores : \A o \in held[d] : Holds(d, o)'
      BY <1>1, <2>0, <2>1, <3>1, PoolAssumption DEF TypeOK, HoldInv, Holds, Slots
    <3>3. \A d \in Cores : \A o \in held'[d] :
            o \in held[d] \/ (d = c /\ o = MutexOf[k.cond])
      BY <1>1, <2>0 DEF TypeOK
    <3>0. PICK o : o = MutexOf[k.cond]
      OBVIOUS
    <3>4. Holds(c, o)'
      <4>1. CASE Initialised(k.mutex_idx)
        BY <1>1, <2>0, <2>1, <3>0, <4>1 DEF TypeOK, Holds, Initialised
      <4>2. CASE ~Initialised(k.mutex_idx)
        BY <2>1, <3>0, <3>1, <4>2 DEF Holds
      <4> QED  BY <4>1, <4>2
    <3> QED  BY <1>1, <2>0, <3>0, <3>2, <3>3, <3>4 DEF HoldInv
  <2> QED  BY <2>2, <2>3, <2>4 DEF IInv
<1>4. k \in CallRecord /\ MAX \in Nat /\ MaxConds \in Nat
  BY <1>0, PoolAssumption, CondAssumption DEF CondTypeOK
<1>5. CondTypeOK'
  <2>1. r \in CallRecord
    BY <1>4, NoCallType DEF CallRecord, CondPlace
  <2> QED  BY <1>0, <1>1, <2>1 DEF CondTypeOK
<1>6. CondHandleInv'
  BY <1>0, <1>1 DEF CondHandleInv
<1>7. CondCreateInv'
  BY <1>0, <1>1, <1>2, <1>4 DEF CondCreateInv, CallRecord, Creating, NoCall
<1>8. CallInv'
  BY <1>0, <1>1, <1>2, <1>4
     DEF CallInv, CallOK, CallRecord, Waits, Slotless, Full, NoCall, IInv, TypeOK
<1>9. SleepersInv'
  <2>1. \A i : Sleepers(i)' = Sleepers(i)
    BY <1>1, <1>2, SameSleepers DEF Waits, NoCall
  <2> QED  BY <1>0, <1>1, <2>1 DEF SleepersInv
<1> QED  BY <1>3, <1>5, <1>6, <1>7, <1>8, <1>9 DEF CondInv

(* Seeing another generation, and leaving the number of waiters. *)
LEMMA WokenKeeps ==
    ASSUME OneCreator, IInv, CondInv, NEW c \in Cores, Woken(c)
    PROVE  IInv' /\ CondInv'
<1> DEFINE k == call[c]
           r == [k EXCEPT !.at = "relock"]
<1>0. CondTypeOK /\ CondHandleInv /\ CondCreateInv /\ CallInv /\ SleepersInv
  BY DEF CondInv
<1>1. /\ call' = [call EXCEPT ![c] = r]
      /\ k.at = "sleep"
      /\ condvar' = [condvar EXCEPT ![k.idx].waiters = @ - 1]
      /\ UNCHANGED <<ccount, chandle, vars>>
  BY <1>0 DEF Woken, CondAt, CondGoto, CondTypeOK, CallRecord
<1>2. call'[c] = r /\ \A d \in Cores \ {c} : call'[d] = call[d]
  BY <1>0, <1>1 DEF CondTypeOK
<1>3. IInv'
  BY <1>1, IInvSame
<1>4. k \in CallRecord /\ MAX \in Nat /\ MaxConds \in Nat
  BY <1>0, PoolAssumption, CondAssumption DEF CondTypeOK
<1>10. k.cond \in Conds /\ k.idx \in CondSlots /\ k.idx = chandle[k.cond]
  BY <1>0, <1>1, <1>4 DEF CondTypeOK, CallInv, CallOK, CondSlots
<1>11. /\ c \in Sleepers(k.idx) /\ IsFiniteSet(Sleepers(k.idx))
       /\ condvar[k.idx].waiters = Cardinality(Sleepers(k.idx))
       /\ condvar[k.idx].waiters \in Nat
  BY <1>0, <1>1, <1>10 DEF SleepersInv, Sleepers, Waits, CondTypeOK
<1>12. /\ IsFiniteSet(Sleepers(k.idx) \ {c})
       /\ Cardinality(Sleepers(k.idx) \ {c}) = condvar[k.idx].waiters - 1
       /\ condvar[k.idx].waiters - 1 \in Nat
  <2> DEFINE S == Sleepers(k.idx)
  <2> HIDE DEF S
  <2>1. IsFiniteSet(S) /\ c \in S /\ condvar[k.idx].waiters = Cardinality(S)
    BY <1>11 DEF S
  <2>2. IsFiniteSet(S \ {c}) /\ Cardinality(S \ {c}) = Cardinality(S) - 1
    BY <2>1, FS_RemoveElement
  <2>3. Cardinality(S \ {c}) \in Nat
    BY <2>2, FS_CardinalityType
  <2> QED  BY <2>1, <2>2, <2>3 DEF S
<1>13. /\ \A i \in CondSlots : condvar'[i].magic = condvar[i].magic
       /\ \A i \in CondSlots : condvar'[i].generation = condvar[i].generation
       /\ condvar'[k.idx].waiters = condvar[k.idx].waiters - 1
       /\ \A i \in CondSlots \ {k.idx} : condvar'[i].waiters = condvar[i].waiters
  BY <1>0, <1>1, <1>10 DEF CondTypeOK
<1>5. CondTypeOK'
  <2>1. r \in CallRecord
    BY <1>4 DEF CallRecord, CondPlace
  <2> DEFINE v == [condvar[k.idx] EXCEPT !.waiters = @ - 1]
  <2>2. v \in [magic : BOOLEAN, waiters : Nat, generation : Nat]
    BY <1>0, <1>10, <1>12 DEF CondTypeOK
  <2>3. condvar' = [condvar EXCEPT ![k.idx] = v]
    BY <1>1
  <2> HIDE DEF v, r
  <2>4. condvar' \in [CondSlots -> [magic : BOOLEAN, waiters : Nat, generation : Nat]]
    BY <1>0, <2>2, <2>3 DEF CondTypeOK
  <2>5. call' \in [Cores -> CallRecord]
    BY <1>0, <1>1, <2>1 DEF CondTypeOK
  <2> QED  BY <1>0, <1>1, <2>4, <2>5 DEF CondTypeOK
<1>6. CondHandleInv'
  BY <1>0, <1>1, <1>4, <1>13 DEF CondHandleInv, CondTypeOK, CondSlots
<1>7. CondCreateInv'
  <2>1. \A d \in Cores : call[d].at = "publish" => call[d].idx \in CondSlots
    BY <1>0, <1>4 DEF CondCreateInv, CondTypeOK, CondSlots
  <2>2. r.at = "relock"
    BY <1>4 DEF CallRecord
  <2>3. ccount' = ccount /\ chandle' = chandle
    BY <1>1
  <2> HIDE DEF r
  <2> QED  BY <1>0, <1>2, <1>13, <2>1, <2>2, <2>3 DEF CondCreateInv, Creating
<1>8. CallInv'
  <2>1. \A d \in Cores : Waits(d) => call[d].idx \in CondSlots
    BY <1>0, <1>4 DEF CallInv, CallOK, CondTypeOK, CondSlots, Waits
  <2>2. /\ r.at = "relock" /\ r.op = k.op /\ r.cond = k.cond /\ r.idx = k.idx
        /\ r.mutex_idx = k.mutex_idx
    BY <1>4 DEF CallRecord
  <2>3. UNCHANGED <<pc, obj, held, handle, chandle, count>>
    BY <1>1 DEF vars
  <2> HIDE DEF r
  <2>4. \A d \in Cores \ {c} : CallOK(d)'
    BY <1>0, <1>2, <1>13, <2>1, <2>3 DEF CallInv, CallOK, Waits, Slotless, Full
  <2>5. CallOK(c)'
    BY <1>0, <1>1, <1>2, <2>2, <2>3 DEF CallInv, CallOK, Waits, Slotless, Full
  <2> QED  BY <2>4, <2>5 DEF CallInv
<1>9. SleepersInv'
  <2>0. PICK i \in CondSlots : i = k.idx
    BY <1>10
  <2>1. Sleepers(i)' = Sleepers(i) \ {c}
    BY <1>1, <1>2, <1>4, <2>0 DEF Sleepers, Waits, CallRecord
  <2>2. \A j \in CondSlots \ {i} : Sleepers(j)' = Sleepers(j)
    BY <1>1, <1>2, <1>4, <2>0 DEF Sleepers, Waits, CallRecord
  <2>3. IsFiniteSet(Sleepers(i)') /\ condvar'[i].waiters = Cardinality(Sleepers(i)')
    BY <1>12, <1>13, <2>0, <2>1
  <2>4. \A j \in CondSlots \ {i} :
          IsFiniteSet(Sleepers(j)') /\ condvar'[j].waiters = Cardinality(Sleepers(j)')
    BY <1>0, <1>13, <2>0, <2>2 DEF SleepersInv
  <2> QED  BY <2>3, <2>4 DEF SleepersInv
<1> QED  BY <1>3, <1>5, <1>6, <1>7, <1>8, <1>9 DEF CondInv

(* Moving the generation of the slot, if anybody waits. *)
LEMMA NotifySlotKeeps ==
    ASSUME OneCreator, IInv, CondInv, NEW c \in Cores, NotifySlot(c)
    PROVE  IInv' /\ CondInv'
<1> DEFINE k == call[c]
           r == NoCall
<1>0. CondTypeOK /\ CondHandleInv /\ CondCreateInv /\ CallInv /\ SleepersInv
  BY DEF CondInv
<1>1. /\ call' = [call EXCEPT ![c] = r]
      /\ k.at = "act"
      /\ \/ condvar' = [condvar EXCEPT ![k.idx].generation = @ + 1]
         \/ condvar' = condvar
      /\ UNCHANGED <<ccount, chandle, vars>>
  BY <1>0 DEF NotifySlot, CondAt, CondGoto, CondTypeOK, CallRecord
<1>2. call'[c] = r /\ \A d \in Cores \ {c} : call'[d] = call[d]
  BY <1>0, <1>1 DEF CondTypeOK
<1>3. IInv'
  BY <1>1, IInvSame
<1>4. k \in CallRecord /\ MAX \in Nat /\ MaxConds \in Nat
  BY <1>0, PoolAssumption, CondAssumption DEF CondTypeOK
<1>10. k.cond \in Conds /\ k.idx \in CondSlots
  BY <1>0, <1>1, <1>4 DEF CondTypeOK, CallInv, CallOK, CondSlots
<1>11. \A i \in CondSlots :
         /\ condvar'[i].magic = condvar[i].magic /\ condvar'[i].waiters = condvar[i].waiters
         /\ condvar[i].generation \in Nat /\ condvar'[i].generation \in Nat
         /\ condvar[i].generation <= condvar'[i].generation
  <2>1. CASE condvar' = condvar
    BY <1>0, <2>1 DEF CondTypeOK
  <2>2. CASE condvar' = [condvar EXCEPT ![k.idx].generation = @ + 1]
    BY <1>0, <1>10, <2>2 DEF CondTypeOK
  <2> QED  BY <1>1, <2>1, <2>2
<1>5. CondTypeOK'
  <2>1. r \in CallRecord
    BY <1>4 DEF CallRecord, CondPlace, NoCall
  <2> DEFINE v == [condvar[k.idx] EXCEPT !.generation = @ + 1]
  <2>2. v \in [magic : BOOLEAN, waiters : Nat, generation : Nat]
    BY <1>0, <1>10 DEF CondTypeOK
  <2>3. condvar' = [condvar EXCEPT ![k.idx] = v] \/ condvar' = condvar
    BY <1>1
  <2> HIDE DEF v, r
  <2>4. condvar' \in [CondSlots -> [magic : BOOLEAN, waiters : Nat, generation : Nat]]
    BY <1>0, <2>2, <2>3 DEF CondTypeOK
  <2>5. call' \in [Cores -> CallRecord]
    BY <1>0, <1>1, <2>1 DEF CondTypeOK
  <2> QED  BY <1>0, <1>1, <2>4, <2>5 DEF CondTypeOK
<1>6. CondHandleInv'
  BY <1>0, <1>1, <1>4, <1>11 DEF CondHandleInv, CondTypeOK, CondSlots
<1>7. CondCreateInv'
  <2>1. \A d \in Cores : call[d].at = "publish" => call[d].idx \in CondSlots
    BY <1>0, <1>4 DEF CondCreateInv, CondTypeOK, CondSlots
  <2>2. r.at = "idle"
    BY <1>4 DEF CallRecord, NoCall
  <2>3. ccount' = ccount /\ chandle' = chandle
    BY <1>1
  <2> HIDE DEF r
  <2> QED  BY <1>0, <1>2, <1>11, <2>1, <2>2, <2>3 DEF CondCreateInv, Creating
<1>8. CallInv'
  <2>1. \A d \in Cores : Waits(d) => call[d].idx \in CondSlots /\ call[d].my_gen \in Nat
    BY <1>0, <1>4 DEF CallInv, CallOK, CondTypeOK, CondSlots, Waits, CallRecord
  <2> QED  BY <1>0, <1>1, <1>2, <1>4, <1>11, <2>1
     DEF CallInv, CallOK, NoCall, vars, Waits, Slotless, Full
<1>9. SleepersInv'
  <2>1. \A i : Sleepers(i)' = Sleepers(i)
    BY <1>1, <1>2, SameSleepers DEF Waits, NoCall
  <2> QED  BY <1>0, <1>11, <2>1 DEF SleepersInv
<1> QED  BY <1>3, <1>5, <1>6, <1>7, <1>8, <1>9 DEF CondInv

LEMMA CondInvInductive ==
    ASSUME OneCreator, IInv, CondInv, [PoolsNext]_<<vars, condVars>>
    PROVE  IInv' /\ CondInv'
<1>1. ASSUME NEW c \in Cores, InMutexCall(c)  PROVE IInv' /\ CondInv'
  BY <1>1, MutexCallKeeps
<1>2. ASSUME NEW c \in Cores, CondCall(c)  PROVE IInv' /\ CondInv'
  BY <1>2, CondWaitKeeps, NotifyKeeps, CondCreateKeeps DEF CondCall, Notify
<1>3. ASSUME NEW c \in Cores, CondStep(c)  PROVE IInv' /\ CondInv'
  BY <1>3, CondCheckKeeps, CondBoundKeeps, CondLoadKeeps, CondStoreKeeps, CondFillKeeps,
     CondPublishKeeps, RegisterKeeps, ReleaseMutexKeeps, WokenKeeps, RelockKeeps,
     NotifySlotKeeps DEF CondStep
<1>4. ASSUME UNCHANGED <<vars, condVars>>  PROVE IInv' /\ CondInv'
  <2>1. IInv'
    BY <1>4, IInvSame
  <2>2. CondInv'
    BY <1>4
       DEF CondInv, CondTypeOK, CondHandleInv, CondCreateInv, CallInv, CallOK, SleepersInv,
                Sleepers, Waits, Slotless, Full, condVars, vars
  <2> QED  BY <2>1, <2>2
<1> QED  BY <1>1, <1>2, <1>3, <1>4 DEF PoolsNext

LEMMA PoolsInvariant ==
    ASSUME OneCreator
    PROVE  PoolsSpec => [](IInv /\ CondInv)
<1>1. (IInv /\ CondInv) /\ [PoolsNext]_<<vars, condVars>> => (IInv /\ CondInv)'
  BY CondInvInductive
<1> QED  BY <1>1, InitCondInv, PTL DEF PoolsSpec

(* With one creating core, a waiter stays where those who signal look for  *)
(* it, for any number of cores, objects and slots: its object names its    *)
(* slot, in which it is counted, and no initialisation resets that slot.   *)
THEOREM WaitersReachableHolds ==
    ASSUME OneCreator
    PROVE  PoolsSpec => []WaitersReachable
<1>1. IInv /\ CondInv => WaitersReachable
  <2> SUFFICES ASSUME CondInv, NEW c \in Cores, Waits(c)
               PROVE  LET i == call[c].idx IN
                        /\ chandle[call[c].cond] = i
                        /\ condvar[i].waiters
                             >= Cardinality({d \in Cores : Waits(d) /\ call[d].idx = i})
                        /\ condvar[i].generation >= call[c].my_gen
    BY DEF WaitersReachable
  <2> DEFINE i == call[c].idx
  <2>1. /\ i = chandle[call[c].cond] /\ i >= 0 /\ call[c].cond \in Conds
        /\ call[c].my_gen <= condvar[i].generation
    BY DEF CondInv, CallInv, CallOK, Waits
  <2>2. i \in CondSlots /\ call[c].my_gen \in Nat
    BY <2>1, CondAssumption DEF CondInv, CondTypeOK, CondSlots, CallRecord
  <2>3. condvar[i].waiters \in Nat /\ condvar[i].generation \in Nat
    BY <2>2 DEF CondInv, CondTypeOK
  <2>4. condvar[i].waiters = Cardinality({d \in Cores : Waits(d) /\ call[d].idx = i})
    BY <2>2 DEF CondInv, SleepersInv, Sleepers
  <2> QED  BY <2>1, <2>2, <2>3, <2>4
<1> QED  BY <1>1, PoolsInvariant, PTL

(* What HandlePool promises of mutexes holds of condition variables: no two *)
(* share a slot, and no slot past the end of the pool is written.          *)
CondSlotsRight ==
    /\ \A o, p \in Conds : chandle[o] >= 0 /\ chandle[o] = chandle[p] => o = p
    /\ \A c \in Cores : call[c].at = "fill" => call[c].idx < MaxConds

(* With one creating core, the slots of condition variables are right, too. *)
THEOREM CondSlotsRightHolds ==
    ASSUME OneCreator
    PROVE  PoolsSpec => []CondSlotsRight
<1>1. IInv /\ CondInv => CondSlotsRight
  <2> SUFFICES ASSUME CondInv  PROVE CondSlotsRight
    OBVIOUS
  <2>1. \A o, p \in Conds : chandle[o] >= 0 /\ chandle[o] = chandle[p] => o = p
    BY DEF CondInv, CondHandleInv
  <2>2. MaxConds \in Nat /\ ccount \in 0 .. MaxConds
    BY CondAssumption DEF CondInv, CondTypeOK
  <2>3. \A c \in Cores : call[c].at = "fill" => call[c].idx < MaxConds
    BY <2>2 DEF CondInv, CondCreateInv
  <2> QED  BY <2>1, <2>3 DEF CondSlotsRight
<1> QED  BY <1>1, PoolsInvariant, PTL

(* Mutexes keep their promises beside condition variables: waits give a    *)
(* mutex back and take it again, and still no two mutexes share a slot.    *)
THEOREM PoolsDistinctSlots ==
    ASSUME OneCreator
    PROVE  PoolsSpec => []DistinctSlots
<1>1. IInv /\ CondInv => DistinctSlots
  BY DEF IInv
<1> QED  BY <1>1, PoolsInvariant, PTL

(* One core at a time holds a mutex, across waits too: who comes back from *)
(* one has the mutex alone.                                                *)
THEOREM PoolsObjectExclusion ==
    ASSUME OneCreator
    PROVE  PoolsSpec => []ObjectExclusion
<1>1. IInv /\ CondInv => ObjectExclusion
  BY PoolAssumption DEF IInv, TypeOK, HoldInv, Holds, Slotless, ObjectExclusion
<1> QED  BY <1>1, PoolsInvariant, PTL

-----------------------------------------------------------------------------
(* The pools implement monitors                                            *)

LEMMA LevelsSame ==
    ASSUME \A d \in Cores, p \in Objs : Level(d, p)' = Level(d, p)
    PROVE  Levels' = Levels
BY DEF Levels

LEMMA LevelsChange ==
    ASSUME NEW c \in Cores, NEW o \in Objs, NEW n, Level(c, o)' = n,
           \A d \in Cores, p \in Objs : d /= c \/ p /= o => Level(d, p)' = Level(d, p)
    PROVE  Levels' = [Levels EXCEPT ![c][o] = n]
<1>1. Levels'[c] = [Levels[c] EXCEPT ![o] = n]
  BY DEF Levels
<1>2. \A d \in Cores \ {c} : Levels'[d] = Levels[d]
  BY DEF Levels
<1> QED  BY <1>1, <1>2 DEF Levels

LEMMA LevelsValue == \A c \in Cores, o \in Objs : Levels[c][o] = Level(c, o)
BY DEF Levels

LEMMA WaitSetsSame ==
    ASSUME \A d \in Cores, v \in Conds : AsleepIn(d, v)' <=> AsleepIn(d, v)
    PROVE  WaitSets' = WaitSets
BY DEF WaitSets

(* A core that does not wait is in no wait set. *)
LEMMA AwakeOutside ==
    ASSUME NEW c \in Cores, ~Waits(c)
    PROVE  Monitor!Awake(c)
BY DEF Monitor!Awake, WaitSets, AsleepIn

(* A slot that is free, or the call's own, is nobody else's object. *)
LEMMA OthersHoldNothing ==
    ASSUME IInv, NEW c \in Cores, NEW o \in Objs, handle[o] >= 0, holder[handle[o]] = NoCore
    PROVE  \A d \in Cores : o \notin held[d] /\ Level(d, o) = 0 /\ Levels[d][o] = 0
<1> TAKE d \in Cores
<1>1. o \notin held[d]
  BY PoolAssumption DEF IInv, TypeOK, HoldInv, Holds, Slotless
<1> QED  BY <1>1, LevelsValue DEF Level

(* A step of a core that neither begins nor ends a wait, and disturbs no   *)
(* slot that somebody waits in, does not show.                             *)
LEMMA QuietStep ==
    ASSUME NEW c \in Cores, \A d \in Cores \ {c} : call'[d] = call[d],
           ~Waits(c), ~Waits(c)', held' = held, handle' = handle,
           \A d \in Cores \ {c} : Waits(d) => condvar'[call[d].idx] = condvar[call[d].idx]
    PROVE  UNCHANGED <<Levels, WaitSets>>
<1>1. \A d \in Cores, p \in Objs : Level(d, p)' = Level(d, p)
  BY DEF Level, CondAt, Waits
<1>2. \A d \in Cores, v \in Conds : AsleepIn(d, v)' <=> AsleepIn(d, v)
  BY DEF AsleepIn, Waits
<1> QED  BY <1>1, <1>2, LevelsSame, WaitSetsSame

LEMMA MutexCallMaps ==
    ASSUME IInv, NEW c \in Cores, InMutexCall(c)
    PROVE  Monitor!Next \/ UNCHANGED <<Levels, WaitSets>>
<1>1. TypeOK /\ HoldInv /\ UNCHANGED condVars /\ call[c].at = "idle"
  BY DEF IInv, InMutexCall, CondAt
<1>2. WaitSets' = WaitSets
  BY <1>1, WaitSetsSame DEF AsleepIn, Waits, condVars
<1>3. ~Waits(c) /\ ~CondAt(c, "release")
  BY <1>1 DEF Waits, CondAt
<1>4. CASE EnterSlot(c)
  <2>1. PICK o \in Objs : /\ handle[o] >= 0 /\ holder[handle[o]] = NoCore
                         /\ held' = [held EXCEPT ![c] = @ \cup {o}]
    BY <1>1, <1>4 DEF EnterSlot, HoldInv
  <2>2. \A d \in Cores : o \notin held[d] /\ Level(d, o) = 0 /\ Levels[d][o] = 0
    BY <2>1, OthersHoldNothing
  <2>0. handle' = handle
    BY <1>4 DEF EnterSlot
  <2>3. Level(c, o)' = 1
    BY <1>1, <1>3, <2>0, <2>1 DEF Level, CondAt, TypeOK, condVars
  <2>4. \A d \in Cores, p \in Objs : d /= c \/ p /= o => Level(d, p)' = Level(d, p)
    BY <1>1, <2>0, <2>1 DEF Level, CondAt, TypeOK, condVars
  <2>5. Levels' = [Levels EXCEPT ![c][o] = @ + 1]
    BY <2>1, <2>2, <2>3, <2>4, LevelsChange
  <2>6. Monitor!Acquire(c, o)
    BY <1>2, <1>3, <2>2, <2>5, AwakeOutside DEF Monitor!Acquire
  <2> QED  BY <2>1, <2>6 DEF Monitor!Next
<1>5. ASSUME NEW o \in Objs, Unlock(c, o), handle[o] >= 0  PROVE Monitor!Next
  <2>1. o \in held[c] /\ held' = [held EXCEPT ![c] = @ \ {o}] /\ handle' = handle
    BY <1>5 DEF Unlock
  <2>2. Level(c, o) = 1 /\ Level(c, o)' = 0
    BY <1>1, <1>3, <1>5, <2>1 DEF Level, CondAt, TypeOK, condVars
  <2>3. \A d \in Cores, p \in Objs : d /= c \/ p /= o => Level(d, p)' = Level(d, p)
    BY <1>1, <2>1 DEF Level, CondAt, TypeOK, condVars
  <2>4. Levels' = [Levels EXCEPT ![c][o] = @ - 1] /\ Levels[c][o] > 0
    BY <2>2, <2>3, LevelsChange, LevelsValue
  <2>5. Monitor!Release(c, o)
    BY <1>2, <1>3, <2>4, AwakeOutside DEF Monitor!Release
  <2> QED  BY <2>5 DEF Monitor!Next
<1>6. CASE held' = held /\ handle' = handle
  BY <1>1, <1>2, <1>6, LevelsSame DEF Level, CondAt, condVars
<1>7. ASSUME NEW o \in Objs, ~(handle[o] >= 0), handle' = handle,
             \A d \in Cores, p \in Objs \ {o} : p \in held'[d] <=> p \in held[d]
      PROVE  Levels' = Levels
  <2>1. \A d \in Cores, p \in Objs : Level(d, p)' = Level(d, p)
    BY <1>1, <1>7 DEF Level, CondAt, condVars
  <2> QED  BY <2>1, LevelsSame
<1>8. ASSUME NEW o \in Objs, Unlock(c, o), ~(handle[o] >= 0)  PROVE Levels' = Levels
  <2>1. /\ handle' = handle
        /\ \A d \in Cores, p \in Objs \ {o} : p \in held'[d] <=> p \in held[d]
    BY <1>1, <1>8 DEF Unlock, TypeOK
  <2> QED  BY <1>7, <1>8, <2>1
<1>9. CASE Bound(c)
  <2>1. PICK o \in Objs : o = obj[c] /\ handle[o] = -1
    BY <1>9 DEF Bound, IInv, CreateInv, Creating
  <2>2. /\ handle' = handle
        /\ \A d \in Cores, p \in Objs \ {o} : p \in held'[d] <=> p \in held[d]
    BY <1>1, <1>9, <2>1 DEF Bound, TypeOK
  <2>3. ~(handle[o] >= 0)
    BY <2>1
  <2> QED  BY <1>2, <1>7, <2>2, <2>3
<1>10. CASE Publish(c)
  <2>1. PICK o \in Objs : o = obj[c] /\ handle[o] = -1 /\ ~Slotless(o)
    BY <1>10 DEF Publish, IInv, CreateInv, Creating, Slotless
  <2>2. \A d \in Cores : o \notin held[d]
    BY <1>1, <2>1 DEF HoldInv, Holds
  <2>3. held' = held /\ \A p \in Objs \ {o} : handle'[p] = handle[p]
    BY <1>1, <1>10, <2>1 DEF Publish, TypeOK
  <2>4. \A d \in Cores, p \in Objs : Level(d, p)' = Level(d, p)
    BY <1>1, <2>2, <2>3 DEF Level, CondAt, condVars
  <2> QED  BY <1>2, <2>4, LevelsSame
<1>11. \/ EnterSlot(c) \/ Bound(c) \/ Publish(c)
       \/ (\E o \in Objs : Unlock(c, o)) \/ (held' = held /\ handle' = handle)
  BY DEF InMutexCall, Step, Check, Load, Store, Fill, Lock, MutexInit, Begin
<1> QED  BY <1>2, <1>4, <1>5, <1>6, <1>8, <1>9, <1>10, <1>11

LEMMA CondCallMaps ==
    ASSUME IInv, CondInv, NEW c \in Cores, CondCall(c)
    PROVE  UNCHANGED <<Levels, WaitSets>>
<1>1. ASSUME NEW op, NEW o, NEW place, place \in {"check", "bound"}, Wants(c, op, o, place)
      PROVE  /\ call[c].at = "idle" /\ UNCHANGED <<condvar, vars>>
             /\ call'[c].at \in {"check", "bound"}
             /\ \A d \in Cores \ {c} : call'[d] = call[d]
  BY <1>1 DEF Wants, CondAt, CondInv, CondTypeOK, NoCall
<1>2. /\ call[c].at = "idle" /\ UNCHANGED <<condvar, vars>>
      /\ call'[c].at \in {"check", "bound"}
  BY <1>1 DEF CondCall, CondWait, Notify, CondCreate
<1>3. \A d \in Cores \ {c} : call'[d] = call[d]
  BY <1>1 DEF CondCall, CondWait, Notify, CondCreate
<1> QED  BY <1>2, <1>3, QuietStep DEF Waits, vars

(* The places of an initialisation; filling resets a slot nobody waits in. *)
LEMMA InitialisingMaps ==
    ASSUME IInv, CondInv, NEW c \in Cores,
           \/ CondCheck(c) \/ CondBound(c) \/ CondLoad(c) \/ CondStore(c)
           \/ CondFill(c) \/ CondPublish(c)
    PROVE  UNCHANGED <<Levels, WaitSets>>
<1>1. CondTypeOK /\ CondCreateInv /\ CallInv
  BY DEF CondInv
<1>2. /\ call[c].at \in {"check", "bound", "load", "store", "fill", "publish"}
      /\ call'[c].at \in {"idle", "act", "bound", "load", "store", "fill", "publish"}
      /\ \A d \in Cores \ {c} : call'[d] = call[d]
      /\ held' = held /\ handle' = handle
  BY <1>1 DEF CondCheck, CondBound, CondLoad, CondStore, CondFill, CondPublish, CondAt,
     CondGoto, CondTypeOK, CallRecord, NoCall, vars
<1>3. \A d \in Cores : Waits(d) => condvar'[call[d].idx] = condvar[call[d].idx]
  <2>1. CASE CondFill(c)
    <3>1. \A o \in Conds : chandle[o] /= call[c].idx
      BY <1>1, <2>1 DEF CondFill, CondAt, CondCreateInv
    <3>2. \A d \in Cores : Waits(d) => call[d].idx /= call[c].idx
      BY <1>1, <3>1 DEF CallInv, CallOK, Waits
    <3>3. \A i : i /= call[c].idx => condvar'[i] = condvar[i]
      BY <1>1, <2>1 DEF CondFill, CondTypeOK
    <3> QED  BY <3>2, <3>3
  <2>2. CASE ~CondFill(c)
    BY <2>2 DEF CondCheck, CondBound, CondLoad, CondStore, CondPublish
  <2> QED  BY <2>1, <2>2
<1> QED  BY <1>2, <1>3, QuietStep DEF Waits

(* pthread_cond_wait joins the wait set and gives the mutex back, if it    *)
(* has a slot.                                                             *)
LEMMA RegisterMaps ==
    ASSUME IInv, CondInv, NEW c \in Cores, Register(c)
    PROVE  Monitor!Next
<1> DEFINE k == call[c]
<1>1. CondTypeOK /\ CallInv /\ TypeOK
  BY DEF IInv, CondInv
<1>a. PICK v : v = k.cond
  OBVIOUS
<1>b. PICK o : o = MutexOf[v]
  OBVIOUS
<1>2. /\ k.at = "act" /\ v \in Conds /\ o \in held[c] /\ o \in Objs /\ k.cond = v
      /\ k.idx >= 0 /\ k.idx = chandle[v]
  BY <1>1, <1>a, <1>b, CondAssumption DEF Register, CondAt, CallInv, CallOK
<1>3. /\ call'[c].at = "release" /\ call'[c].cond = v /\ call'[c].idx = k.idx
      /\ call'[c].my_gen = condvar[k.idx].generation
      /\ \A d \in Cores \ {c} : call'[d] = call[d]
      /\ held' = held /\ handle' = handle
  BY <1>1, <1>a DEF Register, CondTypeOK, CallRecord, vars
<1>4. k.idx \in CondSlots
  BY <1>1, <1>2, CondAssumption DEF CondTypeOK, CondSlots
<1>5. \A i \in CondSlots : condvar'[i].generation = condvar[i].generation
  BY <1>1, <1>4 DEF Register, CondTypeOK
<1>6. \A d \in Cores : Waits(d) => call[d].idx \in CondSlots
  BY <1>1, CondAssumption DEF CallInv, CallOK, CondTypeOK, CondSlots, Waits
<1>7. WaitSets' = [WaitSets EXCEPT ![v] = @ \cup {c}]
  <2>1. \A w \in Conds : ~AsleepIn(c, w) /\ (AsleepIn(c, w)' <=> w = v)
    BY <1>2, <1>3, <1>4, <1>5 DEF AsleepIn, Waits
  <2>2. \A d \in Cores \ {c}, w \in Conds : AsleepIn(d, w)' <=> AsleepIn(d, w)
    BY <1>3, <1>5, <1>6 DEF AsleepIn, Waits
  <2>3. WaitSets'[v] = WaitSets[v] \cup {c}
    BY <1>2, <2>1, <2>2 DEF WaitSets
  <2>4. \A w \in Conds \ {v} : WaitSets'[w] = WaitSets[w]
    BY <2>1, <2>2 DEF WaitSets
  <2> QED  BY <1>2, <2>3, <2>4 DEF WaitSets
<1>8. \A d \in Cores, p \in Objs : d /= c \/ p /= o => Level(d, p)' = Level(d, p)
  BY <1>b, <1>2, <1>3 DEF Level, CondAt
<1>9. Monitor!Sleep(c, v)
  BY <1>2, <1>7, AwakeOutside DEF Monitor!Sleep, Waits
<1>10. CASE handle[o] >= 0
  <2>1. Level(c, o) = 1 /\ Level(c, o)' = 0
    BY <1>b, <1>2, <1>3, <1>10 DEF Level, CondAt
  <2>2. Levels' = [Levels EXCEPT ![c][o] = @ - 1] /\ Levels[c][o] > 0
    BY <1>2, <1>8, <2>1, LevelsChange, LevelsValue
  <2>3. Monitor!Wait(c, v, o)
    BY <1>9, <2>2 DEF Monitor!Wait
  <2> QED  BY <1>2, <2>3 DEF Monitor!Next
<1>11. CASE ~(handle[o] >= 0)
  <2>1. Level(c, o) = 0 /\ Level(c, o)' = 0
    BY <1>3, <1>11 DEF Level
  <2>2. Levels' = Levels
    BY <1>8, <2>1, LevelsSame
  <2>3. Monitor!WaitUnlocked(c, v)
    BY <1>9, <2>2 DEF Monitor!WaitUnlocked
  <2> QED  BY <1>2, <2>3 DEF Monitor!Next
<1> QED  BY <1>10, <1>11

(* Releasing the mutex's slot: the mutex was already given back. *)
LEMMA ReleaseMutexMaps ==
    ASSUME IInv, CondInv, NEW c \in Cores, ReleaseMutex(c)
    PROVE  UNCHANGED <<Levels, WaitSets>>
<1> DEFINE k == call[c]
<1>1. CondTypeOK /\ TypeOK
  BY DEF IInv, CondInv
<1>2. /\ k.at = "release" /\ condvar' = condvar
      /\ call'[c].at = "sleep" /\ call'[c].cond = k.cond /\ call'[c].idx = k.idx
      /\ call'[c].my_gen = k.my_gen
      /\ \A d \in Cores \ {c} : call'[d] = call[d] /\ held'[d] = held[d]
      /\ held'[c] = held[c] \ {MutexOf[k.cond]} /\ handle' = handle
  BY <1>1 DEF ReleaseMutex, CondAt, CondGoto, CondTypeOK, CallRecord, TypeOK
<1>3. \A d \in Cores, p \in Objs : Level(d, p)' = Level(d, p)
  BY <1>2 DEF Level, CondAt
<1>4. \A d \in Cores, v \in Conds : AsleepIn(d, v)' <=> AsleepIn(d, v)
  BY <1>2 DEF AsleepIn, Waits
<1> QED  BY <1>3, <1>4, LevelsSame, WaitSetsSame

(* Whoever leaves the loop was no more in the wait set. *)
LEMMA WokenMaps ==
    ASSUME IInv, CondInv, NEW c \in Cores, Woken(c)
    PROVE  UNCHANGED <<Levels, WaitSets>>
<1> DEFINE k == call[c]
<1>1. CondTypeOK /\ CallInv /\ TypeOK
  BY DEF IInv, CondInv
<1>2. /\ k.at = "sleep" /\ condvar[k.idx].generation # k.my_gen
      /\ call'[c].at = "relock" /\ held' = held /\ handle' = handle
      /\ \A d \in Cores \ {c} : call'[d] = call[d]
  BY <1>1 DEF Woken, CondAt, CondGoto, CondTypeOK, CallRecord, vars
<1>3. \A d \in Cores : Waits(d) => call[d].idx \in CondSlots
  BY <1>1, CondAssumption DEF CallInv, CallOK, CondTypeOK, CondSlots, Waits
<1>4. \A i \in CondSlots : condvar'[i].generation = condvar[i].generation
  BY <1>1, <1>2, <1>3 DEF Woken, CondTypeOK, Waits
<1>5. \A d \in Cores, p \in Objs : Level(d, p)' = Level(d, p)
  BY <1>2 DEF Level, CondAt
<1>6. \A d \in Cores, v \in Conds : AsleepIn(d, v)' <=> AsleepIn(d, v)
  BY <1>2, <1>3, <1>4 DEF AsleepIn, Waits
<1> QED  BY <1>5, <1>6, LevelsSame, WaitSetsSame

LEMMA RelockMaps ==
    ASSUME IInv, CondInv, NEW c \in Cores, Relock(c)
    PROVE  Monitor!Next \/ UNCHANGED <<Levels, WaitSets>>
<1> DEFINE k == call[c]
<1>1. CondTypeOK /\ CallInv /\ TypeOK /\ HandleInv
  BY DEF IInv, CondInv
<1>a. PICK o : o = MutexOf[k.cond]
  OBVIOUS
<1>2. /\ k.at = "relock" /\ o \in Objs
      /\ handle[o] >= 0 => holder[handle[o]] = NoCore
  BY <1>1, <1>a, CondAssumption, PoolAssumption
     DEF Relock, RelockFree, Initialised, HandleInv, TypeOK, CondAt, CallInv, CallOK
<1>3. /\ call'[c].at = "idle" /\ condvar' = condvar /\ handle' = handle
      /\ \A d \in Cores \ {c} : call'[d] = call[d] /\ held'[d] = held[d]
      /\ held'[c] = held[c] \cup {o}
  BY <1>1, <1>a DEF Relock, CondTypeOK, TypeOK, NoCall
<1>4. \A d \in Cores, v \in Conds : AsleepIn(d, v)' <=> AsleepIn(d, v)
  BY <1>2, <1>3 DEF AsleepIn, Waits
<1>5. \A d \in Cores, p \in Objs : d /= c \/ p /= o => Level(d, p)' = Level(d, p)
  BY <1>2, <1>3 DEF Level, CondAt
<1>6. CASE handle[o] >= 0
  <2>1. \A d \in Cores : o \notin held[d] /\ Level(d, o) = 0 /\ Levels[d][o] = 0
    BY <1>2, <1>6, OthersHoldNothing
  <2>2. Level(c, o)' = 1
    BY <1>3, <1>6 DEF Level, CondAt
  <2>3. Levels' = [Levels EXCEPT ![c][o] = @ + 1]
    BY <1>2, <1>5, <2>1, <2>2, LevelsChange
  <2>4. Monitor!Acquire(c, o)
    BY <1>2, <1>4, <2>1, <2>3, AwakeOutside, WaitSetsSame DEF Monitor!Acquire, Waits
  <2> QED  BY <1>2, <2>4 DEF Monitor!Next
<1>7. CASE ~(handle[o] >= 0)
  <2>1. Level(c, o) = 0 /\ Level(c, o)' = 0
    BY <1>3, <1>7 DEF Level
  <2> QED  BY <1>4, <1>5, <2>1, LevelsSame, WaitSetsSame
<1> QED  BY <1>6, <1>7

(* A signal empties the wait set: all who wait sleep in the slot it moves, *)
(* and nobody does when its waiters field is 0.                            *)
LEMMA NotifySlotMaps ==
    ASSUME IInv, CondInv, NEW c \in Cores, NotifySlot(c)
    PROVE  Monitor!Next
<1> DEFINE k == call[c]
<1>1. CondTypeOK /\ CallInv /\ CondHandleInv /\ SleepersInv
  BY DEF CondInv
<1>a. PICK v : v = k.cond
  OBVIOUS
<1>b. PICK i : i = k.idx
  OBVIOUS
<1>2. k.at = "act" /\ v \in Conds /\ i = chandle[v] /\ i >= 0 /\ k.idx = i /\ k.cond = v
  BY <1>1, <1>a, <1>b DEF NotifySlot, CondAt, CallInv, CallOK
<1>3. i \in CondSlots
  BY <1>1, <1>2, CondAssumption DEF CondTypeOK, CondSlots
<1>4. /\ call'[c].at = "idle" /\ held' = held /\ handle' = handle
      /\ \A d \in Cores \ {c} : call'[d] = call[d]
  BY <1>1 DEF NotifySlot, CondTypeOK, NoCall, vars
<1>5. \A d \in Cores : Waits(d) =>
          /\ call[d].cond \in Conds /\ call[d].idx \in CondSlots
          /\ (call[d].cond = v <=> call[d].idx = i)
          /\ call[d].my_gen \in Nat /\ call[d].my_gen <= condvar[call[d].idx].generation
  <2> TAKE d \in Cores
  <2> HAVE Waits(d)
  <2>1. /\ call[d].cond \in Conds /\ call[d].idx = chandle[call[d].cond] /\ call[d].idx >= 0
        /\ call[d].my_gen <= condvar[call[d].idx].generation
    BY <1>1 DEF CallInv, CallOK, Waits
  <2>2. call[d].idx \in CondSlots /\ call[d].my_gen \in Nat
    BY <1>1, <2>1, CondAssumption DEF CondTypeOK, CondSlots, CallRecord
  <2> QED  BY <1>1, <1>2, <2>1, <2>2 DEF CondHandleInv
<1>6. \A d \in Cores : ~AsleepIn(d, v)'
  <2>1. CASE condvar[i].waiters > 0 \/ k.op = "broadcast"
    <3>1. condvar'[i].generation = condvar[i].generation + 1 /\ condvar[i].generation \in Nat
      BY <1>1, <1>2, <1>3, <2>1 DEF NotifySlot, CondTypeOK
    <3> QED  BY <1>4, <1>5, <3>1 DEF AsleepIn, Waits
  <2>2. CASE ~(condvar[i].waiters > 0 \/ k.op = "broadcast")
    <3>1. IsFiniteSet(Sleepers(i)) /\ Cardinality(Sleepers(i)) = 0
      BY <1>1, <1>2, <1>3, <2>2 DEF SleepersInv, CondTypeOK
    <3>2. Sleepers(i) = {}
      BY <3>1, FS_EmptySet
    <3>3. \A d \in Cores : ~(Waits(d) /\ call[d].cond = v)
      BY <1>5, <3>2 DEF Sleepers
    <3> QED  BY <1>4, <3>3 DEF AsleepIn, Waits
  <2> QED  BY <2>1, <2>2
<1>7. \A d \in Cores, w \in Conds \ {v} : AsleepIn(d, w)' <=> AsleepIn(d, w)
  <2>1. \A j \in CondSlots \ {i} : condvar'[j] = condvar[j]
    BY <1>1, <1>2, <1>3 DEF NotifySlot, CondTypeOK
  <2> QED  BY <1>2, <1>4, <1>5, <2>1 DEF AsleepIn, Waits
<1>8. WaitSets' = [WaitSets EXCEPT ![v] = {}]
  <2>1. WaitSets'[v] = {}
    BY <1>2, <1>6 DEF WaitSets
  <2>2. \A w \in Conds \ {v} : WaitSets'[w] = WaitSets[w]
    BY <1>7 DEF WaitSets
  <2> QED  BY <2>1, <2>2 DEF WaitSets
<1>9. Levels' = Levels
  <2>1. \A d \in Cores, p \in Objs : Level(d, p)' = Level(d, p)
    BY <1>2, <1>4 DEF Level, CondAt
  <2> QED  BY <2>1, LevelsSame
<1> QED  BY <1>2, <1>8, <1>9 DEF Monitor!Notify, Monitor!Next

LEMMA PoolsInitMaps == PoolsInit => Monitor!Init
<1> SUFFICES ASSUME PoolsInit  PROVE Monitor!Init
  OBVIOUS
<1>1. \A c \in Cores : held[c] = {} /\ call[c].at = "idle"
  BY DEF PoolsInit, Init, CondInit, NoCall
<1>2. Levels = [c \in Cores |-> [o \in Objs |-> 0]]
  BY <1>1 DEF Levels, Level
<1>3. WaitSets = [v \in Conds |-> {}]
  BY <1>1 DEF WaitSets, AsleepIn, Waits
<1> QED  BY <1>2, <1>3 DEF Monitor!Init

LEMMA PoolsStepMaps ==
    IInv /\ CondInv /\ [PoolsNext]_<<vars, condVars>> => [Monitor!Next]_<<Levels, WaitSets>>
<1> SUFFICES ASSUME IInv, CondInv, [PoolsNext]_<<vars, condVars>>
             PROVE  Monitor!Next \/ UNCHANGED <<Levels, WaitSets>>
  OBVIOUS
<1>1. ASSUME NEW c \in Cores, InMutexCall(c) \/ CondCall(c) \/ CondStep(c)
      PROVE  Monitor!Next \/ UNCHANGED <<Levels, WaitSets>>
  BY <1>1, MutexCallMaps, CondCallMaps, InitialisingMaps, RegisterMaps, ReleaseMutexMaps,
     WokenMaps, RelockMaps, NotifySlotMaps DEF CondStep
<1>2. CASE UNCHANGED <<vars, condVars>>
  <2>1. \A d \in Cores, p \in Objs : Level(d, p)' = Level(d, p)
    BY <1>2 DEF vars, condVars, Level, CondAt
  <2>2. \A d \in Cores, v \in Conds : AsleepIn(d, v)' <=> AsleepIn(d, v)
    BY <1>2 DEF condVars, AsleepIn, Waits
  <2> QED  BY <2>1, <2>2, LevelsSame, WaitSetsSame
<1> QED  BY <1>1, <1>2 DEF PoolsNext

(* With one creating core, the objects of both pools are monitors: mutexes *)
(* exclude, a wait joins the wait set in the step that gives its mutex     *)
(* back, and whoever signals the object empties that very wait set.  A     *)
(* mutex that the full pool left without a slot is the monitor's mutex     *)
(* that nobody ever holds: its locks and unlocks are stutters, though each *)
(* returns 0, and a wait with it is one that gives nothing back.           *)
THEOREM PoolsRefinement ==
    ASSUME OneCreator
    PROVE  PoolsSpec => ImplementsMonitors
BY PoolsInvariant, PoolsStepMaps, PoolsInitMaps, PTL
   DEF PoolsSpec, ImplementsMonitors, Monitor!Spec

===============================================================================
